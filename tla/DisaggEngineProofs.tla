--------------------------- MODULE DisaggEngineProofs ---------------------------
(***************************************************************************)
(* Invariants of the engine in disaggregation mode, for every set of       *)
(* requests, every offer of submissions and every size of a chunk.         *)
(***************************************************************************)
EXTENDS DisaggEngine, InputLemmas

-----------------------------------------------------------------------------
(* The pieces.                                                             *)

(* Functions narrowed, and queues retyped.                                 *)
LEMMA RestrictFacts ==
  ASSUME NEW f, NEW S
  PROVE  /\ DOMAIN Restrict(f, S) = S /\ Restrict(f, S) = [x \in S |-> f[x]]
         /\ \A x \in S : Restrict(f, S)[x] = f[x]
BY DEF Restrict

LEMMA Retype ==
  ASSUME NEW R, NEW q \in Seq(R), NEW S, Elements(q) \subseteq S
  PROVE  q \in Seq(S)
<1>1. Len(q) \in Nat /\ DOMAIN q = 1..Len(q) /\ q = [i \in 1..Len(q) |-> q[i]]
  OBVIOUS
<1>2. \A i \in 1..Len(q) : q[i] \in S
  BY <1>1 DEF Elements
<1> QED BY <1>1, <1>2

LEMMA QueueType ==
  ASSUME NEW R, NEW q \in Seq(R)
  PROVE  Elements(q) \subseteq R
BY DEF Elements

(* The images of an injective function, with a set apart.                  *)
Image(f, S)     == {f[r] : r \in S}
Differ(f, S, T) == \A r \in S : \A t \in T : f[r] = f[t] => r = t
Avoids(f, S, K) == \A r \in S : f[r] \notin K
Apart(f, S, T, K)  == (Image(f, S) \cup K) \ Image(f, T)
Joined(f, S, T, K) == Image(f, S \ T) \cup K

LEMMA ImagesApart ==
  ASSUME NEW f, NEW S, NEW T, NEW K, Differ(f, S, T), Avoids(f, T, K)
  PROVE  Apart(f, S, T, K) = Joined(f, S, T, K)
<1> USE DEF Apart, Joined, Differ, Avoids
<1>1. ASSUME NEW x, x \in Image(f, S) \cup K, x \notin Image(f, T)
      PROVE  x \in Image(f, S \ T) \cup K
  BY <1>1 DEF Image
<1>2. ASSUME NEW x \in K PROVE x \in (Image(f, S) \cup K) \ Image(f, T)
  BY DEF Image
<1>3. ASSUME NEW r \in S \ T PROVE f[r] \in (Image(f, S) \cup K) \ Image(f, T)
  BY DEF Image
<1>4. ASSUME NEW x \in Image(f, S \ T) PROVE x \in (Image(f, S) \cup K) \ Image(f, T)
  BY <1>3 DEF Image
<1> QED BY <1>1, <1>2, <1>4

(* A new id is free.                                                       *)
LEMMA FreshId ==
  ASSUME used_ids \subseteq Nat, IsFiniteSet(used_ids)
  PROVE  NewId \in Nat /\ NewId \notin used_ids
<1> DEFINE n == Cardinality(used_ids)
           T == 0..n \ used_ids
<1>1. n \in Nat
  BY FS_CardinalityType
<1>2. T # {}
  <2> SUFFICES ASSUME T = {} PROVE FALSE
    OBVIOUS
  <2>1. 0..n \subseteq used_ids
    OBVIOUS
  <2>2. Cardinality(0..n) <= n
    BY <2>1, FS_Subset
  <2>3. Cardinality(0..n) = n + 1
    BY <1>1, FS_Interval
  <2> QED BY <1>1, <2>2, <2>3
<1>3. T \subseteq Nat
  OBVIOUS
<1> HIDE DEF T
<1>4. Min(T) \in T
  BY <1>2, <1>3, MinOf
<1> QED BY <1>4 DEF T, NewId

LEMMA FirstWaitingFacts ==
  ASSUME TypeOK, NEW kind, NEW r \in FirstWaiting(kind)
  PROVE  r \in Live /\ r \in Elements(waiting_queue) /\ entry[r].kind = kind
<1> DEFINE S == {x \in Live : entry[x].kind = kind}
           q == Keep(waiting_queue, S)
<1>1. waiting_queue \in Seq(Live)
  BY DEF TypeOK
<1>2. q \in Seq(Live) /\ Elements(q) = Elements(waiting_queue) \cap S
  BY <1>1, KeepProperties
<1>3. q # <<>> /\ r = Head(q)
  BY DEF FirstWaiting
<1> HIDE DEF q
<1>4. 1 \in DOMAIN q /\ Head(q) = q[1]
  BY <1>2, <1>3
<1>5. r \in Elements(q)
  BY <1>3, <1>4 DEF Elements
<1> QED BY <1>2, <1>5

-----------------------------------------------------------------------------
(* Places and sequences.                                                   *)

(* What the actions of a Step establish before entries are retired.        *)
MidState(ent, running, seqs) ==
  /\ ent \in [Live -> Entry]
  /\ \A r \in Live : ent[r].internal_id = entry[r].internal_id
  /\ waiting_queue' \in Seq(Live) /\ NoRepeats(waiting_queue')
  /\ Elements(waiting_queue') = {r \in Live : ent[r].left # <<>>}
  /\ running \in Seq(Live) /\ NoRepeats(running)
  /\ Elements(running) =
       {r \in Live : ent[r].status = "alive" /\ ent[r].kind # "prepare_receive"}
  /\ \A r \in Live : ent[r].status = "pending" => ent[r].left # <<>>
  /\ \A r \in Live :
       ent[r].status = "alive" /\ ent[r].kind = "prepare_receive" => ent[r].left = <<>>
  /\ seqs \in [DOMAIN seqs -> Seq(Nat)]
  /\ DOMAIN seqs = {entry[r].internal_id : r \in {x \in Live : ent[x].status = "alive"}} \cup leaked

(* What Retire does then.                                                  *)
Retired(finished, ent, running, seqs) ==
  LET ids == {ent[r].internal_id : r \in finished} IN
  /\ entry' = Restrict(ent, DOMAIN ent \ finished)
  /\ running_queue' \in Seq(Live) /\ NoRepeats(running_queue')
  /\ Elements(running_queue') = Elements(running) \ finished
  /\ sequences' = Restrict(seqs, DOMAIN seqs \ ids)
  /\ used_ids' = used_ids \ ids

LEMMA RetireFacts ==
  ASSUME NEW ent, NEW running, NEW seqs, NEW finished,
         MidState(ent, running, seqs), Retire(finished, ent, running, seqs)
  PROVE  Retired(finished, ent, running, seqs)
<1>1. /\ running_queue' \in Seq(Live) /\ NoRepeats(running_queue')
      /\ Elements(running_queue') = Elements(running) \ finished
  BY WithoutProperties DEF MidState, Retire
<1> QED BY <1>1, Zenon DEF Retire, Retired

LEMMA NothingRetired ==
  ASSUME NEW ent, NEW running, NEW seqs, MidState(ent, running, seqs),
         entry' = ent, running_queue' = running, sequences' = seqs, used_ids' = used_ids
  PROVE  Retired({}, ent, running, seqs)
<1>1. ent = Restrict(ent, DOMAIN ent \ {})
  BY DEF Restrict, MidState
<1>2. seqs = Restrict(seqs, DOMAIN seqs \ {})
  BY DEF Restrict, MidState
<1>3. {ent[r].internal_id : r \in {}} = {}
  OBVIOUS
<1> QED BY <1>1, <1>2, <1>3 DEF Retired, MidState

LEMMA RetireStructure ==
  ASSUME Structure, NEW ent, NEW running, NEW seqs, NEW finished,
         MidState(ent, running, seqs), Retired(finished, ent, running, seqs),
         finished \subseteq Live,
         \A r \in finished : /\ ent[r].status = "alive" /\ ent[r].kind # "prepare_receive"
                             /\ ent[r].left = <<>>,
         UNCHANGED <<submission, lost_ids, leaked>>,
         streamed' \in [Request -> Seq(Nat)], ended' \in [Request -> Seq(Reasons)],
         DOMAIN handed' \subseteq DOMAIN submission
  PROVE  /\ Structure'
         /\ Live' = Live \ finished
         /\ \A r \in Live' :
              /\ entry'[r] = ent[r]
              /\ Held(r)' = IF ent[r].status = "alive" THEN seqs[ent[r].internal_id] ELSE <<>>
<1> DEFINE ids == {ent[r].internal_id : r \in finished}
           D == Live \ finished
<1>1. /\ entry' = Restrict(ent, DOMAIN ent \ finished)
      /\ sequences' = Restrict(seqs, DOMAIN seqs \ ids)
      /\ used_ids' = used_ids \ ids
  BY DEF Retired
<1>2. DOMAIN ent = Live
  BY DEF MidState
<1>3. /\ Live' = D /\ entry' \in [D -> Entry] /\ \A r \in D : entry'[r] = ent[r]
  <2>1. DOMAIN entry' = D /\ entry' = [x \in D |-> ent[x]]
    BY <1>1, <1>2, RestrictFacts
  <2>2. \A r \in D : ent[r] \in Entry
    BY DEF MidState
  <2> QED BY <2>1, <2>2 DEF Live
<1>4. /\ DOMAIN sequences' = DOMAIN seqs \ ids
      /\ sequences' = [x \in DOMAIN seqs \ ids |-> seqs[x]]
      /\ \A x \in DOMAIN seqs \ ids : sequences'[x] = seqs[x]
  BY <1>1, RestrictFacts
<1>5. /\ running_queue' \in Seq(Live) /\ NoRepeats(running_queue')
      /\ Elements(running_queue') = Elements(running) \ finished
  BY DEF Retired
<1>6. /\ waiting_queue' \in Seq(D) /\ running_queue' \in Seq(D)
  <2>1. Elements(waiting_queue') \subseteq D
    BY DEF MidState
  <2>2. Elements(running_queue') \subseteq D
    BY <1>5 DEF MidState
  <2> QED BY <1>5, <2>1, <2>2, Retype DEF MidState
<1>7. /\ \A r \in Live : ent[r].internal_id = entry[r].internal_id /\ entry[r].internal_id \in Nat
      /\ \A r, s \in Live : entry[r].internal_id = entry[s].internal_id => r = s
  <2>1. \A r \in Live : entry[r] \in Entry
    BY DEF Structure, TypeOK
  <2> QED BY <2>1 DEF MidState, Structure, SequencesAccounted, Entry
<1>8. \A r \in D : entry[r].internal_id \notin ids
  BY <1>7
<1>9. TypeOK'
  <2>1. /\ DOMAIN submission' \subseteq Request
        /\ \A r \in DOMAIN submission' : submission'[r] \in Offered[r]
        /\ D \subseteq DOMAIN submission' /\ DOMAIN handed' \subseteq DOMAIN submission'
    BY DEF Structure, TypeOK
  <2>2. used_ids' \subseteq Nat /\ IsFiniteSet(used_ids')
    <3>1. used_ids \subseteq Nat /\ IsFiniteSet(used_ids)
      BY DEF Structure, TypeOK
    <3>2. used_ids' \subseteq used_ids
      BY <1>1
    <3> QED BY <3>1, <3>2, FS_Subset
  <2>3. sequences' \in [DOMAIN sequences' -> Seq(Nat)]
    BY <1>4 DEF MidState
  <2> QED BY <1>3, <1>6, <2>1, <2>2, <2>3 DEF TypeOK
<1>10. Alive' = {r \in D : ent[r].status = "alive"}
  BY <1>3 DEF Alive
<1>11. PlaceAgrees'
  <2>1. Elements(waiting_queue') = {r \in D : entry'[r].left # <<>>}
    BY <1>3 DEF MidState
  <2>2. Elements(running_queue') = {r \in D : ent[r].status = "alive" /\ entry'[r].kind # "prepare_receive"}
    BY <1>3, <1>5 DEF MidState
  <2>3. ASSUME NEW r \in D
        PROVE  Parked(r)' <=> ent[r].status = "alive" /\ entry'[r].kind = "prepare_receive"
    <3>1. ent[r] = entry'[r] /\ r \in Live /\ ent[r].status \in {"pending", "alive"}
      <4>1. ent[r] \in Entry
        BY DEF MidState
      <4> QED BY <1>3, <4>1 DEF Entry
    <3>2. /\ ent[r].status = "pending" => ent[r].left # <<>>
          /\ ent[r].status = "alive" /\ ent[r].kind = "prepare_receive" => ent[r].left = <<>>
      BY DEF MidState
    <3> QED BY <2>1, <2>2, <3>1, <3>2 DEF Parked
  <2> QED BY <1>3, <1>5, <1>10, <2>1, <2>2, <2>3 DEF PlaceAgrees, MidState
<1> DEFINE f == [r \in Live |-> entry[r].internal_id]
           A == {x \in Live : ent[x].status = "alive"}
<1>f. \A r \in Live : f[r] = entry[r].internal_id
  OBVIOUS
<1> HIDE DEF f
<1>12. /\ IdsIn(Live)' = Image(f, D)
       /\ IdsIn(Alive)' = Image(f, A \ finished)
  <2>1. \A r \in D : entry'[r].internal_id = f[r]
    BY <1>3, <1>7, <1>f
  <2>2. Alive' = A \ finished
    BY <1>10
  <2>3. {entry'[r].internal_id : r \in D} = Image(f, D)
    BY <2>1, Zenon DEF Image
  <2>4. {entry'[r].internal_id : r \in A \ finished} = Image(f, A \ finished)
    <3>1. A \ finished \subseteq D
      OBVIOUS
    <3>2. \A r \in A \ finished : entry'[r].internal_id = f[r]
      BY <2>1, <3>1
    <3> QED BY <3>2, Zenon DEF Image
  <2> QED BY <1>3, <2>2, <2>3, <2>4 DEF IdsIn
<1>13. SequencesAccounted'
  <2>1. {entry[r].internal_id : r \in Live} = Image(f, Live)
    BY <1>f, Zenon DEF Image
  <2>2. ids = Image(f, finished)
    <3>1. \A r \in finished : ent[r].internal_id = f[r]
      BY <1>7, <1>f
    <3> QED BY <3>1, Zenon DEF Image
  <2>3. {entry[r].internal_id : r \in A} = Image(f, A)
    <3>1. \A r \in A : entry[r].internal_id = f[r]
      BY <1>f
    <3> QED BY <3>1, Zenon DEF Image
  <2>4. /\ used_ids = Image(f, Live) \cup lost_ids
        /\ Image(f, Live) \cap lost_ids = {} /\ leaked \subseteq lost_ids
    BY <2>1 DEF Structure, SequencesAccounted, IdsIn
  <2>5. DOMAIN seqs = Image(f, A) \cup leaked
    BY <2>3 DEF MidState
  <2>6. /\ \A r, s \in Live : f[r] = f[s] => r = s
        /\ \A r \in Live : f[r] \notin lost_ids
        /\ \A r \in Live : f[r] \notin leaked
    BY <1>7, <1>f, <2>4 DEF Image
  <2>a. Apart(f, Live, finished, lost_ids) = Joined(f, Live, finished, lost_ids)
    <3>1. Differ(f, Live, finished) /\ Avoids(f, finished, lost_ids)
      BY <2>6 DEF Differ, Avoids
    <3> QED BY <3>1, ImagesApart
  <2>b. Apart(f, A, finished, leaked) = Joined(f, A, finished, leaked)
    <3>1. Differ(f, A, finished) /\ Avoids(f, finished, leaked)
      BY <2>6 DEF Differ, Avoids
    <3> HIDE DEF A
    <3> QED BY <3>1, ImagesApart
  <2>8. used_ids' = Image(f, D) \cup lost_ids
    BY <1>1, <2>2, <2>4, <2>a DEF Apart, Joined
  <2>9. DOMAIN sequences' = Image(f, A \ finished) \cup leaked
    BY <1>4, <2>2, <2>5, <2>b DEF Apart, Joined
  <2>10. Image(f, D) \cap lost_ids = {} /\ leaked \subseteq lost_ids
    BY <2>4, <2>6 DEF Image
  <2>11. DOMAIN sequences' \subseteq used_ids'
    BY <2>8, <2>9, <2>10 DEF Image
  <2>7. \A r, s \in Live' : entry'[r].internal_id = entry'[s].internal_id => r = s
    BY <1>3, <1>7
  <2> QED BY <1>12, <2>7, <2>8, <2>9, <2>10, <2>11 DEF SequencesAccounted
<1>14. ASSUME NEW r \in D
       PROVE  Held(r)' = IF ent[r].status = "alive" THEN seqs[ent[r].internal_id] ELSE <<>>
  <2>1. Held(r)' = IF ent[r].status = "alive" THEN sequences'[ent[r].internal_id] ELSE <<>>
    BY <1>3 DEF Held
  <2>2. CASE ent[r].status = "alive"
    <3>1. ent[r].internal_id \in DOMAIN seqs \ ids
      BY <1>7, <1>8, <2>2 DEF MidState
    <3> QED BY <1>4, <2>1, <2>2, <3>1
  <2> QED BY <2>1, <2>2
<1> QED BY <1>3, <1>9, <1>11, <1>13, <1>14 DEF Structure

LEMMA EntryType ==
  ASSUME NEW e \in Entry
  PROVE  /\ e.kind \in Kinds /\ e.inputs \in Seq(Data) /\ e.max_tokens \in Nat \cup {NoLimit}
         /\ e.status \in {"pending", "alive"} /\ e.internal_id \in Nat /\ e.left \in Seq(Data)
         /\ e.committed_tokens \in Seq(Nat) /\ e.next_callback_token_pos \in Nat
BY DEF Entry

LEMMA FinalUsageFacts ==
  ASSUME NEW r, NEW stopped, NEW exhausted
  PROVE  /\ r \in exhausted => FinalUsage(r, stopped, exhausted) = <<"length">>
         /\ r \in stopped \ exhausted => FinalUsage(r, stopped, exhausted) = <<"stop">>
         /\ r \notin stopped \cup exhausted => FinalUsage(r, stopped, exhausted) = <<>>
         /\ FinalUsage(r, stopped, exhausted) \in Seq(Reasons)
<1>1. CASE r \in exhausted
  <2>1. FinalUsage(r, stopped, exhausted) = <<"length">>
    BY <1>1, Zenon DEF FinalUsage
  <2>2. <<"length">> \in Seq(Reasons)
    BY DEF Reasons
  <2> QED BY <1>1, <2>1, <2>2
<1>2. CASE r \in stopped \ exhausted
  <2>1. FinalUsage(r, stopped, exhausted) = <<"stop">>
    BY <1>2, Zenon DEF FinalUsage
  <2>2. <<"stop">> \in Seq(Reasons)
    BY DEF Reasons
  <2> QED BY <1>2, <2>1, <2>2
<1>3. CASE r \notin stopped \cup exhausted
  <2>1. FinalUsage(r, stopped, exhausted) = <<>>
    BY <1>3, Zenon DEF FinalUsage
  <2>2. <<>> \in Seq(Reasons)
    OBVIOUS
  <2> QED BY <1>3, <2>1, <2>2
<1> QED BY <1>1, <1>2, <1>3

(* An entry after its tokens were handed to the stream.                    *)
CalledBack(e) == [e EXCEPT !.next_callback_token_pos = Len(e.committed_tokens)]

LEMMA CalledBackFacts ==
  ASSUME NEW e \in Entry
  PROVE  /\ CalledBack(e) \in Entry
         /\ CalledBack(e).next_callback_token_pos = Len(e.committed_tokens)
         /\ CalledBack(e).kind = e.kind /\ CalledBack(e).inputs = e.inputs
         /\ CalledBack(e).max_tokens = e.max_tokens /\ CalledBack(e).status = e.status
         /\ CalledBack(e).internal_id = e.internal_id /\ CalledBack(e).left = e.left
         /\ CalledBack(e).committed_tokens = e.committed_tokens
<1>1. Len(e.committed_tokens) \in Nat
  BY EntryType
<1> QED BY <1>1 DEF CalledBack, Entry

(* What the actions that sample tokens lead to.                            *)
HeldIn(ent, seqs, s) == IF ent[s].status = "alive" THEN seqs[ent[s].internal_id] ELSE <<>>
Outcome(sampled, entries, seqs) ==
  /\ submission' = submission /\ handed' = handed
  /\ \E finished \in SUBSET sampled :
       /\ Live' = Live \ finished
       /\ \A r \in Live' :
            /\ entry'[r] = IF r \in sampled THEN CalledBack(entries[r]) ELSE entries[r]
            /\ Held(r)' = HeldIn(entries, seqs, r)
       /\ \A r \in sampled \ finished : ~Exhausted(entries[r])
       /\ \A r \in finished :
            ended'[r] = ended[r] \o (IF Exhausted(entries[r]) THEN <<"length">> ELSE <<"stop">>)
       /\ \A r \in Request \ finished : ended'[r] = ended[r]
  /\ \A r \in Request :
       streamed'[r] = streamed[r] \o (IF r \in sampled THEN NewTokens(entries[r]) ELSE <<>>)

LEMMA PostProcessStructure ==
  ASSUME Structure, NEW sampled, NEW entries, NEW running, NEW seqs,
         MidState(entries, running, seqs), PostProcess(sampled, entries, running, seqs),
         sampled \subseteq Live,
         \A r \in sampled : /\ entries[r].status = "alive" /\ entries[r].kind # "prepare_receive"
                            /\ entries[r].left = <<>>
  PROVE  Structure' /\ Outcome(sampled, entries, seqs)
<1> DEFINE exhausted == {r \in sampled : Exhausted(entries[r])}
           ent == [r \in DOMAIN entries |->
                     IF r \in sampled
                     THEN [entries[r] EXCEPT
                             !.next_callback_token_pos = Len(entries[r].committed_tokens)]
                     ELSE entries[r]]
<1>1. PICK stopped \in SUBSET sampled :
        /\ Retire(stopped \cup exhausted, ent, running, seqs)
        /\ streamed' = [r \in Request |->
                         streamed[r] \o IF r \in sampled THEN NewTokens(entries[r]) ELSE <<>>]
        /\ ended' = [r \in Request |-> ended[r] \o FinalUsage(r, stopped, exhausted)]
        /\ UNCHANGED <<submission, handed, lost_ids, leaked>>
  BY Zenon DEF PostProcess
<1> DEFINE finished == stopped \cup exhausted
<1>2. \A r \in Live : entries[r] \in Entry
  BY DEF MidState
<1>3. DOMAIN entries = Live
  BY DEF MidState
<1>4. ASSUME NEW r \in Live
      PROVE  ent[r] = IF r \in sampled THEN CalledBack(entries[r]) ELSE entries[r]
  BY <1>3 DEF CalledBack
<1>5. ASSUME NEW r \in Live
      PROVE  /\ ent[r] \in Entry /\ ent[r].kind = entries[r].kind
             /\ ent[r].status = entries[r].status /\ ent[r].left = entries[r].left
             /\ ent[r].internal_id = entries[r].internal_id
  BY <1>2, <1>4, CalledBackFacts
<1>6. ent = [r \in Live |-> ent[r]]
  BY <1>3
<1> HIDE DEF ent
<1>7. MidState(ent, running, seqs)
  <2>1. ent \in [Live -> Entry]
    BY <1>5, <1>6
  <2>2. {r \in Live : ent[r].left # <<>>} = {r \in Live : entries[r].left # <<>>}
    BY <1>5
  <2>3. {r \in Live : ent[r].status = "alive" /\ ent[r].kind # "prepare_receive"}
          = {r \in Live : entries[r].status = "alive" /\ entries[r].kind # "prepare_receive"}
    BY <1>5
  <2>4. {x \in Live : ent[x].status = "alive"} = {x \in Live : entries[x].status = "alive"}
    BY <1>5
  <2> QED BY <1>5, <2>1, <2>2, <2>3, <2>4 DEF MidState
<1>8. finished \subseteq sampled
  OBVIOUS
<1>9. \A r \in finished : ent[r].status = "alive" /\ ent[r].kind # "prepare_receive"
                          /\ ent[r].left = <<>>
  BY <1>5, <1>8
<1>10. ASSUME NEW r \in Request
       PROVE  /\ streamed[r] \in Seq(Nat) /\ ended[r] \in Seq(Reasons)
              /\ ended[r] \o <<>> = ended[r]
  <2>1. streamed[r] \in Seq(Nat) /\ ended[r] \in Seq(Reasons)
    BY DEF Structure, TypeOK
  <2> QED BY <2>1
<1>11. streamed' \in [Request -> Seq(Nat)]
  <2>1. ASSUME NEW r \in Request
        PROVE  streamed[r] \o (IF r \in sampled THEN NewTokens(entries[r]) ELSE <<>>) \in Seq(Nat)
    <3>1. CASE r \in sampled
      <4>1. entries[r].committed_tokens \in Seq(Nat) /\ entries[r].next_callback_token_pos \in Nat
        BY <1>2, <3>1, EntryType
      <4>2. NewTokens(entries[r]) \in Seq(Nat)
        BY <4>1 DEF NewTokens
      <4> QED BY <1>10, <3>1, <4>2
    <3>2. CASE r \notin sampled
      <4>1. <<>> \in Seq(Nat)
        OBVIOUS
      <4> QED BY <1>10, <3>2, <4>1
    <3> QED BY <3>1, <3>2
  <2> QED BY <1>1, <2>1
<1>12. ended' \in [Request -> Seq(Reasons)]
  <2>1. ASSUME NEW r \in Request
        PROVE  ended[r] \o FinalUsage(r, stopped, exhausted) \in Seq(Reasons)
    <3>1. FinalUsage(r, stopped, exhausted) \in Seq(Reasons)
      BY FinalUsageFacts
    <3> HIDE DEF exhausted
    <3> QED BY <1>10, <3>1
  <2> QED BY <1>1, <2>1
<1>13. DOMAIN handed' \subseteq DOMAIN submission
  BY <1>1 DEF Structure, TypeOK
<1>14. /\ Structure' /\ Live' = Live \ finished
       /\ \A r \in Live' :
            /\ entry'[r] = ent[r]
            /\ Held(r)' = IF ent[r].status = "alive" THEN seqs[ent[r].internal_id] ELSE <<>>
  <2>1. finished \subseteq Live
    BY <1>8
  <2>2. Retire(finished, ent, running, seqs)
    BY <1>1
  <2> HIDE DEF finished, exhausted
  <2>3. Retired(finished, ent, running, seqs)
    BY <1>7, <2>2, RetireFacts
  <2> QED BY <1>1, <1>7, <1>9, <1>11, <1>12, <1>13, <2>1, <2>3, RetireStructure
<1>15. \A r \in Live' :
         /\ entry'[r] = IF r \in sampled THEN CalledBack(entries[r]) ELSE entries[r]
         /\ Held(r)' = IF entries[r].status = "alive" THEN seqs[entries[r].internal_id] ELSE <<>>
  <2> SUFFICES ASSUME NEW r \in Live'
               PROVE  /\ entry'[r] = IF r \in sampled THEN CalledBack(entries[r]) ELSE entries[r]
                      /\ Held(r)' = IF entries[r].status = "alive"
                                    THEN seqs[entries[r].internal_id] ELSE <<>>
    OBVIOUS
  <2>1. r \in Live
    BY <1>14
  <2>2. /\ entry'[r] = ent[r]
        /\ Held(r)' = IF ent[r].status = "alive" THEN seqs[ent[r].internal_id] ELSE <<>>
    BY <1>14
  <2>3. /\ ent[r] = IF r \in sampled THEN CalledBack(entries[r]) ELSE entries[r]
        /\ ent[r].status = entries[r].status /\ ent[r].internal_id = entries[r].internal_id
    BY <1>4, <1>5, <2>1
  <2> QED BY <2>2, <2>3
<1>16. \A r \in sampled \ finished : ~Exhausted(entries[r])
  OBVIOUS
<1>17. ASSUME NEW r \in Request PROVE ended'[r] = ended[r] \o FinalUsage(r, stopped, exhausted)
  BY <1>1
<1>18. \A r \in finished :
         ended'[r] = ended[r] \o (IF Exhausted(entries[r]) THEN <<"length">> ELSE <<"stop">>)
  <2> SUFFICES ASSUME NEW r \in finished
               PROVE  ended'[r] = ended[r] \o (IF Exhausted(entries[r]) THEN <<"length">> ELSE <<"stop">>)
    OBVIOUS
  <2>1. r \in Request
    <3>1. r \in Live
      BY <1>8
    <3> QED BY <3>1 DEF Structure, TypeOK
  <2>2. r \in sampled
    BY <1>8
  <2>3. CASE Exhausted(entries[r])
    <3>1. FinalUsage(r, stopped, exhausted) = <<"length">>
      BY <2>2, <2>3, FinalUsageFacts
    <3> QED BY <1>17, <2>1, <2>3, <3>1
  <2>4. CASE ~Exhausted(entries[r])
    <3>1. FinalUsage(r, stopped, exhausted) = <<"stop">>
      BY <2>4, FinalUsageFacts
    <3> QED BY <1>17, <2>1, <2>4, <3>1
  <2> QED BY <2>3, <2>4
<1>19. \A r \in Request \ finished : ended'[r] = ended[r]
  <2> SUFFICES ASSUME NEW r \in Request, r \notin finished PROVE ended'[r] = ended[r]
    OBVIOUS
  <2>1. FinalUsage(r, stopped, exhausted) = <<>>
    BY FinalUsageFacts
  <2> QED BY <1>10, <1>17, <2>1
<1>20. finished \in SUBSET sampled
  BY <1>8
<1> HIDE DEF finished, exhausted
<1>21. \A r \in Live' :
         /\ entry'[r] = IF r \in sampled THEN CalledBack(entries[r]) ELSE entries[r]
         /\ Held(r)' = HeldIn(entries, seqs, r)
  BY <1>15 DEF HeldIn
<1> QED BY <1>1, <1>14, <1>16, <1>18, <1>19, <1>20, <1>21 DEF Outcome

-----------------------------------------------------------------------------
(* The operations, one by one: each keeps the structure, and changes the   *)
(* entries and the K/V of the requests it is about.                        *)

LEMMA LiveFacts ==
  ASSUME Structure, NEW r \in Live
  PROVE  /\ r \in Request /\ r \in DOMAIN submission /\ submission[r] \in Offered[r]
         /\ entry[r] \in Entry
         /\ r \in Elements(waiting_queue) <=> entry[r].left # <<>>
         /\ r \in Elements(running_queue) <=>
              entry[r].status = "alive" /\ entry[r].kind # "prepare_receive"
         /\ entry[r].status = "pending" => entry[r].left # <<>>
         /\ entry[r].status = "alive" /\ entry[r].kind = "prepare_receive" => entry[r].left = <<>>
         /\ entry[r].status = "alive" => entry[r].internal_id \in DOMAIN sequences
         /\ Held(r) \in Seq(Nat)
         /\ streamed[r] \in Seq(Nat) /\ ended[r] \in Seq(Reasons)
<1>1. /\ r \in Request /\ r \in DOMAIN submission /\ submission[r] \in Offered[r]
      /\ entry[r] \in Entry /\ streamed[r] \in Seq(Nat) /\ ended[r] \in Seq(Reasons)
  BY DEF Structure, TypeOK
<1>2. /\ r \in Elements(waiting_queue) <=> entry[r].left # <<>>
      /\ r \in Elements(running_queue) <=>
           entry[r].status = "alive" /\ entry[r].kind # "prepare_receive"
      /\ Parked(r) <=> entry[r].status = "alive" /\ entry[r].kind = "prepare_receive"
  BY DEF Structure, PlaceAgrees, Alive
<1>3. /\ entry[r].status = "pending" => entry[r].left # <<>>
      /\ entry[r].status = "alive" /\ entry[r].kind = "prepare_receive" => entry[r].left = <<>>
  BY <1>2 DEF Parked
<1>4. entry[r].status = "alive" => entry[r].internal_id \in DOMAIN sequences
  BY DEF Structure, SequencesAccounted, IdsIn, Alive
<1>5. Held(r) \in Seq(Nat)
  <2>1. CASE entry[r].status = "alive"
    BY <1>4, <2>1 DEF Structure, TypeOK, Held
  <2>2. CASE entry[r].status # "alive"
    <3>1. <<>> \in Seq(Nat)
      OBVIOUS
    <3> QED BY <2>2, <3>1 DEF Held
  <2> QED BY <2>1, <2>2
<1> QED BY <1>1, <1>2, <1>3, <1>4, <1>5

Untouched(S) == \A s \in S : entry'[s] = entry[s] /\ Held(s)' = Held(s)

(* One entry, alive from now on, changes with its sequence.                *)
Moved(q, r, in) == IF in THEN Elements(q) \cup {r} ELSE Elements(q) \ {r}
OneChanged(r, e, running, seqs) ==
  /\ e \in Entry /\ e.internal_id = entry[r].internal_id /\ e.status = "alive"
  /\ e.kind = "prepare_receive" => e.left = <<>>
  /\ waiting_queue' \in Seq(Live) /\ NoRepeats(waiting_queue')
  /\ Elements(waiting_queue') = Moved(waiting_queue, r, e.left # <<>>)
  /\ running \in Seq(Live) /\ NoRepeats(running)
  /\ Elements(running) = Moved(running_queue, r, e.kind # "prepare_receive")
  /\ seqs \in [DOMAIN seqs -> Seq(Nat)]
  /\ DOMAIN seqs = DOMAIN sequences \cup {e.internal_id}
  /\ \A x \in DOMAIN sequences : x # e.internal_id => seqs[x] = sequences[x]

OnlyAt(r, e, ent) == ent = [entry EXCEPT ![r] = e]

LEMMA OneChangedFacts ==
  ASSUME Structure, NEW r \in Live, NEW e, NEW running, NEW seqs,
         OneChanged(r, e, running, seqs), NEW ent, OnlyAt(r, e, ent)
  PROVE  /\ MidState(ent, running, seqs)
         /\ \A s \in Live \ {r} : HeldIn(ent, seqs, s) = Held(s)
<1>1. entry \in [Live -> Entry] /\ e \in Entry
  BY DEF Structure, TypeOK, OneChanged
<1>2. /\ ent \in [Live -> Entry] /\ ent[r] = e /\ \A s \in Live \ {r} : ent[s] = entry[s]
  BY <1>1 DEF OnlyAt
<1>3. \A s \in Live : ent[s].internal_id = entry[s].internal_id
  BY <1>2 DEF OneChanged
<1>4. Elements(waiting_queue') = {s \in Live : ent[s].left # <<>>}
  <2>1. Elements(waiting_queue) = {s \in Live : entry[s].left # <<>>}
    BY DEF Structure, PlaceAgrees
  <2> QED BY <1>2, <2>1 DEF OneChanged, Moved
<1>5. Elements(running) = {s \in Live : ent[s].status = "alive" /\ ent[s].kind # "prepare_receive"}
  <2>1. Elements(running_queue)
          = {s \in Live : entry[s].status = "alive" /\ entry[s].kind # "prepare_receive"}
    BY DEF Structure, PlaceAgrees, Alive
  <2> QED BY <1>2, <2>1 DEF OneChanged, Moved
<1>6. ASSUME NEW s \in Live
      PROVE  /\ ent[s].status = "pending" => ent[s].left # <<>>
             /\ ent[s].status = "alive" /\ ent[s].kind = "prepare_receive" => ent[s].left = <<>>
  BY <1>2, LiveFacts DEF OneChanged
<1>7. DOMAIN seqs = {entry[x].internal_id : x \in {x \in Live : ent[x].status = "alive"}} \cup leaked
  <2> DEFINE A == {x \in Live : ent[x].status = "alive"}
  <2>1. A = Alive \cup {r}
    BY <1>2 DEF Alive, OneChanged
  <2>2. DOMAIN sequences = {entry[x].internal_id : x \in Alive} \cup leaked
    BY DEF Structure, SequencesAccounted, IdsIn
  <2>3. {entry[x].internal_id : x \in A}
          = {entry[x].internal_id : x \in Alive} \cup {entry[r].internal_id}
    BY <2>1
  <2> QED BY <2>2, <2>3 DEF OneChanged
<1>8. MidState(ent, running, seqs)
  BY <1>2, <1>3, <1>4, <1>5, <1>6, <1>7 DEF MidState, OneChanged
<1>9. ASSUME NEW s \in Live \ {r}
      PROVE  HeldIn(ent, seqs, s) = Held(s)
  <2>1. ent[s] = entry[s]
    BY <1>2
  <2>2. CASE entry[s].status = "alive"
    <3>1. entry[s].internal_id \in DOMAIN sequences
      BY <2>2, LiveFacts
    <3>2. entry[s].internal_id # e.internal_id
      BY DEF Structure, SequencesAccounted, OneChanged
    <3>3. seqs[entry[s].internal_id] = sequences[entry[s].internal_id]
      BY <3>1, <3>2 DEF OneChanged
    <3> QED BY <2>1, <2>2, <3>3 DEF Held, HeldIn
  <2>3. CASE entry[s].status # "alive"
    BY <2>1, <2>3 DEF Held, HeldIn
  <2> QED BY <2>2, <2>3
<1> QED BY <1>2, <1>8, <1>9

LEMMA OneChangedStructure ==
  ASSUME Structure, NEW r \in Live, NEW e, NEW running, NEW seqs,
         OneChanged(r, e, running, seqs), running_queue' = running, sequences' = seqs,
         entry' = [entry EXCEPT ![r] = e], used_ids' = used_ids,
         UNCHANGED <<submission, streamed, ended, handed, lost_ids, leaked>>
  PROVE  /\ Structure' /\ Live' = Live
         /\ entry'[r] = e /\ Held(r)' = seqs[e.internal_id]
         /\ Untouched(Live \ {r})
<1> DEFINE ent == [entry EXCEPT ![r] = e]
<1>2. entry' = ent
  OBVIOUS
<1> HIDE DEF ent
<1>1. MidState(ent, running, seqs) /\ \A s \in Live \ {r} : HeldIn(ent, seqs, s) = Held(s)
  <2>1. OnlyAt(r, e, ent)
    BY <1>2 DEF OnlyAt
  <2> QED BY <2>1, OneChangedFacts
<1>d. ent[r] = e /\ \A s \in Live \ {r} : ent[s] = entry[s]
  BY <1>2 DEF Structure, TypeOK
<1>3. Retired({}, ent, running, seqs)
  BY <1>1, <1>2, NothingRetired
<1>4. /\ streamed' \in [Request -> Seq(Nat)] /\ ended' \in [Request -> Seq(Reasons)]
      /\ DOMAIN handed' \subseteq DOMAIN submission
  BY DEF Structure, TypeOK
<1> DEFINE none == {}
<1>f. /\ none \subseteq Live
      /\ \A s \in none : /\ ent[s].status = "alive" /\ ent[s].kind # "prepare_receive"
                       /\ ent[s].left = <<>>
      /\ Live \ none = Live
  OBVIOUS
<1>n. Retired(none, ent, running, seqs)
  BY <1>3
<1> HIDE DEF none
<1>5. /\ Structure' /\ Live' = Live \ none
      /\ \A s \in Live' :
           /\ entry'[s] = ent[s]
           /\ Held(s)' = IF ent[s].status = "alive" THEN seqs[ent[s].internal_id] ELSE <<>>
  BY <1>1, <1>4, <1>f, <1>n, RetireStructure
<1>6. e.status = "alive"
  BY DEF OneChanged
<1>7. Live' = Live
  BY <1>5, <1>f
<1>8. Untouched(Live \ {r})
  BY <1>1, <1>5, <1>7, <1>d DEF Untouched, HeldIn
<1> QED BY <1>1, <1>5, <1>6, <1>7, <1>8, <1>d

(* kStartGeneration.                                                       *)
LEMMA StartGenerationStructure ==
  ASSUME Structure, NEW r \in Request, StartGeneration(r)
  PROVE  /\ Structure' /\ Live' = Live /\ r \in Live /\ Untouched(Live \ {r})
         /\ Held(r)' = Held(r)
         /\ entry[r].kind = "prepare_receive" /\ entry[r].status = "alive" /\ entry[r].left = <<>>
         /\ UNCHANGED <<submission, streamed, ended, handed>>
         /\ LET e     == entry[r]
                begin == Wrapped(submission[r].end, LengthOf(e.inputs))
                split == SplitData(e.inputs, begin) IN
            /\ begin \in 0..(LengthOf(e.inputs) - 1)
            /\ \/ /\ LengthOf(e.inputs) - begin = 1 /\ Len(split.rhs) = 1
                  /\ entry'[r] = [WithLastToken(e, split) EXCEPT !.kind = "none"]
               \/ /\ LengthOf(e.inputs) - begin > 1
                  /\ entry'[r] = [e EXCEPT !.left = split.rhs, !.kind = "none"]
<1> DEFINE e     == entry[r]
           begin == Wrapped(submission[r].end, LengthOf(e.inputs))
           split == SplitData(e.inputs, begin)
           fst   == [WithLastToken(e, split) EXCEPT !.kind = "none"]
           snd   == [e EXCEPT !.left = split.rhs, !.kind = "none"]
<1>1. /\ r \in Live /\ e.kind = "prepare_receive" /\ Parked(r)
      /\ begin \in 0..(LengthOf(e.inputs) - 1)
      /\ running_queue' = Append(running_queue, r)
      /\ UNCHANGED <<used_ids, sequences, submission, streamed, ended, handed, lost_ids, leaked>>
  BY Zenon DEF StartGeneration
<1>2. \/ /\ LengthOf(e.inputs) - begin = 1 /\ Len(split.rhs) = 1
         /\ entry' = [entry EXCEPT ![r] = fst] /\ waiting_queue' = waiting_queue
      \/ /\ LengthOf(e.inputs) - begin > 1
         /\ entry' = [entry EXCEPT ![r].left = split.rhs, ![r].kind = "none"]
         /\ waiting_queue' = <<r>> \o waiting_queue
  BY Zenon DEF StartGeneration
<1>3. /\ e \in Entry /\ e.status = "alive" /\ e.left = <<>>
      /\ r \notin Elements(waiting_queue) /\ r \notin Elements(running_queue)
      /\ e.internal_id \in DOMAIN sequences
  <2>1. e.status \in {"pending", "alive"} /\ e \in Entry
    BY <1>1, LiveFacts, EntryType
  <2> QED BY <1>1, <2>1, LiveFacts DEF Parked
<1>4. /\ split.lhs \in Seq(Data) /\ split.rhs \in Seq(Data)
      /\ LengthOf(split.rhs) = LengthOf(e.inputs) - begin
  <2>1. e.inputs \in Seq(Data)
    BY <1>3, EntryType
  <2>2. LengthOf(e.inputs) \in Nat
    BY <2>1, IdsType
  <2>3. begin \in 0..LengthOf(e.inputs)
    <3> HIDE DEF begin
    <3> QED BY <1>1, <2>2
  <2> HIDE DEF begin
  <2> QED BY <2>1, <2>3, SplitFacts
<1>5. /\ waiting_queue \in Seq(Live) /\ NoRepeats(waiting_queue)
      /\ running_queue \in Seq(Live) /\ NoRepeats(running_queue)
      /\ sequences \in [DOMAIN sequences -> Seq(Nat)] /\ entry \in [Live -> Entry]
  BY DEF Structure, TypeOK, PlaceAgrees
<1>6. /\ running_queue' \in Seq(Live) /\ NoRepeats(running_queue')
      /\ Elements(running_queue') = Elements(running_queue) \cup {r}
  BY <1>1, <1>3, <1>5, QueueAppend
<1>7. sequences' = sequences
  BY <1>1
<1>h. Held(r) = sequences[e.internal_id]
  BY <1>3 DEF Held
<1> HIDE DEF begin
<1>8. CASE LengthOf(e.inputs) - begin = 1 /\ Len(split.rhs) = 1 /\ entry' = [entry EXCEPT ![r] = fst]
           /\ waiting_queue' = waiting_queue
  <2>1. /\ fst \in Entry /\ fst.internal_id = e.internal_id /\ fst.status = "alive"
        /\ fst.kind = "none" /\ fst.left = <<>>
    <3>1. IdsOf(split.rhs) \in Seq(Nat)
      BY <1>4, IdsType
    <3>2. (IF e.max_tokens = NoLimit THEN e.max_tokens ELSE e.max_tokens + 1) \in Nat \cup {NoLimit}
      BY <1>3, EntryType DEF NoLimit
    <3> HIDE DEF split
    <3> QED BY <1>3, <1>4, <3>1, <3>2 DEF WithLastToken, Entry, Kinds
  <2> HIDE DEF fst, split
  <2>2. OneChanged(r, fst, running_queue', sequences')
    BY <1>3, <1>5, <1>6, <1>7, <1>8, <2>1 DEF OneChanged, Moved
  <2>3. /\ Structure' /\ Live' = Live /\ entry'[r] = fst
        /\ Held(r)' = sequences'[fst.internal_id] /\ Untouched(Live \ {r})
    BY <1>1, <1>8, <2>2, OneChangedStructure
  <2> QED BY <1>1, <1>3, <1>7, <1>8, <1>h, <2>1, <2>3 DEF begin, split, fst
<1>9. CASE LengthOf(e.inputs) - begin > 1
           /\ entry' = [entry EXCEPT ![r].left = split.rhs, ![r].kind = "none"]
           /\ waiting_queue' = <<r>> \o waiting_queue
  <2> HIDE DEF split
  <2>1. entry' = [entry EXCEPT ![r] = snd]
    BY <1>1, <1>5, <1>9
  <2>2. split.rhs # <<>>
    <3>1. LengthOf(split.rhs) # 0
      BY <1>4, <1>9
    <3> QED BY <3>1, IdsEmpty
  <2>3. /\ snd \in Entry /\ snd.internal_id = e.internal_id /\ snd.status = "alive"
        /\ snd.kind = "none" /\ snd.left # <<>>
    BY <1>3, <1>4, <2>2 DEF Entry, Kinds
  <2>4. /\ waiting_queue' \in Seq(Live) /\ NoRepeats(waiting_queue')
        /\ Elements(waiting_queue') = Elements(waiting_queue) \cup {r}
    <3> DEFINE one == <<r>>
    <3>1. one \in Seq(Live) /\ Elements(one) = {r} /\ NoRepeats(one)
      BY <1>1 DEF Elements, NoRepeats
    <3>2. Elements(one) \cap Elements(waiting_queue) = {}
      BY <1>3, <3>1
    <3>3. waiting_queue' = one \o waiting_queue
      BY <1>9
    <3> HIDE DEF one
    <3>4. /\ one \o waiting_queue \in Seq(Live) /\ NoRepeats(one \o waiting_queue)
          /\ Elements(one \o waiting_queue) = Elements(one) \cup Elements(waiting_queue)
      BY <1>5, <3>1, <3>2, QueueConcat
    <3> QED BY <3>1, <3>3, <3>4
  <2> HIDE DEF snd
  <2>5. OneChanged(r, snd, running_queue', sequences')
    BY <1>3, <1>5, <1>6, <1>7, <2>3, <2>4 DEF OneChanged, Moved
  <2>6. /\ Structure' /\ Live' = Live /\ entry'[r] = snd
        /\ Held(r)' = sequences'[snd.internal_id] /\ Untouched(Live \ {r})
    BY <1>1, <2>1, <2>5, OneChangedStructure
  <2> QED BY <1>1, <1>3, <1>7, <1>9, <1>h, <2>3, <2>6 DEF begin, split, snd
<1> QED BY <1>2, <1>8, <1>9

(* The inputs of a request that awaits its K/V are those submitted.        *)
LEMMA AwaitedFacts ==
  ASSUME Structure, LiveKept, NEW r \in Live, entry[r].kind = "prepare_receive"
  PROVE  /\ LengthOf(entry[r].inputs) = LengthOf(submission[r].inputs)
         /\ Wrapped(submission[r].end, LengthOf(entry[r].inputs)) = Window(submission[r])
         /\ Window(submission[r]) \in 0..(LengthOf(entry[r].inputs) - 1)
<1> DEFINE e == entry[r]
           q == submission[r]
<1>1. Kept(q, e, Held(r), Len(streamed[r]))
  BY DEF LiveKept
<1>2. e.kind = q.kind /\ e.committed_tokens = <<>> /\ Len(streamed[r]) = 0
  BY <1>1 DEF Kept, KeepsCount
<1>3. LengthOf(e.inputs) + 0 = LengthOf(q.inputs)
  BY <1>1, <1>2 DEF Kept, KeepsBudget
<1>4. LengthOf(e.inputs) \in Nat
  BY LiveFacts, EntryType, IdsType
<1>5. LengthOf(e.inputs) = LengthOf(q.inputs)
  BY <1>3, <1>4
<1>6. q \in Offered[r] /\ r \in Request
  BY LiveFacts
<1>7. Window(q) \in 0..(LengthOf(q.inputs) - 1)
  BY <1>2, <1>6, OfferedAssumption DEF Window
<1> QED BY <1>5, <1>7 DEF Window

(* DisaggPrepareReceive.                                                   *)
LEMMA PrepareReceiveStructure ==
  ASSUME Structure, LiveKept, NEW r \in Live, PrepareReceive(r)
  PROVE  /\ Structure' /\ Live' = Live /\ Untouched(Live \ {r})
         /\ entry[r].kind = "prepare_receive" /\ entry[r].status = "pending"
         /\ entry'[r] = [entry[r] EXCEPT !.status = "alive", !.left = <<>>]
         /\ Held(r)' = SubSeq(IdsOf(entry[r].inputs), 1,
                              Wrapped(submission[r].end, LengthOf(entry[r].inputs)))
         /\ UNCHANGED <<submission, streamed, ended, handed>>
<1> DEFINE e   == entry[r]
           end == Wrapped(submission[r].end, LengthOf(e.inputs))
           new == [e EXCEPT !.status = "alive", !.left = <<>>]
           seq == SubSeq(IdsOf(e.inputs), 1, end)
<1>1. /\ r \in FirstWaiting("prepare_receive")
      /\ entry' = [entry EXCEPT ![r].status = "alive", ![r].left = <<>>]
      /\ sequences' = Put(sequences, e.internal_id, seq)
      /\ waiting_queue' = Without(waiting_queue, {r})
      /\ UNCHANGED <<running_queue, used_ids, submission, streamed, ended, handed, lost_ids, leaked>>
  BY Zenon DEF PrepareReceive
<1>2. e.kind = "prepare_receive" /\ r \in Elements(waiting_queue)
  BY <1>1, FirstWaitingFacts DEF Structure
<1>3. e \in Entry /\ e.status = "pending" /\ r \notin Elements(running_queue)
  <2>1. e.status \in {"pending", "alive"} /\ e \in Entry
    BY LiveFacts, EntryType
  <2> QED BY <1>2, <2>1, LiveFacts
<1>4. /\ waiting_queue \in Seq(Live) /\ NoRepeats(waiting_queue)
      /\ running_queue \in Seq(Live) /\ NoRepeats(running_queue)
      /\ sequences \in [DOMAIN sequences -> Seq(Nat)] /\ entry \in [Live -> Entry]
  BY DEF Structure, TypeOK, PlaceAgrees
<1>5. /\ waiting_queue' \in Seq(Live) /\ NoRepeats(waiting_queue')
      /\ Elements(waiting_queue') = Elements(waiting_queue) \ {r}
  BY <1>1, <1>4, WithoutProperties
<1>6. seq \in Seq(Nat)
  <2>1. IdsOf(e.inputs) \in Seq(Nat) /\ LengthOf(e.inputs) \in Nat
    BY <1>3, EntryType, IdsType
  <2>2. end \in 0..(LengthOf(e.inputs) - 1)
    BY <1>2, AwaitedFacts
  <2>3. Len(IdsOf(e.inputs)) = LengthOf(e.inputs)
    BY <1>3, EntryType, IdsType
  <2>4. \A s \in Seq(Nat), n \in Nat : n <= Len(s) => SubSeq(s, 1, n) \in Seq(Nat)
    OBVIOUS
  <2> HIDE DEF end
  <2> QED BY <2>1, <2>2, <2>3, <2>4
<1> HIDE DEF seq
<1>7. /\ DOMAIN sequences' = DOMAIN sequences \cup {e.internal_id}
      /\ sequences'[e.internal_id] = seq
      /\ \A x \in DOMAIN sequences : x # e.internal_id => sequences'[x] = sequences[x]
      /\ sequences' = [x \in DOMAIN sequences \cup {e.internal_id} |-> sequences'[x]]
  BY <1>1 DEF Put
<1>8. sequences' \in [DOMAIN sequences' -> Seq(Nat)]
  BY <1>4, <1>6, <1>7
<1>9. /\ new \in Entry /\ new.internal_id = e.internal_id /\ new.status = "alive"
      /\ new.kind = "prepare_receive" /\ new.left = <<>>
  <2>1. <<>> \in Seq(Data)
    OBVIOUS
  <2> QED BY <1>2, <1>3, <2>1 DEF Entry
<1>10. entry' = [entry EXCEPT ![r] = new]
  BY <1>1, <1>4
<1> HIDE DEF new
<1>11. OneChanged(r, new, running_queue', sequences')
  <2>1. running_queue' = running_queue
    BY <1>1
  <2> QED BY <1>3, <1>4, <1>5, <1>7, <1>8, <1>9, <2>1 DEF OneChanged, Moved
<1>12. /\ Structure' /\ Live' = Live /\ entry'[r] = new
       /\ Held(r)' = sequences'[new.internal_id] /\ Untouched(Live \ {r})
  <2>1. UNCHANGED <<used_ids, submission, streamed, ended, handed, lost_ids, leaked>>
    BY <1>1
  <2> QED BY <1>10, <1>11, <2>1, OneChangedStructure
<1> QED BY <1>1, <1>2, <1>3, <1>7, <1>9, <1>12 DEF new, seq

(* A request is aborted while it runs: as if it were retired.              *)
LEMMA RunningAbort ==
  ASSUME Structure, NEW r \in Live, NEW reason \in Reasons, Abort(r, reason),
         r \in Elements(running_queue)
  PROVE  Structure' /\ Live' = Live \ {r} /\ Untouched(Live \ {r})
<1>0. PICK running, seqs, e, ent :
        /\ running = running_queue /\ seqs = sequences
        /\ e = [entry[r] EXCEPT !.left = <<>>] /\ ent = [entry EXCEPT ![r] = e]
  OBVIOUS
<1> DEFINE one == {r}
           ids == {ent[s].internal_id : s \in one}
<1>1. /\ entry' = Restrict(entry, Live \ {r})
      /\ waiting_queue' = Without(waiting_queue, {r})
      /\ running_queue' = Without(running_queue, {r})
      /\ used_ids' = used_ids \ {entry[r].internal_id}
      /\ sequences' = Restrict(sequences, DOMAIN sequences \ {entry[r].internal_id})
      /\ ended' = [ended EXCEPT ![r] = Append(@, reason)]
      /\ lost_ids' = lost_ids /\ leaked' = leaked
      /\ UNCHANGED <<submission, streamed, handed>>
  BY DEF Abort, RecycledByAbort, Parked
<1>2. /\ waiting_queue \in Seq(Live) /\ NoRepeats(waiting_queue)
      /\ running_queue \in Seq(Live) /\ NoRepeats(running_queue)
      /\ sequences \in [DOMAIN sequences -> Seq(Nat)] /\ entry \in [Live -> Entry]
      /\ streamed \in [Request -> Seq(Nat)] /\ ended \in [Request -> Seq(Reasons)]
      /\ DOMAIN handed \subseteq DOMAIN submission
  BY DEF Structure, TypeOK, PlaceAgrees
<1>3. /\ waiting_queue' \in Seq(Live) /\ NoRepeats(waiting_queue')
      /\ Elements(waiting_queue') = Elements(waiting_queue) \ {r}
      /\ running_queue' \in Seq(Live) /\ NoRepeats(running_queue')
      /\ Elements(running_queue') = Elements(running_queue) \ {r}
  <2>1. /\ waiting_queue' \in Seq(Live) /\ NoRepeats(waiting_queue')
        /\ Elements(waiting_queue') = Elements(waiting_queue) \ {r}
    BY <1>1, <1>2, WithoutProperties
  <2>2. /\ running_queue' \in Seq(Live) /\ NoRepeats(running_queue')
        /\ Elements(running_queue') = Elements(running_queue) \ {r}
    BY <1>1, <1>2, WithoutProperties
  <2> QED BY <2>1, <2>2
<1>4. /\ entry[r] \in Entry /\ entry[r].status = "alive" /\ entry[r].kind # "prepare_receive"
      /\ entry[r].internal_id \in DOMAIN sequences /\ r \in Request
  BY LiveFacts
<1>5. /\ e \in Entry /\ e.internal_id = entry[r].internal_id /\ e.status = "alive"
      /\ e.kind # "prepare_receive" /\ e.left = <<>>
  <2>1. <<>> \in Seq(Data)
    OBVIOUS
  <2> QED BY <1>0, <1>4, <2>1 DEF Entry
<1>6. /\ DOMAIN ent = Live /\ \A s \in Live \ {r} : ent[s] = entry[s]
      /\ ent[r] = e
  BY <1>0, <1>2
<1>7. OneChanged(r, e, running, seqs)
  BY <1>0, <1>2, <1>3, <1>4, <1>5 DEF OneChanged, Moved
<1>8. OnlyAt(r, e, ent)
  BY <1>0 DEF OnlyAt
<1>9. MidState(ent, running, seqs) /\ \A s \in Live \ {r} : HeldIn(ent, seqs, s) = Held(s)
  BY <1>7, <1>8, OneChangedFacts
<1>10. ids = {entry[r].internal_id}
  BY <1>5, <1>6
<1> HIDE DEF ids
<1>11. entry' = Restrict(ent, DOMAIN ent \ one)
  BY <1>1, <1>6 DEF Restrict
<1>12. Retired(one, ent, running, seqs)
  <2>1. sequences' = Restrict(seqs, DOMAIN seqs \ ids) /\ used_ids' = used_ids \ ids
    BY <1>0, <1>1, <1>10
  <2> QED BY <1>0, <1>3, <1>11, <2>1 DEF Retired, ids
<1>13. /\ one \subseteq Live
       /\ \A s \in one : /\ ent[s].status = "alive" /\ ent[s].kind # "prepare_receive"
                         /\ ent[s].left = <<>>
       /\ Live \ one = Live \ {r}
  BY <1>5, <1>6
<1>14. /\ streamed' \in [Request -> Seq(Nat)] /\ ended' \in [Request -> Seq(Reasons)]
       /\ DOMAIN handed' \subseteq DOMAIN submission
  <2>1. Append(ended[r], reason) \in Seq(Reasons)
    BY <1>2, <1>4
  <2> QED BY <1>1, <1>2, <2>1
<1> HIDE DEF one
<1>15. /\ Structure' /\ Live' = Live \ one
       /\ \A s \in Live' :
            /\ entry'[s] = ent[s]
            /\ Held(s)' = IF ent[s].status = "alive" THEN seqs[ent[s].internal_id] ELSE <<>>
  <2>1. UNCHANGED <<submission, lost_ids, leaked>>
    BY <1>1
  <2> QED BY <1>9, <1>12, <1>13, <1>14, <2>1, RetireStructure
<1>16. Untouched(Live \ {r})
  BY <1>6, <1>9, <1>13, <1>15 DEF Untouched, HeldIn
<1> QED BY <1>13, <1>15, <1>16

(* A request is aborted while it waits for its prefill or its K/V: its id  *)
(* is lost, and its sequence, if it has one, is leaked.                    *)
LEMMA OtherAbort ==
  ASSUME Structure, NEW r \in Live, NEW reason \in Reasons, Abort(r, reason),
         r \notin Elements(running_queue)
  PROVE  Structure' /\ Live' = Live \ {r} /\ Untouched(Live \ {r})
<1> DEFINE D  == Live \ {r}
           id == entry[r].internal_id
<1>1. /\ entry' = Restrict(entry, D)
      /\ waiting_queue' = Without(waiting_queue, {r})
      /\ running_queue' = Without(running_queue, {r})
      /\ used_ids' = used_ids \ {}
      /\ sequences' = Restrict(sequences, DOMAIN sequences \ {})
      /\ ended' = [ended EXCEPT ![r] = Append(@, reason)]
      /\ lost_ids' = lost_ids \cup {id}
      /\ leaked' = IF Parked(r) THEN leaked \cup {id} ELSE leaked
      /\ UNCHANGED <<submission, streamed, handed>>
  BY DEF Abort, RecycledByAbort
<1>2. /\ waiting_queue \in Seq(Live) /\ NoRepeats(waiting_queue)
      /\ running_queue \in Seq(Live) /\ NoRepeats(running_queue)
      /\ sequences \in [DOMAIN sequences -> Seq(Nat)] /\ entry \in [Live -> Entry]
      /\ streamed \in [Request -> Seq(Nat)] /\ ended \in [Request -> Seq(Reasons)]
  BY DEF Structure, TypeOK, PlaceAgrees
<1>3. sequences' = sequences /\ used_ids' = used_ids
  BY <1>1, <1>2 DEF Restrict
<1>4. /\ waiting_queue' \in Seq(Live) /\ NoRepeats(waiting_queue')
      /\ Elements(waiting_queue') = Elements(waiting_queue) \ {r}
  BY <1>1, <1>2, WithoutProperties
<1>5. /\ running_queue' \in Seq(Live) /\ NoRepeats(running_queue')
      /\ Elements(running_queue') = Elements(running_queue)
  <2>1. /\ running_queue' \in Seq(Live) /\ NoRepeats(running_queue')
        /\ Elements(running_queue') = Elements(running_queue) \ {r}
    BY <1>1, <1>2, WithoutProperties
  <2> QED BY <2>1
<1>6. Live' = D /\ entry' \in [D -> Entry] /\ \A s \in D : entry'[s] = entry[s]
  BY <1>1, <1>2 DEF Restrict, Live
<1>7. waiting_queue' \in Seq(D) /\ running_queue' \in Seq(D)
  <2>1. Elements(waiting_queue') \subseteq D
    BY <1>2, <1>4, QueueType
  <2>2. Elements(running_queue') \subseteq D
    BY <1>2, <1>5, QueueType
  <2> QED BY <1>4, <1>5, <2>1, <2>2, Retype
<1>8. TypeOK'
  <2>1. ended' \in [Request -> Seq(Reasons)]
    <3>1. Append(ended[r], reason) \in Seq(Reasons)
      BY <1>2, LiveFacts
    <3> QED BY <1>1, <1>2, <3>1
  <2>2. /\ DOMAIN submission' \subseteq Request
        /\ \A s \in DOMAIN submission' : submission'[s] \in Offered[s]
        /\ D \subseteq DOMAIN submission' /\ DOMAIN handed' \subseteq DOMAIN submission'
    BY <1>1 DEF Structure, TypeOK
  <2>3. /\ used_ids' \subseteq Nat /\ IsFiniteSet(used_ids')
        /\ sequences' \in [DOMAIN sequences' -> Seq(Nat)] /\ streamed' \in [Request -> Seq(Nat)]
    BY <1>1, <1>3 DEF Structure, TypeOK
  <2> QED BY <1>6, <1>7, <2>1, <2>2, <2>3 DEF TypeOK
<1>9. Alive' = Alive \ {r}
  BY <1>6 DEF Alive
<1>10. PlaceAgrees'
  <2>1. /\ Elements(waiting_queue) = {s \in Live : entry[s].left # <<>>}
        /\ Elements(running_queue) = {s \in Alive : entry[s].kind # "prepare_receive"}
        /\ \A s \in Live : Parked(s) <=> s \in Alive /\ entry[s].kind = "prepare_receive"
    BY DEF Structure, PlaceAgrees
  <2>2. Elements(waiting_queue') = {s \in D : entry'[s].left # <<>>}
    BY <1>4, <1>6, <2>1
  <2>3. Elements(running_queue') = {s \in Alive \ {r} : entry'[s].kind # "prepare_receive"}
    BY <1>5, <1>6, <2>1 DEF Alive
  <2>4. ASSUME NEW s \in D
        PROVE  Parked(s)' <=> s \in Alive \ {r} /\ entry'[s].kind = "prepare_receive"
    BY <1>4, <1>5, <1>6, <2>1 DEF Parked
  <2> QED BY <1>4, <1>5, <1>6, <1>9, <2>2, <2>3, <2>4 DEF PlaceAgrees
<1>11. SequencesAccounted'
  <2>1. /\ \A s, t \in Live : entry[s].internal_id = entry[t].internal_id => s = t
        /\ DOMAIN sequences \subseteq used_ids
        /\ DOMAIN sequences = IdsIn(Alive) \cup leaked
        /\ used_ids = IdsIn(Live) \cup lost_ids
        /\ IdsIn(Live) \cap lost_ids = {} /\ leaked \subseteq lost_ids
    BY DEF Structure, SequencesAccounted
  <2>2. ASSUME NEW S, S \subseteq D
        PROVE  {entry'[s].internal_id : s \in S} = IdsIn(S)
    <3>1. \A s \in S : entry'[s].internal_id = entry[s].internal_id
      BY <1>6, <2>2
    <3> QED BY <3>1, Zenon DEF IdsIn
  <2>3. IdsIn(D) \cup {id} = IdsIn(Live) /\ id \notin IdsIn(D) /\ id \notin lost_ids
    BY <2>1 DEF IdsIn
  <2>5. DOMAIN sequences = IdsIn(Alive \ {r}) \cup leaked'
    <3>1. CASE Parked(r)
      <4>1. r \in Alive
        BY <3>1 DEF Structure, PlaceAgrees
      <4>2. IdsIn(Alive) = IdsIn(Alive \ {r}) \cup {id}
        BY <4>1 DEF IdsIn
      <4> QED BY <1>1, <2>1, <3>1, <4>2
    <3>2. CASE ~Parked(r)
      <4>1. r \notin Alive
        BY <3>2 DEF Structure, PlaceAgrees
      <4> QED BY <1>1, <2>1, <3>2, <4>1
    <3> QED BY <3>1, <3>2
  <2>6. used_ids = IdsIn(D) \cup lost_ids' /\ IdsIn(D) \cap lost_ids' = {}
    BY <1>1, <2>1, <2>3
  <2>7. leaked' \subseteq lost_ids'
    BY <1>1, <2>1
  <2>8. IdsIn(Live)' = IdsIn(D) /\ IdsIn(Alive)' = IdsIn(Alive \ {r})
    <3>1. {entry'[s].internal_id : s \in D} = IdsIn(D)
      BY <2>2
    <3>2. {entry'[s].internal_id : s \in Alive \ {r}} = IdsIn(Alive \ {r})
      <4>1. Alive \ {r} \subseteq D
        BY DEF Alive
      <4> QED BY <2>2, <4>1
    <3>3. IdsIn(Live)' = {entry'[s].internal_id : s \in D}
      BY <1>6 DEF IdsIn
    <3>4. IdsIn(Alive)' = {entry'[s].internal_id : s \in Alive \ {r}}
      BY <1>9 DEF IdsIn
    <3> QED BY <3>1, <3>2, <3>3, <3>4
  <2>9. \A s, t \in Live' : entry'[s].internal_id = entry'[t].internal_id => s = t
    BY <1>6, <2>1
  <2> QED BY <1>3, <2>1, <2>5, <2>6, <2>7, <2>8, <2>9 DEF SequencesAccounted
<1>12. Untouched(D)
  BY <1>3, <1>6 DEF Untouched, Held
<1> QED BY <1>6, <1>8, <1>10, <1>11, <1>12 DEF Structure

(* AbortRequestImpl.                                                       *)
LEMMA AbortStructure ==
  ASSUME Structure, NEW r \in Live, NEW reason \in Reasons, Abort(r, reason)
  PROVE  /\ Structure' /\ Live' = Live \ {r} /\ Untouched(Live \ {r})
         /\ ended' = [ended EXCEPT ![r] = Append(@, reason)]
         /\ UNCHANGED <<submission, streamed, handed>>
<1>1. /\ ended' = [ended EXCEPT ![r] = Append(@, reason)]
      /\ UNCHANGED <<submission, streamed, handed>>
  BY DEF Abort
<1> QED BY <1>1, RunningAbort, OtherAbort

(* What a request gets to prefill: the prompt, or the window of it.        *)
LEMMA TruncatedFacts ==
  ASSUME NEW r \in Request, NEW q \in Offered[r],
         q.kind = "remote_send" => RemoteSendAllowed(q, FromUntokenized(q.inputs))
  PROVE  LET a == Truncated(q, FromUntokenized(q.inputs)) IN
         /\ a \in Seq(Data) /\ a # <<>>
         /\ q.kind = "remote_send" => IdsOf(a) = [i \in 1..Window(q) |-> i]
         /\ q.kind # "remote_send" => IdsOf(a) = IdsOf(q.inputs)
<1> DEFINE tok == FromUntokenized(q.inputs)
           a   == Truncated(q, tok)
           w   == Window(q)
           n   == LengthOf(q.inputs)
<1>1. /\ q.inputs \in Seq(Data) /\ q.inputs # <<>>
      /\ IdsOf(q.inputs) = [i \in 1..n |-> i]
  BY OfferedAssumption
<1>2. tok \in Seq(Data) /\ Len(tok) = Len(q.inputs) /\ IdsOf(tok) = IdsOf(q.inputs)
  BY <1>1, IdsTokenized
<1>3. n \in Nat /\ LengthOf(tok) = n
  BY <1>1, <1>2, IdsType DEF LengthOf
<1>4. CASE q.kind = "remote_send"
  <2>1. a = SplitData(tok, w).lhs
    BY <1>3, <1>4 DEF Truncated, Window
  <2>2. w \in 1..n
    <3>1. 0 <= q.begin /\ q.begin < w /\ w < n
      BY <1>3, <1>4 DEF RemoteSendAllowed, Window
    <3>2. w \in Int /\ q.begin \in Int
      <4>1. q.end \in Int /\ q.begin \in Int
        BY OfferedAssumption
      <4> QED BY <1>3, <4>1 DEF Wrapped, Window
    <3> HIDE DEF w, n
    <3> QED BY <1>3, <3>1, <3>2
  <2>3. w \in 0..LengthOf(tok)
    <3> HIDE DEF w, n
    <3> QED BY <1>3, <2>2
  <2> HIDE DEF w
  <2>4. /\ a \in Seq(Data) /\ LengthOf(a) = w /\ IdsOf(a) = SubSeq(IdsOf(tok), 1, w)
    <3> HIDE DEF tok, a
    <3> QED BY <1>2, <2>1, <2>3, SplitFacts
  <2>5. a # <<>>
    BY <2>2, <2>4, IdsEmpty
  <2>6. IdsOf(a) = [i \in 1..w |-> i]
    <3> HIDE DEF n, tok, a
    <3> QED BY <1>1, <1>2, <1>3, <2>2, <2>4
  <2> QED BY <1>4, <2>4, <2>5, <2>6 DEF w
<1>5. CASE q.kind # "remote_send"
  <2>1. a = tok
    BY <1>5 DEF Truncated
  <2>2. tok # <<>>
    BY <1>1, <1>2
  <2> QED BY <1>2, <1>5, <2>1, <2>2
<1> QED BY <1>4, <1>5

NewEntry(q, id) ==
  LET inputs == Truncated(q, FromUntokenized(q.inputs)) IN
  [kind |-> q.kind, inputs |-> inputs, max_tokens |-> q.max_tokens,
   status |-> "pending", internal_id |-> id, left |-> inputs,
   committed_tokens |-> <<>>, next_callback_token_pos |-> 0]

LEMMA NewEntryFacts ==
  ASSUME NEW r \in Request, NEW q \in Offered[r], NEW id \in Nat,
         q.kind = "remote_send" => RemoteSendAllowed(q, FromUntokenized(q.inputs))
  PROVE  LET e == NewEntry(q, id)
             a == Truncated(q, FromUntokenized(q.inputs)) IN
         /\ e \in Entry /\ e.status = "pending" /\ e.left # <<>> /\ e.internal_id = id
         /\ e.kind = q.kind /\ e.inputs = a /\ e.left = a /\ e.max_tokens = q.max_tokens
         /\ e.committed_tokens = <<>> /\ e.next_callback_token_pos = 0
<1> DEFINE a == Truncated(q, FromUntokenized(q.inputs))
<1>1. a \in Seq(Data) /\ a # <<>>
  BY TruncatedFacts
<1>2. q.kind \in Kinds /\ q.max_tokens \in Nat \cup {NoLimit}
  BY OfferedAssumption
<1>3. <<>> \in Seq(Nat)
  OBVIOUS
<1> HIDE DEF a
<1>4. NewEntry(q, id) = [kind |-> q.kind, inputs |-> a, max_tokens |-> q.max_tokens,
                         status |-> "pending", internal_id |-> id, left |-> a,
                         committed_tokens |-> <<>>, next_callback_token_pos |-> 0]
  BY DEF NewEntry, a
<1>5. NewEntry(q, id) \in Entry
  BY <1>1, <1>2, <1>3, <1>4 DEF Entry
<1> QED BY <1>1, <1>4, <1>5 DEF a

(* What AddRequest records of a request.                                   *)
Submitted(r, q) ==
  /\ r \notin DOMAIN submission /\ DOMAIN submission' = DOMAIN submission \cup {r}
  /\ submission'[r] = q /\ \A s \in DOMAIN submission : submission'[s] = submission[s]

LEMMA RefusedStructure ==
  ASSUME Structure, NEW r \in Request, NEW q \in Offered[r], Submitted(r, q),
         ended' = [ended EXCEPT ![r] = Append(@, "length")],
         UNCHANGED <<entry, waiting_queue, running_queue, used_ids, sequences, streamed, handed,
                     lost_ids, leaked>>
  PROVE  Structure' /\ Live' = Live /\ Untouched(Live)
<1>1. PlaceAgrees'
  <2>1. Alive' = Alive /\ Live' = Live
    BY DEF Alive, Live
  <2>2. \A s \in Live : Parked(s)' = Parked(s)
    BY DEF Parked
  <2> QED BY <2>1, <2>2 DEF Structure, PlaceAgrees
<1>2. SequencesAccounted'
  BY DEF Structure, SequencesAccounted, IdsIn, Alive, Live
<1>3. TypeOK'
  <2>1. ended' \in [Request -> Seq(Reasons)]
    <3>1. Append(ended[r], "length") \in Seq(Reasons) /\ ended \in [Request -> Seq(Reasons)]
      <4>1. ended \in [Request -> Seq(Reasons)]
        BY DEF Structure, TypeOK
      <4>2. "length" \in Reasons
        BY DEF Reasons
      <4> QED BY <4>1, <4>2
    <3> QED BY <3>1
  <2>2. /\ DOMAIN submission' \subseteq Request
        /\ \A s \in DOMAIN submission' : submission'[s] \in Offered[s]
    BY DEF Submitted, Structure, TypeOK
  <2>3. /\ Live' \subseteq DOMAIN submission' /\ DOMAIN handed' \subseteq DOMAIN submission'
        /\ entry' \in [Live' -> Entry]
        /\ waiting_queue' \in Seq(Live') /\ running_queue' \in Seq(Live')
    BY DEF Submitted, Structure, TypeOK, Live
  <2>4. /\ used_ids' \subseteq Nat /\ IsFiniteSet(used_ids')
        /\ sequences' \in [DOMAIN sequences' -> Seq(Nat)]
        /\ streamed' \in [Request -> Seq(Nat)]
    BY DEF Structure, TypeOK
  <2> QED BY <2>1, <2>2, <2>3, <2>4 DEF TypeOK
<1>4. Live' = Live /\ Untouched(Live)
  BY DEF Live, Untouched, Held
<1> QED BY <1>1, <1>2, <1>3, <1>4 DEF Structure

LEMMA AcceptedStructure ==
  ASSUME Structure, NEW r \in Request, NEW q \in Offered[r], Submitted(r, q),
         q.kind = "remote_send" => RemoteSendAllowed(q, FromUntokenized(q.inputs)),
         waiting_queue' = Append(waiting_queue, r),
         entry' = Put(entry, r, NewEntry(q, NewId)), used_ids' = used_ids \cup {NewId},
         UNCHANGED <<running_queue, sequences, streamed, ended, handed, lost_ids, leaked>>
  PROVE  /\ Structure' /\ Live' = Live \cup {r} /\ Untouched(Live)
         /\ entry'[r] = NewEntry(q, NewId) /\ Held(r)' = <<>>
<1> DEFINE D == Live \cup {r}
           id == NewId
           e  == NewEntry(q, id)
<1>1. id \in Nat /\ id \notin used_ids
  BY FreshId DEF Structure, TypeOK
<1> HIDE DEF id
<1>2. e \in Entry /\ e.status = "pending" /\ e.left # <<>> /\ e.internal_id = id
  BY <1>1, NewEntryFacts
<1>3. r \notin Live
  BY DEF Submitted, Structure, TypeOK
<1> HIDE DEF e
<1>4. Live' = D /\ entry' \in [D -> Entry] /\ entry'[r] = e /\ \A s \in Live : entry'[s] = entry[s]
  <2>1. entry \in [Live -> Entry]
    BY DEF Structure, TypeOK
  <2>2. entry' = Put(entry, r, e)
    BY DEF e, id
  <2> QED BY <1>2, <1>3, <2>1, <2>2 DEF Put, Live
<1>5. /\ waiting_queue \in Seq(Live) /\ NoRepeats(waiting_queue)
      /\ running_queue \in Seq(Live) /\ NoRepeats(running_queue)
      /\ r \notin Elements(waiting_queue) /\ r \notin Elements(running_queue)
  <2>1. /\ waiting_queue \in Seq(Live) /\ NoRepeats(waiting_queue)
        /\ running_queue \in Seq(Live) /\ NoRepeats(running_queue)
    BY DEF Structure, TypeOK, PlaceAgrees
  <2> QED BY <1>3, <2>1, QueueType
<1>6. /\ waiting_queue' \in Seq(D) /\ NoRepeats(waiting_queue')
      /\ Elements(waiting_queue') = Elements(waiting_queue) \cup {r}
      /\ running_queue' \in Seq(D)
  <2>1. waiting_queue \in Seq(D) /\ running_queue \in Seq(D)
    BY <1>5, QueueType, Retype
  <2> QED BY <1>5, <2>1, QueueAppend
<1>7. Alive' = Alive
  BY <1>2, <1>4 DEF Alive
<1>8. PlaceAgrees'
  <2>1. /\ Elements(waiting_queue) = {s \in Live : entry[s].left # <<>>}
        /\ Elements(running_queue) = {s \in Alive : entry[s].kind # "prepare_receive"}
        /\ \A s \in Live : Parked(s) <=> s \in Alive /\ entry[s].kind = "prepare_receive"
    BY DEF Structure, PlaceAgrees
  <2>2. Elements(waiting_queue') = {s \in D : entry'[s].left # <<>>}
    BY <1>2, <1>4, <1>6, <2>1
  <2>3. Elements(running_queue') = {s \in Alive : entry'[s].kind # "prepare_receive"}
    BY <1>4, <2>1 DEF Alive
  <2>4. ASSUME NEW s \in D
        PROVE  Parked(s)' <=> s \in Alive /\ entry'[s].kind = "prepare_receive"
    BY <1>3, <1>4, <1>6, <2>1 DEF Parked, Alive
  <2> QED BY <1>4, <1>5, <1>6, <1>7, <2>2, <2>3, <2>4 DEF PlaceAgrees
<1>9. SequencesAccounted'
  <2>1. /\ \A s, t \in Live : entry[s].internal_id = entry[t].internal_id => s = t
        /\ DOMAIN sequences \subseteq used_ids
        /\ DOMAIN sequences = IdsIn(Alive) \cup leaked
        /\ used_ids = IdsIn(Live) \cup lost_ids
        /\ IdsIn(Live) \cap lost_ids = {} /\ leaked \subseteq lost_ids
    BY DEF Structure, SequencesAccounted
  <2>2. ASSUME NEW S, S \subseteq Live
        PROVE  {entry'[s].internal_id : s \in S} = IdsIn(S)
    <3>1. \A s \in S : entry'[s].internal_id = entry[s].internal_id
      BY <1>4, <2>2
    <3> QED BY <3>1, Zenon DEF IdsIn
  <2>3. IdsIn(Alive)' = IdsIn(Alive)
    <3>1. Alive \subseteq Live
      BY DEF Alive
    <3>2. IdsIn(Alive)' = {entry'[s].internal_id : s \in Alive}
      BY <1>7 DEF IdsIn
    <3> QED BY <2>2, <3>1, <3>2
  <2>4. IdsIn(Live)' = IdsIn(Live) \cup {id}
    <3>1. {entry'[s].internal_id : s \in Live} = IdsIn(Live)
      BY <2>2
    <3>2. IdsIn(Live)' = {entry'[s].internal_id : s \in Live} \cup {entry'[r].internal_id}
      BY <1>4 DEF IdsIn
    <3> QED BY <1>2, <1>4, <3>1, <3>2
  <2>5. \A s \in Live : entry[s].internal_id # id
    BY <1>1, <2>1 DEF IdsIn
  <2>6. \A s, t \in D : entry'[s].internal_id = entry'[t].internal_id => s = t
    BY <1>2, <1>4, <2>1, <2>5
  <2>7. used_ids' = used_ids \cup {id}
    BY DEF id
  <2>8. /\ DOMAIN sequences' \subseteq used_ids'
        /\ DOMAIN sequences' = IdsIn(Alive)' \cup leaked'
    BY <2>1, <2>3, <2>7
  <2>9. /\ used_ids' = IdsIn(Live)' \cup lost_ids'
        /\ IdsIn(Live)' \cap lost_ids' = {} /\ leaked' \subseteq lost_ids'
    BY <1>1, <2>1, <2>4, <2>7
  <2>10. \A s, t \in Live' : entry'[s].internal_id = entry'[t].internal_id => s = t
    BY <1>4, <2>6
  <2> QED BY <2>8, <2>9, <2>10 DEF SequencesAccounted
<1>10. TypeOK'
  <2>1. /\ DOMAIN submission' \subseteq Request
        /\ \A s \in DOMAIN submission' : submission'[s] \in Offered[s]
        /\ D \subseteq DOMAIN submission' /\ DOMAIN handed' \subseteq DOMAIN submission'
    BY DEF Submitted, Structure, TypeOK
  <2>2. used_ids' \subseteq Nat /\ IsFiniteSet(used_ids')
    <3>1. used_ids \subseteq Nat /\ IsFiniteSet(used_ids) /\ used_ids' = used_ids \cup {id}
      BY DEF Structure, TypeOK, id
    <3> QED BY <1>1, <3>1, FS_AddElement
  <2>3. /\ sequences' \in [DOMAIN sequences' -> Seq(Nat)]
        /\ streamed' \in [Request -> Seq(Nat)] /\ ended' \in [Request -> Seq(Reasons)]
    BY DEF Structure, TypeOK
  <2> QED BY <1>4, <1>6, <2>1, <2>2, <2>3 DEF TypeOK
<1>11. Untouched(Live) /\ Held(r)' = <<>>
  BY <1>2, <1>4 DEF Untouched, Held
<1> QED BY <1>4, <1>8, <1>9, <1>10, <1>11 DEF Structure, e, id

(* AddRequest: refused for its length, or accepted.                        *)
LEMMA AddRequestStructure ==
  ASSUME Structure, NEW r \in Request, AddRequest(r)
  PROVE  /\ Structure' /\ Untouched(Live) /\ UNCHANGED <<streamed, handed>>
         /\ \E q \in Offered[r] :
              /\ Submitted(r, q)
              /\ \/ /\ LengthOf(q.inputs) >= max_single_sequence_length
                    /\ ended' = [ended EXCEPT ![r] = Append(@, "length")]
                    /\ Live' = Live
                 \/ /\ q.kind = "remote_send" =>
                         RemoteSendAllowed(q, FromUntokenized(q.inputs))
                    /\ Live' = Live \cup {r} /\ ended' = ended
                    /\ entry'[r] = NewEntry(q, NewId) /\ Held(r)' = <<>>
<1>1. PICK q \in Offered[r] :
        /\ r \notin DOMAIN submission
        /\ submission' = Put(submission, r, q)
        /\ \/ /\ LengthOf(FromUntokenized(q.inputs)) >= max_single_sequence_length
              /\ ended' = [ended EXCEPT ![r] = Append(@, "length")]
              /\ UNCHANGED <<entry, waiting_queue, used_ids>>
           \/ /\ LengthOf(FromUntokenized(q.inputs)) < max_single_sequence_length
              /\ q.kind = "remote_send" => RemoteSendAllowed(q, FromUntokenized(q.inputs))
              /\ waiting_queue' = Append(waiting_queue, r)
              /\ entry' = Put(entry, r, NewEntry(q, NewId))
              /\ used_ids' = used_ids \cup {NewId}
              /\ UNCHANGED ended
        /\ UNCHANGED <<running_queue, sequences, streamed, handed, lost_ids, leaked>>
  BY Zenon DEF AddRequest, NewEntry
<1>2. Submitted(r, q)
  BY <1>1 DEF Submitted, Put
<1>3. LengthOf(FromUntokenized(q.inputs)) = LengthOf(q.inputs)
  BY OfferedAssumption, IdsTokenized DEF LengthOf
<1>4. UNCHANGED <<running_queue, sequences, streamed, handed, lost_ids, leaked>>
  BY <1>1
<1>5. CASE /\ LengthOf(FromUntokenized(q.inputs)) >= max_single_sequence_length
           /\ ended' = [ended EXCEPT ![r] = Append(@, "length")]
           /\ UNCHANGED <<entry, waiting_queue, used_ids>>
  <2>1. Structure' /\ Live' = Live /\ Untouched(Live)
    BY <1>2, <1>4, <1>5, RefusedStructure
  <2> QED BY <1>2, <1>3, <1>4, <1>5, <2>1
<1>6. CASE /\ q.kind = "remote_send" => RemoteSendAllowed(q, FromUntokenized(q.inputs))
           /\ waiting_queue' = Append(waiting_queue, r)
           /\ entry' = Put(entry, r, NewEntry(q, NewId))
           /\ used_ids' = used_ids \cup {NewId}
           /\ UNCHANGED ended
  <2>1. /\ Structure' /\ Live' = Live \cup {r} /\ Untouched(Live)
        /\ entry'[r] = NewEntry(q, NewId) /\ Held(r)' = <<>>
    BY <1>2, <1>4, <1>6, AcceptedStructure
  <2> QED BY <1>2, <1>4, <1>6, <2>1
<1> QED BY <1>1, <1>5, <1>6

(* Reset.                                                                  *)
LEMMA ResetStructure ==
  ASSUME Structure, Reset
  PROVE  Structure' /\ Live' = {}
<1>1. /\ entry' = <<>> /\ waiting_queue' = <<>> /\ running_queue' = <<>>
      /\ used_ids' = {} /\ sequences' = <<>> /\ lost_ids' = {} /\ leaked' = {}
      /\ ended' = [r \in Request |-> IF r \in Live THEN Append(ended[r], "abort") ELSE ended[r]]
      /\ UNCHANGED <<submission, streamed, handed>>
  BY DEF Reset
<1>2. /\ DOMAIN entry' = {} /\ DOMAIN sequences' = {}
      /\ entry' = [r \in {} |-> entry'[r]] /\ sequences' = [x \in {} |-> sequences'[x]]
      /\ Elements(waiting_queue') = {} /\ Elements(running_queue') = {}
      /\ NoRepeats(waiting_queue') /\ NoRepeats(running_queue')
      /\ waiting_queue' \in Seq({}) /\ running_queue' \in Seq({})
  BY <1>1 DEF Elements, NoRepeats
<1>3. Live' = {} /\ Alive' = {}
  BY <1>2 DEF Live, Alive
<1>4. TypeOK'
  <2>1. ended' \in [Request -> Seq(Reasons)]
    <3>1. ASSUME NEW r \in Request
          PROVE  (IF r \in Live THEN Append(ended[r], "abort") ELSE ended[r]) \in Seq(Reasons)
      <4>1. ended[r] \in Seq(Reasons) /\ "abort" \in Reasons
        BY DEF Structure, TypeOK, Reasons
      <4>2. Append(ended[r], "abort") \in Seq(Reasons)
        BY <4>1
      <4> QED BY <4>1, <4>2
    <3> QED BY <1>1, <3>1
  <2>2. used_ids' \subseteq Nat /\ IsFiniteSet(used_ids')
    BY <1>1, FS_EmptySet
  <2>3. entry' \in [{} -> Entry] /\ sequences' \in [{} -> Seq(Nat)]
    BY <1>2
  <2> QED BY <1>1, <1>2, <1>3, <2>1, <2>2, <2>3 DEF Structure, TypeOK
<1>5. PlaceAgrees'
  BY <1>2, <1>3 DEF PlaceAgrees
<1>6. SequencesAccounted'
  <2>1. IdsIn(Live)' = {} /\ IdsIn(Alive)' = {}
    BY <1>3 DEF IdsIn
  <2> QED BY <1>1, <1>2, <1>3, <2>1 DEF SequencesAccounted
<1> QED BY <1>3, <1>4, <1>5, <1>6 DEF Structure

LEMMA NextChunkFacts ==
  ASSUME NEW a \in Seq(Data), a # <<>>
  PROVE  /\ NextChunk(a).chunk \in Seq(Data) /\ NextChunk(a).left \in Seq(Data)
         /\ IdsOf(NextChunk(a).chunk) \o IdsOf(NextChunk(a).left) = IdsOf(a)
<1> DEFINE n == LengthOf(a)
           m == IF n < prefill_chunk_size THEN n ELSE prefill_chunk_size
<1>1. n \in Nat
  BY IdsType
<1>2. m \in 0..n
  BY <1>1, SizesAssumption
<1>3. NextChunk(a) = ChunkPrefillInputData(a, m)
  BY DEF NextChunk
<1> HIDE DEF m, n
<1>4. m \in 0..LengthOf(a)
  BY <1>2 DEF n
<1> QED BY <1>3, <1>4, ChunkFacts

(* A request prefills a chunk of its inputs.                               *)
LEMMA PrefillMid ==
  ASSUME Structure, NEW r \in Live, r \in Elements(waiting_queue),
         entry[r].kind # "prepare_receive",
         NEW new \in Entry, new.kind = entry[r].kind, new.internal_id = entry[r].internal_id,
         new.status = "alive",
         NEW running,
         running = IF entry[r].status = "pending" THEN Append(running_queue, r) ELSE running_queue,
         NEW seq \in Seq(Nat), NEW seqs, seqs = Put(sequences, entry[r].internal_id, seq),
         waiting_queue' = Dequeued(r, new.left)
  PROVE  OneChanged(r, new, running, seqs) /\ seqs[new.internal_id] = seq
<1>1. /\ waiting_queue \in Seq(Live) /\ NoRepeats(waiting_queue)
      /\ running_queue \in Seq(Live) /\ NoRepeats(running_queue)
      /\ sequences \in [DOMAIN sequences -> Seq(Nat)]
  BY DEF Structure, TypeOK, PlaceAgrees
<1>2. /\ waiting_queue' \in Seq(Live) /\ NoRepeats(waiting_queue')
      /\ Elements(waiting_queue') = Moved(waiting_queue, r, new.left # <<>>)
  <2>1. CASE new.left = <<>>
    BY <1>1, <2>1, WithoutProperties DEF Dequeued, Moved
  <2>2. CASE new.left # <<>>
    BY <1>1, <2>2 DEF Dequeued, Moved
  <2> QED BY <2>1, <2>2
<1>3. /\ running \in Seq(Live) /\ NoRepeats(running)
      /\ Elements(running) = Elements(running_queue) \cup {r}
  <2>1. CASE entry[r].status = "pending"
    <3>1. r \notin Elements(running_queue)
      BY <2>1, LiveFacts
    <3> QED BY <1>1, <2>1, <3>1, QueueAppend
  <2>2. CASE entry[r].status # "pending"
    <3>1. r \in Elements(running_queue)
      <4>1. entry[r].status = "alive"
        BY <2>2, LiveFacts, EntryType
      <4> QED BY <4>1, LiveFacts
    <3> QED BY <1>1, <2>2, <3>1
  <2> QED BY <2>1, <2>2
<1>4. /\ DOMAIN seqs = DOMAIN sequences \cup {new.internal_id} /\ seqs[new.internal_id] = seq
      /\ \A x \in DOMAIN sequences : x # new.internal_id => seqs[x] = sequences[x]
      /\ seqs \in [DOMAIN seqs -> Seq(Nat)]
  BY <1>1 DEF Put
<1> QED BY <1>2, <1>3, <1>4 DEF OneChanged, Moved

(* DisaggRemoteSend.                                                       *)
Left(r, left, seq) ==
  /\ left \in Seq(Data) /\ seq \in Seq(Nat)
  /\ seq \o IdsOf(left) = Held(r) \o IdsOf(entry[r].left)

LEMMA RemoteSendStructure ==
  ASSUME Structure, NEW r \in Live, RemoteSend(r)
  PROVE  /\ Structure' /\ Untouched(Live' \ {r}) /\ UNCHANGED <<submission, streamed>>
         /\ entry[r].kind = "remote_send"
         /\ \E left, seq :
              /\ Left(r, left, seq)
              /\ \/ /\ left = <<>> /\ Live' = Live \ {r}
                    /\ ended' = [ended EXCEPT ![r] = Append(@, "sent")]
                    /\ DOMAIN handed' = DOMAIN handed \cup {r} /\ handed'[r] = seq
                    /\ \A s \in DOMAIN handed : s # r => handed'[s] = handed[s]
                 \/ /\ left # <<>> /\ Live' = Live
                    /\ entry'[r] = [entry[r] EXCEPT !.status = "alive", !.left = left]
                    /\ Held(r)' = seq /\ ended' = ended /\ handed' = handed
<1> DEFINE e    == entry[r]
           step == NextChunk(e.left)
           left == step.left
           held == IF e.status = "pending" THEN <<>> ELSE sequences[e.internal_id]
           done == left = <<>>
<1>1. PICK seq, running, seqs, new, ent, finished :
        /\ seq = held \o IdsOf(step.chunk)
        /\ running = IF e.status = "pending" THEN Append(running_queue, r) ELSE running_queue
        /\ seqs = Put(sequences, e.internal_id, seq)
        /\ new = [e EXCEPT !.status = "alive", !.left = left]
        /\ ent = [entry EXCEPT ![r] = new]
        /\ finished = IF done THEN {r} ELSE {}
  OBVIOUS
<1>2. /\ r \in FirstWaiting("remote_send")
      /\ waiting_queue' = Dequeued(r, left)
      /\ Retire(IF done THEN {r} ELSE {},
                [entry EXCEPT ![r].status = "alive", ![r].left = left],
                running, seqs)
      /\ ended' = IF done THEN [ended EXCEPT ![r] = Append(@, "sent")] ELSE ended
      /\ handed' = IF done THEN Put(handed, r, seq) ELSE handed
      /\ UNCHANGED <<submission, streamed, lost_ids, leaked>>
  BY <1>1, Zenon DEF RemoteSend, SentWhole
<1>3. e.kind = "remote_send" /\ r \in Elements(waiting_queue)
  BY <1>2, FirstWaitingFacts DEF Structure
<1>4. /\ e \in Entry /\ e.left \in Seq(Data) /\ e.left # <<>> /\ r \in Request
      /\ e.status \in {"pending", "alive"}
  BY <1>3, LiveFacts, EntryType
<1>5. /\ left \in Seq(Data) /\ step.chunk \in Seq(Data)
      /\ IdsOf(step.chunk) \o IdsOf(left) = IdsOf(e.left)
  BY <1>4, NextChunkFacts
<1>6. held = Held(r) /\ Held(r) \in Seq(Nat)
  <2>1. held = Held(r)
    BY <1>4 DEF Held
  <2> QED BY <2>1, LiveFacts
<1> HIDE DEF step, held
<1>7. Left(r, left, seq)
  <2>1. IdsOf(step.chunk) \in Seq(Nat) /\ IdsOf(left) \in Seq(Nat)
    BY <1>5, IdsType
  <2>2. seq = Held(r) \o IdsOf(step.chunk)
    BY <1>1, <1>6
  <2>3. seq \in Seq(Nat)
    BY <1>6, <2>1, <2>2
  <2>4. seq \o IdsOf(left) = Held(r) \o IdsOf(e.left)
    <3>1. (Held(r) \o IdsOf(step.chunk)) \o IdsOf(left)
            = Held(r) \o (IdsOf(step.chunk) \o IdsOf(left))
      BY <1>6, <2>1, Regroup
    <3> QED BY <1>5, <2>2, <3>1
  <2> QED BY <1>5, <2>3, <2>4 DEF Left
<1>8. /\ new \in Entry /\ new.kind = e.kind /\ new.internal_id = e.internal_id
      /\ new.status = "alive" /\ new.left = left
  BY <1>1, <1>4, <1>5 DEF Entry
<1>9. ent = [entry EXCEPT ![r].status = "alive", ![r].left = left]
  BY <1>1 DEF Structure, TypeOK
<1> HIDE DEF left, e
<1>10. OneChanged(r, new, running, seqs) /\ seqs[new.internal_id] = seq
  <2>1. seq \in Seq(Nat)
    BY <1>7 DEF Left
  <2>2. e = entry[r]
    BY DEF e
  <2>3. entry[r].kind # "prepare_receive" /\ new.kind = entry[r].kind
        /\ new.internal_id = entry[r].internal_id
    BY <1>3, <1>8, <2>2
  <2>4. /\ running = IF entry[r].status = "pending" THEN Append(running_queue, r) ELSE running_queue
        /\ seqs = Put(sequences, entry[r].internal_id, seq)
        /\ waiting_queue' = Dequeued(r, new.left)
    BY <1>1, <1>2, <1>8, <2>2
  <2> QED BY <1>3, <1>8, <2>1, <2>3, <2>4, PrefillMid
<1>11. MidState(ent, running, seqs) /\ \A s \in Live \ {r} : HeldIn(ent, seqs, s) = Held(s)
  <2>1. OnlyAt(r, new, ent)
    BY <1>1 DEF OnlyAt
  <2> QED BY <1>10, <2>1, OneChangedFacts
<1>12. ent[r] = new /\ \A s \in Live \ {r} : ent[s] = entry[s]
  BY <1>1 DEF Structure, TypeOK
<1>13. /\ finished \subseteq Live
       /\ \A s \in finished : /\ ent[s].status = "alive" /\ ent[s].kind # "prepare_receive"
                              /\ ent[s].left = <<>>
  BY <1>1, <1>3, <1>8, <1>12
<1>14. Retired(finished, ent, running, seqs)
  <2>1. Retire(finished, ent, running, seqs)
    BY <1>1, <1>2, <1>9
  <2> QED BY <1>11, <2>1, RetireFacts
<1>15. /\ streamed' \in [Request -> Seq(Nat)] /\ ended' \in [Request -> Seq(Reasons)]
       /\ DOMAIN handed' \subseteq DOMAIN submission
  <2>1. /\ streamed \in [Request -> Seq(Nat)] /\ ended \in [Request -> Seq(Reasons)]
        /\ DOMAIN handed \subseteq DOMAIN submission /\ r \in DOMAIN submission
    BY DEF Structure, TypeOK
  <2>2. Append(ended[r], "sent") \in Seq(Reasons)
    <3>1. "sent" \in Reasons
      BY DEF Reasons
    <3> QED BY <1>4, <2>1, <3>1
  <2>3. DOMAIN handed' \subseteq DOMAIN submission
    BY <1>2, <2>1 DEF Put
  <2>4. ended' \in [Request -> Seq(Reasons)]
    BY <1>2, <2>1, <2>2
  <2> QED BY <1>2, <2>1, <2>3, <2>4
<1>16. /\ Structure' /\ Live' = Live \ finished
       /\ \A s \in Live' :
            /\ entry'[s] = ent[s]
            /\ Held(s)' = IF ent[s].status = "alive" THEN seqs[ent[s].internal_id] ELSE <<>>
  <2>1. UNCHANGED <<submission, lost_ids, leaked>>
    BY <1>2
  <2> QED BY <1>11, <1>13, <1>14, <1>15, <2>1, RetireStructure
<1>17. Untouched(Live' \ {r})
  BY <1>11, <1>12, <1>16 DEF Untouched, HeldIn
<1>18. CASE done
  <2>1. Live' = Live \ {r}
    BY <1>1, <1>16, <1>18
  <2>2. /\ DOMAIN handed' = DOMAIN handed \cup {r} /\ handed'[r] = seq
        /\ \A s \in DOMAIN handed : s # r => handed'[s] = handed[s]
    BY <1>2, <1>18 DEF Put
  <2>3. ended' = [ended EXCEPT ![r] = Append(@, "sent")]
    BY <1>2, <1>18
  <2> QED BY <1>2, <1>3, <1>7, <1>16, <1>17, <1>18, <2>1, <2>2, <2>3 DEF e
<1>19. CASE ~done
  <2>1. Live' = Live
    BY <1>1, <1>16, <1>19
  <2>2. entry'[r] = new /\ Held(r)' = seq
    BY <1>8, <1>10, <1>12, <1>16, <2>1
  <2>3. new = [entry[r] EXCEPT !.status = "alive", !.left = left]
    BY <1>1 DEF e
  <2>4. ended' = ended /\ handed' = handed
    BY <1>2, <1>19
  <2> QED BY <1>2, <1>3, <1>7, <1>16, <1>17, <1>19, <2>1, <2>2, <2>3, <2>4 DEF e
<1> QED BY <1>18, <1>19

(* The inputs left behind a prefix match.                                  *)
LEMMA MatchedFacts ==
  ASSUME NEW a \in Seq(Data), a # <<>>, NEW m,
         m \in 0..(Len(GetConcatPrefillInputData(a)) - 1) \cup {0}
  PROVE  LET p == GetConcatPrefillInputData(a)
             b == IF m = 0 THEN a ELSE PopPrefillInputData(a, m) IN
         /\ b \in Seq(Data) /\ b # <<>> /\ SubSeq(p, 1, m) \in Seq(Nat)
         /\ SubSeq(p, 1, m) \o IdsOf(b) = IdsOf(a)
<1> DEFINE p == GetConcatPrefillInputData(a)
           b == IF m = 0 THEN a ELSE PopPrefillInputData(a, m)
<1>1. IdsOf(a) \in Seq(Nat) /\ LengthOf(a) = Len(IdsOf(a)) /\ LengthOf(a) \in Nat
  BY IdsType
<1>2. p = IdsOf(a) \/ p = <<>>
  BY DEF GetConcatPrefillInputData
<1>3. CASE m = 0
  <2>1. SubSeq(p, 1, 0) = <<>>
    BY <1>1, <1>2
  <2>2. <<>> \o IdsOf(a) = IdsOf(a) /\ <<>> \in Seq(Nat)
    BY <1>1
  <2>3. b = a /\ SubSeq(p, 1, m) = <<>>
    BY <1>3, <2>1
  <2> HIDE DEF p, b
  <2>4. /\ b \in Seq(Data) /\ b # <<>> /\ SubSeq(p, 1, m) \in Seq(Nat)
        /\ SubSeq(p, 1, m) \o IdsOf(b) = IdsOf(a)
    BY <2>2, <2>3
  <2> QED BY <2>4 DEF p, b
<1>4. CASE m # 0
  <2>1. m \in 0..(Len(p) - 1)
    BY <1>4
  <2>2. p # <<>>
    <3> HIDE DEF p
    <3> QED BY <1>4, <2>1
  <2>3. p = IdsOf(a)
    BY <1>2, <2>2
  <2>4. m \in 0..(LengthOf(a) - 1)
    BY <1>1, <2>1, <2>3
  <2>5. /\ b \in Seq(Data) /\ b # <<>>
        /\ SubSeq(IdsOf(a), 1, m) \o IdsOf(b) = IdsOf(a)
    BY <1>4, <2>4, PopFacts
  <2>6. SubSeq(p, 1, m) \in Seq(Nat)
    <3>1. m \in Nat /\ m <= Len(IdsOf(a))
      <4> HIDE DEF p, b
      <4> QED BY <1>1, <2>4
    <3> QED BY <1>1, <2>3, <3>1
  <2> QED BY <2>3, <2>5, <2>6
<1> QED BY <1>3, <1>4

(* The prefill of a request of an ordinary kind.                           *)
LEMMA NewRequestPrefillStructure ==
  ASSUME Structure, NEW r \in Live, NewRequestPrefill(r)
  PROVE  /\ Structure' /\ entry[r].kind = "none" /\ entry[r].left # <<>>
         /\ \E left, seq, entries, seqs :
              /\ Left(r, left, seq)
              /\ entries[r] = [entry[r] EXCEPT !.status = "alive", !.left = left,
                                 !.committed_tokens =
                                    IF left = <<>> THEN Append(@, Len(seq) + 1) ELSE @]
              /\ HeldIn(entries, seqs, r) = seq
              /\ \A s \in Live \ {r} :
                   entries[s] = entry[s] /\ HeldIn(entries, seqs, s) = Held(s)
              /\ Outcome(IF left = <<>> THEN {r} ELSE {}, entries, seqs)
<1> DEFINE e       == entry[r]
           pending == e.status = "pending"
           prompt  == GetConcatPrefillInputData(e.left)
<1>1. r \in FirstWaiting("none")
  BY Zenon DEF NewRequestPrefill
<1>2. e.kind = "none" /\ r \in Elements(waiting_queue)
  BY <1>1, FirstWaitingFacts DEF Structure
<1>3. /\ e \in Entry /\ e.left \in Seq(Data) /\ e.left # <<>> /\ r \in Request
      /\ e.status \in {"pending", "alive"} /\ e.committed_tokens \in Seq(Nat)
  BY <1>2, LiveFacts, EntryType
<1>4. PICK matched \in (IF pending THEN 0..(Len(prompt) - 1) ELSE {}) \cup {0} :
        LET step == NextChunk(IF matched = 0 THEN e.left ELSE PopPrefillInputData(e.left, matched))
            done == step.left = <<>>
            seq  == (IF pending THEN SubSeq(prompt, 1, matched) ELSE sequences[e.internal_id])
                      \o IdsOf(step.chunk)
        IN
        /\ step.chunk # <<>>
        /\ waiting_queue' = Dequeued(r, step.left)
        /\ PostProcess(IF done THEN {r} ELSE {},
             [entry EXCEPT ![r].status = "alive", ![r].left = step.left,
                           ![r].committed_tokens = IF done THEN Append(@, Len(seq) + 1) ELSE @],
             IF pending THEN Append(running_queue, r) ELSE running_queue,
             Put(sequences, e.internal_id, seq))
  BY Zenon DEF NewRequestPrefill
<1> DEFINE a    == IF matched = 0 THEN e.left ELSE PopPrefillInputData(e.left, matched)
           base == IF pending THEN SubSeq(prompt, 1, matched) ELSE sequences[e.internal_id]
           step == NextChunk(a)
           done == step.left = <<>>
<1>5. PICK left, seq, running, seqs, new, ent, sampled :
        /\ left = step.left /\ seq = base \o IdsOf(step.chunk)
        /\ running = IF pending THEN Append(running_queue, r) ELSE running_queue
        /\ seqs = Put(sequences, e.internal_id, seq)
        /\ new = [e EXCEPT !.status = "alive", !.left = left,
                           !.committed_tokens = IF left = <<>> THEN Append(@, Len(seq) + 1) ELSE @]
        /\ ent = [entry EXCEPT ![r] = new]
        /\ sampled = IF left = <<>> THEN {r} ELSE {}
  OBVIOUS
<1>6. /\ waiting_queue' = Dequeued(r, left)
      /\ PostProcess(sampled,
           [entry EXCEPT ![r].status = "alive", ![r].left = left,
                         ![r].committed_tokens = IF left = <<>> THEN Append(@, Len(seq) + 1) ELSE @],
           running, seqs)
  BY <1>4, <1>5, Zenon
<1>7. a \in Seq(Data) /\ a # <<>> /\ base \in Seq(Nat)
      /\ base \o IdsOf(a) = Held(r) \o IdsOf(e.left)
  <2>1. Held(r) = (IF pending THEN <<>> ELSE sequences[e.internal_id]) /\ Held(r) \in Seq(Nat)
    BY <1>3, LiveFacts DEF Held
  <2>2. CASE pending
    <3>1. matched \in 0..(Len(GetConcatPrefillInputData(e.left)) - 1) \cup {0}
      BY <1>4, <2>2
    <3>2. /\ a \in Seq(Data) /\ a # <<>> /\ SubSeq(prompt, 1, matched) \in Seq(Nat)
          /\ SubSeq(prompt, 1, matched) \o IdsOf(a) = IdsOf(e.left)
      <4> HIDE DEF e
      <4> QED BY <1>3, <3>1, MatchedFacts
    <3>3. base = SubSeq(prompt, 1, matched) /\ Held(r) = <<>>
      BY <2>1, <2>2
    <3>4. <<>> \o IdsOf(e.left) = IdsOf(e.left)
      <4>1. IdsOf(e.left) \in Seq(Nat)
        BY <1>3, IdsType
      <4> QED BY <4>1
    <3> HIDE DEF a, base, prompt
    <3> QED BY <3>2, <3>3, <3>4
  <2>3. CASE ~pending
    <3>1. matched = 0
      BY <1>4, <2>3
    <3>2. a = e.left /\ base = Held(r)
      BY <2>1, <2>3, <3>1
    <3> HIDE DEF a, base
    <3> QED BY <1>3, <2>1, <3>2
  <2> QED BY <2>2, <2>3
<1> HIDE DEF a, base
<1>8. /\ left \in Seq(Data) /\ step.chunk \in Seq(Data)
      /\ IdsOf(step.chunk) \o IdsOf(left) = IdsOf(a)
  BY <1>5, <1>7, NextChunkFacts
<1> HIDE DEF step
<1>9. Left(r, left, seq)
  <2>1. IdsOf(step.chunk) \in Seq(Nat) /\ IdsOf(left) \in Seq(Nat)
    BY <1>8, IdsType
  <2>2. seq = base \o IdsOf(step.chunk)
    BY <1>5
  <2>3. seq \in Seq(Nat)
    BY <1>7, <2>1, <2>2
  <2>4. seq \o IdsOf(left) = Held(r) \o IdsOf(e.left)
    <3>1. (base \o IdsOf(step.chunk)) \o IdsOf(left) = base \o (IdsOf(step.chunk) \o IdsOf(left))
      <4> DEFINE x == IdsOf(step.chunk)
                 y == IdsOf(left)
      <4>1. base \in Seq(Nat) /\ x \in Seq(Nat) /\ y \in Seq(Nat)
        BY <1>7, <2>1
      <4> HIDE DEF x, y
      <4>2. Cat(Cat(base, x), y) = Cat(base, Cat(x, y))
        BY <4>1, CatRegroup
      <4> QED BY <4>2 DEF x, y, Cat
    <3> QED BY <1>7, <1>8, <2>2, <3>1
  <2> QED BY <1>8, <2>3, <2>4 DEF Left
<1>10. seq \in Seq(Nat) /\ Len(seq) + 1 \in Nat
  BY <1>9 DEF Left
<1>11. /\ new \in Entry /\ new.kind = e.kind /\ new.internal_id = e.internal_id
       /\ new.status = "alive" /\ new.left = left
  <2>1. (IF left = <<>> THEN Append(e.committed_tokens, Len(seq) + 1) ELSE e.committed_tokens) \in Seq(Nat)
    BY <1>3, <1>10
  <2> QED BY <1>3, <1>5, <1>8, <2>1 DEF Entry
<1>12. ent = [entry EXCEPT ![r].status = "alive", ![r].left = left,
                ![r].committed_tokens = IF left = <<>> THEN Append(@, Len(seq) + 1) ELSE @]
  BY <1>5 DEF Structure, TypeOK
<1>13. OneChanged(r, new, running, seqs) /\ seqs[new.internal_id] = seq
  <2> HIDE DEF e
  <2>1. e = entry[r]
    BY DEF e
  <2>2. entry[r].kind # "prepare_receive" /\ new.kind = entry[r].kind
        /\ new.internal_id = entry[r].internal_id
    BY <1>2, <1>11, <2>1
  <2>3. /\ running = IF entry[r].status = "pending" THEN Append(running_queue, r) ELSE running_queue
        /\ seqs = Put(sequences, entry[r].internal_id, seq)
        /\ waiting_queue' = Dequeued(r, new.left)
    BY <1>5, <1>6, <1>11, <2>1
  <2> QED BY <1>2, <1>10, <1>11, <2>2, <2>3, PrefillMid
<1>14. MidState(ent, running, seqs) /\ \A s \in Live \ {r} : HeldIn(ent, seqs, s) = Held(s)
  <2>1. OnlyAt(r, new, ent)
    BY <1>5 DEF OnlyAt
  <2> QED BY <1>13, <2>1, OneChangedFacts
<1>15. ent[r] = new /\ \A s \in Live \ {r} : ent[s] = entry[s]
  BY <1>5 DEF Structure, TypeOK
<1>16. /\ sampled \subseteq Live
       /\ \A s \in sampled : /\ ent[s].status = "alive" /\ ent[s].kind # "prepare_receive"
                             /\ ent[s].left = <<>>
  BY <1>2, <1>5, <1>11, <1>15
<1>17. Structure' /\ Outcome(sampled, ent, seqs)
  <2>1. PostProcess(sampled, ent, running, seqs)
    BY <1>6, <1>12
  <2> QED BY <1>14, <1>16, <2>1, PostProcessStructure
<1>18. HeldIn(ent, seqs, r) = seq
  BY <1>11, <1>13, <1>15 DEF HeldIn
<1>19. new = [entry[r] EXCEPT !.status = "alive", !.left = left,
                !.committed_tokens = IF left = <<>> THEN Append(@, Len(seq) + 1) ELSE @]
  BY <1>5
<1>20. Outcome(IF left = <<>> THEN {r} ELSE {}, ent, seqs)
  BY <1>5, <1>17
<1> QED BY <1>2, <1>3, <1>9, <1>14, <1>15, <1>17, <1>18, <1>19, <1>20

(* A decode: every alive entry without inputs left has a committed token.  *)
LEMMA DecodingFacts ==
  ASSUME Structure, LiveKept, NEW r \in Decoding
  PROVE  /\ r \in Live /\ entry[r].status = "alive" /\ entry[r].kind = "none"
         /\ entry[r].left = <<>> /\ entry[r].committed_tokens # <<>>
         /\ Last(entry[r].committed_tokens) \in Nat
<1>1. r \in Elements(running_queue) /\ entry[r].left = <<>>
  BY DEF Decoding
<1>2. r \in Live
  BY <1>1, QueueType DEF Structure, TypeOK
<1>3. entry[r].status = "alive" /\ entry[r].kind # "prepare_receive"
  BY <1>1, <1>2, LiveFacts
<1>4. KeepsCount(submission[r], entry[r], Held(r), Len(streamed[r]))
  BY <1>2 DEF LiveKept, Kept
<1>5. entry[r].kind \in {"none", "prepare_receive", "remote_send"}
  BY <1>2, LiveFacts, EntryType DEF Kinds
<1>6. entry[r].kind = "none" /\ entry[r].committed_tokens # <<>>
  BY <1>1, <1>3, <1>4, <1>5 DEF KeepsCount
<1>7. entry[r].committed_tokens \in Seq(Nat)
  BY <1>2, LiveFacts, EntryType
<1>8. Last(entry[r].committed_tokens) \in Nat
  BY <1>6, <1>7 DEF Last
<1> QED BY <1>1, <1>2, <1>3, <1>6, <1>8

LEMMA BatchDecodeStructure ==
  ASSUME Structure, LiveKept, BatchDecode
  PROVE  /\ Structure'
         /\ \E entries, seqs :
              /\ Outcome(Decoding, entries, seqs)
              /\ \A r \in Decoding :
                   /\ entries[r] = [entry[r] EXCEPT !.committed_tokens =
                                      Append(@, Len(HeldIn(entries, seqs, r)) + 1)]
                   /\ HeldIn(entries, seqs, r) =
                        Held(r) \o <<Last(entry[r].committed_tokens)>>
              /\ \A r \in Live \ Decoding :
                   entries[r] = entry[r] /\ HeldIn(entries, seqs, r) = Held(r)
<1> DEFINE added(id) == IF id \in IdsIn(Decoding)
                        THEN <<Last(entry[CHOOSE r \in Decoding :
                                            entry[r].internal_id = id].committed_tokens)>>
                        ELSE <<>>
           S == [id \in DOMAIN sequences |-> sequences[id] \o added(id)]
           E == [r \in Live |->
                   IF r \in Decoding
                   THEN [entry[r] EXCEPT !.committed_tokens =
                           Append(@, Len(S[entry[r].internal_id]) + 1)]
                   ELSE entry[r]]
<1>s. PostProcess(Decoding, E, running_queue, S) /\ waiting_queue' = waiting_queue
  BY Zenon DEF BatchDecode
<1>1. PICK seqs : seqs = S
  OBVIOUS
<1>2. PICK ent : ent = [r \in Live |->
                          IF r \in Decoding
                          THEN [entry[r] EXCEPT !.committed_tokens =
                                  Append(@, Len(seqs[entry[r].internal_id]) + 1)]
                          ELSE entry[r]]
  OBVIOUS
<1>3. PostProcess(Decoding, ent, running_queue, seqs) /\ waiting_queue' = waiting_queue
  <2>1. ent = E
    <3> HIDE DEF S
    <3> QED BY <1>1, <1>2
  <2> HIDE DEF E, S
  <2> QED BY <1>1, <1>s, <2>1
<1>4. /\ Decoding \subseteq Live
      /\ \A r \in Decoding : /\ entry[r].status = "alive" /\ entry[r].kind = "none"
                             /\ entry[r].left = <<>>
                             /\ Last(entry[r].committed_tokens) \in Nat
  BY DecodingFacts
<1>5. \A r, s \in Live : entry[r].internal_id = entry[s].internal_id => r = s
  BY DEF Structure, SequencesAccounted
<1>6. ASSUME NEW r \in Decoding
      PROVE  added(entry[r].internal_id) = <<Last(entry[r].committed_tokens)>>
  <2>1. entry[r].internal_id \in IdsIn(Decoding)
    BY DEF IdsIn
  <2>2. (CHOOSE s \in Decoding : entry[s].internal_id = entry[r].internal_id) = r
    BY <1>4, <1>5
  <2> QED BY <2>1, <2>2
<1>7. ASSUME NEW r \in Live \ Decoding
      PROVE  added(entry[r].internal_id) = <<>>
  <2>1. entry[r].internal_id \notin IdsIn(Decoding)
    BY <1>4, <1>5 DEF IdsIn
  <2> QED BY <2>1
<1>8. sequences \in [DOMAIN sequences -> Seq(Nat)] /\ entry \in [Live -> Entry]
  BY DEF Structure, TypeOK
<1>9. ASSUME NEW id \in DOMAIN sequences
      PROVE  added(id) \in Seq(Nat)
  <2>1. CASE id \in IdsIn(Decoding)
    <3>1. PICK r \in Decoding : entry[r].internal_id = id
      BY <2>1 DEF IdsIn
    <3>2. added(id) = <<Last(entry[r].committed_tokens)>> /\ Last(entry[r].committed_tokens) \in Nat
      BY <1>4, <1>6, <3>1
    <3> HIDE DEF added
    <3> QED BY <3>2
  <2>2. CASE id \notin IdsIn(Decoding)
    <3>1. added(id) = <<>>
      BY <2>2
    <3>2. <<>> \in Seq(Nat)
      OBVIOUS
    <3> HIDE DEF added
    <3> QED BY <3>1, <3>2
  <2> QED BY <2>1, <2>2
<1> HIDE DEF added
<1>10. /\ DOMAIN seqs = DOMAIN sequences
       /\ \A id \in DOMAIN sequences :
            seqs[id] = sequences[id] \o added(id) /\ seqs[id] \in Seq(Nat)
  BY <1>1, <1>8, <1>9
<1>11. /\ seqs \in [DOMAIN seqs -> Seq(Nat)]
  BY <1>1, <1>10
<1>12. ASSUME NEW r \in Decoding
       PROVE  /\ ent[r] = [entry[r] EXCEPT !.committed_tokens =
                             Append(@, Len(seqs[entry[r].internal_id]) + 1)]
              /\ ent[r] \in Entry /\ ent[r].status = "alive" /\ ent[r].left = <<>>
              /\ ent[r].kind = "none" /\ ent[r].internal_id = entry[r].internal_id
              /\ seqs[entry[r].internal_id] = Held(r) \o <<Last(entry[r].committed_tokens)>>
  <2>1. ent[r] = [entry[r] EXCEPT !.committed_tokens =
                    Append(@, Len(seqs[entry[r].internal_id]) + 1)]
    BY <1>2, <1>4
  <2>2. r \in Live /\ entry[r] \in Entry /\ entry[r].internal_id \in DOMAIN sequences
    BY <1>4, LiveFacts
  <2>3. seqs[entry[r].internal_id] \in Seq(Nat) /\ entry[r].committed_tokens \in Seq(Nat)
    BY <1>10, <2>2, EntryType
  <2>4. Append(entry[r].committed_tokens, Len(seqs[entry[r].internal_id]) + 1) \in Seq(Nat)
    <3>1. Len(seqs[entry[r].internal_id]) + 1 \in Nat
      BY <2>3
    <3> QED BY <2>3, <3>1
  <2>5. /\ ent[r] \in Entry /\ ent[r].status = "alive" /\ ent[r].left = <<>>
        /\ ent[r].kind = "none" /\ ent[r].internal_id = entry[r].internal_id
    BY <1>4, <2>1, <2>2, <2>4 DEF Entry
  <2>6. seqs[entry[r].internal_id] = Held(r) \o <<Last(entry[r].committed_tokens)>>
    BY <1>4, <1>6, <1>10, <2>2 DEF Held
  <2> QED BY <2>1, <2>5, <2>6
<1>13. ASSUME NEW r \in Live \ Decoding
       PROVE  ent[r] = entry[r] /\ HeldIn(ent, seqs, r) = Held(r)
  <2>1. ent[r] = entry[r]
    BY <1>2
  <2>2. CASE entry[r].status = "alive"
    <3>1. entry[r].internal_id \in DOMAIN sequences
      BY <2>2, LiveFacts
    <3>2. seqs[entry[r].internal_id] = sequences[entry[r].internal_id] \o <<>>
      BY <1>7, <1>10, <3>1
    <3>3. sequences[entry[r].internal_id] \in Seq(Nat)
      BY <1>8, <3>1
    <3>4. seqs[entry[r].internal_id] = sequences[entry[r].internal_id]
      BY <3>2, <3>3
    <3> QED BY <2>1, <2>2, <3>4 DEF Held, HeldIn
  <2>3. CASE entry[r].status # "alive"
    BY <2>1, <2>3 DEF Held, HeldIn
  <2> QED BY <2>1, <2>2, <2>3
<1>14. ASSUME NEW r \in Live
       PROVE  /\ ent[r] \in Entry /\ ent[r].internal_id = entry[r].internal_id
              /\ ent[r].status = entry[r].status /\ ent[r].kind = entry[r].kind
              /\ ent[r].left = entry[r].left
  <2>1. CASE r \in Decoding
    BY <1>4, <1>12, <2>1
  <2>2. CASE r \notin Decoding
    BY <1>8, <1>13, <2>2
  <2> QED BY <2>1, <2>2
<1>15. MidState(ent, running_queue, seqs)
  <2>1. ent \in [Live -> Entry]
    <3>1. \A r \in Live : ent[r] \in Entry
      BY <1>14
    <3>2. ent = [r \in Live |-> ent[r]]
      BY <1>2
    <3> QED BY <3>1, <3>2
  <2>2. /\ waiting_queue' \in Seq(Live) /\ NoRepeats(waiting_queue')
        /\ running_queue \in Seq(Live) /\ NoRepeats(running_queue)
    BY <1>3 DEF Structure, TypeOK, PlaceAgrees
  <2>3. /\ Elements(waiting_queue) = {r \in Live : entry[r].left # <<>>}
        /\ Elements(running_queue)
             = {r \in Live : entry[r].status = "alive" /\ entry[r].kind # "prepare_receive"}
    BY DEF Structure, PlaceAgrees, Alive
  <2>4. /\ Elements(waiting_queue') = {r \in Live : ent[r].left # <<>>}
        /\ Elements(running_queue)
             = {r \in Live : ent[r].status = "alive" /\ ent[r].kind # "prepare_receive"}
    BY <1>3, <1>14, <2>3
  <2>5. ASSUME NEW r \in Live
        PROVE  /\ ent[r].status = "pending" => ent[r].left # <<>>
               /\ ent[r].status = "alive" /\ ent[r].kind = "prepare_receive" => ent[r].left = <<>>
    BY <1>14, LiveFacts
  <2>6. DOMAIN seqs = {entry[r].internal_id : r \in {x \in Live : ent[x].status = "alive"}} \cup leaked
    <3>1. {x \in Live : ent[x].status = "alive"} = Alive
      BY <1>14 DEF Alive
    <3>2. DOMAIN sequences = {entry[r].internal_id : r \in Alive} \cup leaked
      BY DEF Structure, SequencesAccounted, IdsIn
    <3> QED BY <1>10, <3>1, <3>2
  <2> QED BY <1>11, <1>14, <2>1, <2>2, <2>4, <2>5, <2>6 DEF MidState
<1>16. Structure' /\ Outcome(Decoding, ent, seqs)
  <2>1. \A r \in Decoding : /\ ent[r].status = "alive" /\ ent[r].kind # "prepare_receive"
                            /\ ent[r].left = <<>>
    BY <1>12
  <2>2. PICK running : running = running_queue
    OBVIOUS
  <2>3. MidState(ent, running, seqs) /\ PostProcess(Decoding, ent, running, seqs)
    BY <1>3, <1>15, <2>2
  <2> QED BY <1>4, <2>1, <2>3, PostProcessStructure
<1>17. \A r \in Decoding :
         /\ ent[r] = [entry[r] EXCEPT !.committed_tokens =
                        Append(@, Len(HeldIn(ent, seqs, r)) + 1)]
         /\ HeldIn(ent, seqs, r) = Held(r) \o <<Last(entry[r].committed_tokens)>>
  BY <1>12 DEF HeldIn
<1> QED BY <1>13, <1>16, <1>17

(* PreemptLastRunningRequestStateEntry finds a running request.            *)
LEMMA PreemptFacts ==
  ASSUME Structure, Decoding # {}
  PROVE  Last(running_queue) \in Live
<1>1. running_queue \in Seq(Live)
  BY DEF Structure, TypeOK
<1>2. running_queue # <<>>
  BY <1>1 DEF Decoding, Elements
<1> QED BY <1>1, <1>2 DEF Last

-----------------------------------------------------------------------------
(* What is kept of a live request.                                         *)

InBudget(q, tokens, reasons) ==
  LET prompt == LengthOf(q.inputs) IN
  /\ \A i \in DOMAIN tokens : tokens[i] = prompt + i
  /\ q.max_tokens # NoLimit => Len(tokens) <= q.max_tokens
  /\ reasons = <<"length">> =>
       \/ Len(tokens) = q.max_tokens
       \/ prompt + Len(tokens) + 1 >= max_single_sequence_length

LEMMA OneToken ==
  ASSUME NEW u \in Seq(Nat), Len(u) = 1
  PROVE  u # <<>> /\ u = <<u[1]>>
<1>0. DOMAIN u = 1..Len(u) /\ u \in [1..Len(u) -> Nat]
  OBVIOUS
<1>2. DOMAIN u = {1} /\ u[1] \in Nat
  BY <1>0
<1>1. u # <<>>
  <2>1. DOMAIN <<>> = {}
    OBVIOUS
  <2> QED BY <1>2, <2>1
<1> DEFINE v == <<u[1]>>
<1>3. v \in Seq(Nat) /\ Len(v) = 1 /\ v[1] = u[1] /\ DOMAIN v = {1}
  BY <1>2
<1> HIDE DEF v
<1>4. u = [i \in {1} |-> u[i]] /\ v = [i \in {1} |-> v[i]]
  BY <1>2, <1>3
<1>5. u = v
  BY <1>3, <1>4
<1> QED BY <1>1, <1>5 DEF v

(* Adding nothing, or one token.                                           *)
LEMMA NothingAdded ==
  ASSUME NEW X, NEW u \in Seq(X)
  PROVE  u \o <<>> = u
OBVIOUS

LEMMA TokenAdded ==
  ASSUME NEW u \in Seq(Nat), NEW t \in Nat
  PROVE  LET v == u \o <<t>> IN
         /\ v \in Seq(Nat) /\ Len(u) \in Nat /\ Len(v) = Len(u) + 1
         /\ DOMAIN v = 1..Len(v) /\ DOMAIN u = 1..Len(u)
         /\ v[Len(u) + 1] = t /\ \A i \in 1..Len(u) : v[i] = u[i]
<1> DEFINE one == <<t>>
<1>1. one \in Seq(Nat) /\ Len(one) = 1 /\ one[1] = t
  OBVIOUS
<1> HIDE DEF one
<1> DEFINE v == u \o one
<1>2. /\ v \in Seq(Nat) /\ Len(u) \in Nat /\ Len(v) = Len(u) + 1
      /\ DOMAIN v = 1..(Len(u) + 1) /\ DOMAIN u = 1..Len(u)
      /\ v[Len(u) + 1] = one[1] /\ \A i \in 1..Len(u) : v[i] = u[i]
  BY <1>1, ConcatOne
<1> HIDE DEF v
<1>3. /\ v \in Seq(Nat) /\ Len(u) \in Nat /\ Len(v) = Len(u) + 1
      /\ DOMAIN v = 1..Len(v) /\ DOMAIN u = 1..Len(u)
      /\ v[Len(u) + 1] = t /\ \A i \in 1..Len(u) : v[i] = u[i]
  BY <1>1, <1>2
<1> QED BY <1>3 DEF v, one

(* Counting.                                                               *)
LEMMA CountPrefix ==
  ASSUME NEW n \in Nat, NEW m \in 0..n
  PROVE  SubSeq([i \in 1..n |-> i], 1, m) = [i \in 1..m |-> i]
OBVIOUS

LEMMA CountAppend ==
  ASSUME NEW n \in Nat
  PROVE  [i \in 1..n |-> i] \o <<n + 1>> = [i \in 1..(n + 1) |-> i]
<1> DEFINE u == [i \in 1..n |-> i]
           v == u \o <<n + 1>>
           w == [i \in 1..(n + 1) |-> i]
<1>1. u \in Seq(Nat) /\ Len(u) = n /\ \A i \in 1..n : u[i] = i
  OBVIOUS
<1>2. w \in Seq(Nat) /\ Len(w) = n + 1 /\ \A i \in 1..(n + 1) : w[i] = i
  OBVIOUS
<1> HIDE DEF u, w
<1>3. /\ v \in Seq(Nat) /\ Len(v) = Len(u) + 1
      /\ v[Len(u) + 1] = n + 1 /\ \A i \in 1..Len(u) : v[i] = u[i]
  BY <1>1, TokenAdded
<1> HIDE DEF v
<1>4. ASSUME NEW i \in 1..Len(v) PROVE v[i] = w[i]
  <2>1. i \in 1..n \/ i = n + 1
    BY <1>1, <1>3
  <2> QED BY <1>1, <1>2, <1>3, <2>1
<1>5. v = w
  BY <1>1, <1>2, <1>3, <1>4, SeqEqual
<1> QED BY <1>5 DEF u, v, w

(* With no token committed there is none that the cache lacks; else it is  *)
(* the last one.                                                           *)
LEMMA NothingPending ==
  ASSUME NEW e, e.committed_tokens = <<>>, NEW held \in Seq(Nat), NEW left
  PROVE  held \o Pending(e) \o left = held \o left
<1>1. Pending(e) = <<>>
  BY DEF Pending
<1>2. held \o <<>> = held
  BY NothingAdded
<1> QED BY <1>1, <1>2

LEMMA OnePending ==
  ASSUME NEW e, e.committed_tokens # <<>>, NEW held \in Seq(Nat), NEW t \in Nat,
         t = Last(e.committed_tokens), e.left = <<>>
  PROVE  held \o Pending(e) \o IdsOf(e.left) = held \o <<t>>
<1>1. Pending(e) = <<t>>
  BY DEF Pending
<1>2. held \o <<t>> \in Seq(Nat)
  BY TokenAdded
<1>3. (held \o <<t>>) \o <<>> = held \o <<t>>
  BY <1>2, NothingAdded
<1> QED BY <1>1, <1>3, IdsEmpty

LEMMA OfferedFacts ==
  ASSUME NEW r \in Request, NEW q \in Offered[r]
  PROVE  /\ q.kind \in Kinds /\ q.inputs \in Seq(Data)
         /\ LengthOf(q.inputs) \in Nat /\ Window(q) \in Int
         /\ q.kind = "prepare_receive" => Window(q) \in 0..(LengthOf(q.inputs) - 1)
         /\ q.max_tokens \in (Nat \ {0}) \cup {NoLimit}
<1>1. /\ q.kind \in Kinds /\ q.inputs \in Seq(Data) /\ q.end \in Int
      /\ q.kind = "prepare_receive" => Window(q) \in 0..(LengthOf(q.inputs) - 1)
      /\ q.max_tokens \in (Nat \ {0}) \cup {NoLimit}
  BY OfferedAssumption DEF Window
<1>2. LengthOf(q.inputs) \in Nat
  BY <1>1, IdsType
<1>3. Window(q) \in Int
  BY <1>1, <1>2 DEF Window, Wrapped
<1> QED BY <1>1, <1>2, <1>3

(* A new entry.                                                            *)
LEMMA NewKept ==
  ASSUME NEW r \in Request, NEW q \in Offered[r], NEW id \in Nat,
         q.kind = "remote_send" => RemoteSendAllowed(q, FromUntokenized(q.inputs))
  PROVE  Kept(q, NewEntry(q, id), <<>>, 0)
<1> DEFINE e == NewEntry(q, id)
           a == Truncated(q, FromUntokenized(q.inputs))
<1>1. /\ a \in Seq(Data) /\ a # <<>>
      /\ q.kind = "remote_send" => IdsOf(a) = [i \in 1..Window(q) |-> i]
      /\ q.kind # "remote_send" => IdsOf(a) = IdsOf(q.inputs)
  BY TruncatedFacts
<1>2. /\ e.status = "pending" /\ e.kind = q.kind /\ e.inputs = a /\ e.left = a
      /\ e.max_tokens = q.max_tokens
      /\ e.committed_tokens = <<>> /\ e.next_callback_token_pos = 0
  BY NewEntryFacts
<1>3. /\ q.kind \in Kinds /\ LengthOf(q.inputs) \in Nat
      /\ q.max_tokens \in (Nat \ {0}) \cup {NoLimit}
  BY OfferedFacts
<1>4. q.kind # "remote_send" => LengthOf(a) = LengthOf(q.inputs)
  BY <1>1 DEF LengthOf
<1>5. LengthOf(a) \in Nat /\ IdsOf(a) \in Seq(Nat)
  BY <1>1, IdsType
<1> HIDE DEF e, a
<1>6. KeepsWindow(q, e, <<>>)
  BY <1>1, <1>2, <1>5 DEF KeepsWindow
<1>7. KeepsBudget(q, e, 0)
  <2>1. Len(e.committed_tokens) = 0
    BY <1>2
  <2> QED BY <1>2, <1>3, <1>4, <1>5, <2>1 DEF KeepsBudget, NoLimit
<1>8. KeepsCount(q, e, <<>>, 0)
  <2>1. Len(<<>>) + LengthOf(a) = LengthOf(a)
    BY <1>5
  <2> QED BY <1>1, <1>2, <1>3, <1>4, <1>5, <2>1 DEF KeepsCount, Kinds
<1>9. KeepsOrder(q, e, <<>>, 0)
  <2>1. q.kind = "prepare_receive" => a = FromUntokenized(q.inputs)
    BY DEF Truncated, a
  <2>2. CASE q.kind = "none"
    <3>1. IdsOf(a) = [i \in 1..LengthOf(q.inputs) |-> i]
      BY <1>1, <2>2, OfferedAssumption
    <3>2. <<>> \o Pending(e) \o IdsOf(e.left) = <<>> \o IdsOf(a)
      <4>1. <<>> \in Seq(Nat)
        OBVIOUS
      <4> QED BY <1>2, <4>1, NothingPending
    <3>3. <<>> \o IdsOf(a) = IdsOf(a) /\ LengthOf(q.inputs) + 0 = LengthOf(q.inputs)
      BY <1>3, <1>5
    <3> QED BY <1>2, <2>2, <3>1, <3>2, <3>3 DEF KeepsOrder
  <2>3. CASE q.kind # "none"
    BY <1>2, <2>1, <2>3 DEF KeepsOrder
  <2> QED BY <2>2, <2>3
<1> QED BY <1>6, <1>7, <1>8, <1>9 DEF Kept, e

(* A chunk is prefilled.                                                   *)
LEMMA ChunkKept ==
  ASSUME NEW r \in Request, NEW q \in Offered[r], NEW e \in Entry, NEW held \in Seq(Nat),
         NEW sent \in Nat, Kept(q, e, held, sent),
         e.kind # "prepare_receive", e.left # <<>>,
         NEW left \in Seq(Data), left # <<>>, NEW seq \in Seq(Nat),
         seq \o IdsOf(left) = held \o IdsOf(e.left)
  PROVE  Kept(q, [e EXCEPT !.status = "alive", !.left = left], seq, sent)
<1> DEFINE f == [e EXCEPT !.status = "alive", !.left = left]
<1>1. /\ f.kind = e.kind /\ f.inputs = e.inputs /\ f.max_tokens = e.max_tokens
      /\ f.status = "alive" /\ f.left = left /\ f.committed_tokens = e.committed_tokens
      /\ f.next_callback_token_pos = e.next_callback_token_pos
  BY DEF Entry
<1> HIDE DEF f
<1>2. KeepsWindow(q, f, seq)
  BY <1>1 DEF Kept, KeepsWindow
<1>3. KeepsBudget(q, f, sent)
  BY <1>1 DEF Kept, KeepsBudget
<1>4. Len(seq) + LengthOf(left) = Len(held) + LengthOf(e.left)
  <2>1. IdsOf(left) \in Seq(Nat) /\ IdsOf(e.left) \in Seq(Nat)
    BY EntryType, IdsType
  <2>2. Len(seq \o IdsOf(left)) = Len(seq) + LengthOf(left)
    BY <2>1 DEF LengthOf
  <2>3. Len(held \o IdsOf(e.left)) = Len(held) + LengthOf(e.left)
    BY <2>1 DEF LengthOf
  <2> QED BY <2>2, <2>3
<1>5. KeepsCount(q, f, seq, sent)
  BY <1>1, <1>4 DEF Kept, KeepsCount
<1>6. KeepsOrder(q, f, seq, sent)
  <2>1. CASE e.kind = "none"
    <3>1. e.committed_tokens = <<>>
      BY <2>1 DEF Kept, KeepsCount
    <3>2. /\ seq \o Pending(f) \o IdsOf(f.left) = seq \o IdsOf(left)
          /\ held \o Pending(e) \o IdsOf(e.left) = held \o IdsOf(e.left)
      BY <1>1, <3>1, NothingPending
    <3> QED BY <1>1, <2>1, <3>2 DEF Kept, KeepsOrder
  <2>2. CASE e.kind # "none"
    BY <1>1, <2>2 DEF KeepsOrder
  <2> QED BY <2>1, <2>2
<1> QED BY <1>2, <1>3, <1>5, <1>6 DEF Kept, f

(* The K/V of its window is received.                                      *)
LEMMA ReceivedKept ==
  ASSUME NEW r \in Request, NEW q \in Offered[r], NEW e \in Entry, NEW held, NEW sent \in Nat,
         Kept(q, e, held, sent), e.kind = "prepare_receive",
         NEW seq \in Seq(Nat), Len(seq) = Window(q),
         seq = SubSeq(IdsOf(e.inputs), 1, Window(q))
  PROVE  Kept(q, [e EXCEPT !.status = "alive", !.left = <<>>], seq, sent)
<1> DEFINE f == [e EXCEPT !.status = "alive", !.left = <<>>]
<1>1. /\ f.kind = e.kind /\ f.inputs = e.inputs /\ f.max_tokens = e.max_tokens
      /\ f.status = "alive" /\ f.left = <<>> /\ f.committed_tokens = e.committed_tokens
      /\ f.next_callback_token_pos = e.next_callback_token_pos
  BY DEF Entry
<1> HIDE DEF f
<1>2. KeepsWindow(q, f, seq)
  BY <1>1 DEF KeepsWindow
<1>3. KeepsBudget(q, f, sent)
  BY <1>1 DEF Kept, KeepsBudget
<1>4. Len(seq) + LengthOf(f.left) = Window(q)
  <2>1. Window(q) \in Int
    BY OfferedFacts
  <2> QED BY <1>1, <2>1, IdsEmpty
<1>5. KeepsCount(q, f, seq, sent)
  BY <1>1, <1>4 DEF Kept, KeepsCount
<1>6. KeepsOrder(q, f, seq, sent)
  <2>1. e.inputs = FromUntokenized(q.inputs) /\ q.kind = "prepare_receive"
    BY DEF Kept, KeepsOrder, KeepsCount
  <2>2. IdsOf(e.inputs) = [i \in 1..LengthOf(q.inputs) |-> i]
    BY <2>1, IdsTokenized, OfferedAssumption
  <2>3. Window(q) \in 0..LengthOf(q.inputs) /\ LengthOf(q.inputs) \in Nat
    BY <2>1, OfferedFacts
  <2>4. seq = [i \in 1..Window(q) |-> i]
    BY <2>2, <2>3, CountPrefix
  <2> QED BY <1>1, <2>1, <2>4 DEF KeepsOrder
<1> QED BY <1>2, <1>3, <1>5, <1>6 DEF Kept, f

(* What follows the K/V awaited, as SplitData leaves it.                   *)
LEMMA AwaitedRest ==
  ASSUME NEW r \in Request, NEW q \in Offered[r], NEW e \in Entry, NEW held, NEW sent,
         Kept(q, e, held, sent), e.kind = "prepare_receive", e.status = "alive",
         CutInOrder(q) \/ Len(SplitData(e.inputs, Window(q)).rhs) = 1
  PROVE  held \o IdsOf(SplitData(e.inputs, Window(q)).rhs) = [i \in 1..LengthOf(q.inputs) |-> i]
<1> DEFINE a == e.inputs
           w == Window(q)
           s == SplitData(a, w)
<1>1. /\ a = FromUntokenized(q.inputs) /\ q.kind = "prepare_receive"
      /\ held = [i \in 1..w |-> i]
  BY DEF Kept, KeepsOrder, KeepsCount
<1>2. q.inputs \in Seq(Data) /\ IdsOf(q.inputs) = [i \in 1..LengthOf(q.inputs) |-> i]
  BY OfferedAssumption
<1>3. /\ a \in Seq(Data) /\ Len(a) = Len(q.inputs)
      /\ IdsOf(a) = [i \in 1..LengthOf(q.inputs) |-> i] /\ LengthOf(a) = LengthOf(q.inputs)
  BY <1>1, <1>2, IdsTokenized DEF LengthOf
<1>4. LengthOf(q.inputs) \in Nat /\ w \in 0..LengthOf(q.inputs)
  BY <1>1, OfferedFacts
<1>5. Unturned(a, w) \/ Len(s.rhs) = 1
  <2>1. CutInOrder(q) => Unturned(a, w)
    BY <1>1, <1>2, <1>3, ReachTokenized DEF CutInOrder, Unturned
  <2> QED BY <2>1
<1>6. IdsOf(s.lhs) \o IdsOf(s.rhs) = IdsOf(a) /\ IdsOf(s.lhs) = SubSeq(IdsOf(a), 1, w)
  BY <1>3, <1>4, <1>5, SplitFacts
<1>7. IdsOf(s.lhs) = held
  BY <1>1, <1>3, <1>4, <1>6, CountPrefix
<1> QED BY <1>3, <1>6, <1>7

(* The generation starts behind the K/V received: with one token left,     *)
(* which is committed, or with more.                                       *)
LEMMA LastTokenKept ==
  ASSUME NEW r \in Request, NEW q \in Offered[r], NEW e \in Entry, NEW held \in Seq(Nat),
         NEW sent \in Nat, Kept(q, e, held, sent), e.kind = "prepare_receive",
         e.status = "alive", e.left = <<>>,
         LengthOf(e.inputs) - Window(q) = 1,
         Len(SplitData(e.inputs, Window(q)).rhs) = 1
  PROVE  Kept(q, [WithLastToken(e, SplitData(e.inputs, Window(q))) EXCEPT !.kind = "none"],
              held, sent)
<1> DEFINE split == SplitData(e.inputs, Window(q))
           f == [WithLastToken(e, split) EXCEPT !.kind = "none"]
<1>1. /\ e.committed_tokens = <<>> /\ e.kind = q.kind /\ sent = 0
      /\ Len(held) + LengthOf(e.left) = Window(q)
  BY DEF Kept, KeepsCount
<1>2. /\ q.kind = "prepare_receive" /\ LengthOf(q.inputs) \in Nat
      /\ Window(q) \in 0..(LengthOf(q.inputs) - 1)
      /\ q.max_tokens \in (Nat \ {0}) \cup {NoLimit}
  BY <1>1, OfferedFacts
<1>3. e.inputs \in Seq(Data) /\ LengthOf(e.inputs) \in Nat
  BY EntryType, IdsType
<1>4. /\ LengthOf(e.inputs) = LengthOf(q.inputs)
      /\ e.max_tokens = q.max_tokens
      /\ q.max_tokens # NoLimit => sent < q.max_tokens
  <2>1. Len(e.committed_tokens) - sent = 0
    BY <1>1
  <2>2. LengthOf(e.inputs) + 0 = LengthOf(q.inputs)
    BY <2>1 DEF Kept, KeepsBudget
  <2>3. e.max_tokens = IF q.max_tokens = NoLimit THEN NoLimit ELSE q.max_tokens + 0
    BY <2>1 DEF Kept, KeepsBudget
  <2>4. q.max_tokens # NoLimit => sent < q.max_tokens
    BY DEF Kept, KeepsBudget
  <2> QED BY <1>2, <1>3, <2>2, <2>3, <2>4 DEF NoLimit
<1>5. /\ split.lhs \in Seq(Data) /\ split.rhs \in Seq(Data)
      /\ LengthOf(split.lhs) = Window(q) /\ LengthOf(split.rhs) = 1
  <2>1. Window(q) \in 0..LengthOf(e.inputs)
    BY <1>2, <1>4
  <2> QED BY <1>3, <2>1, SplitFacts
<1>6. IdsOf(split.rhs) \in Seq(Nat) /\ Len(IdsOf(split.rhs)) = 1
  BY <1>5, IdsType
<1>r. held \o IdsOf(split.rhs) = [i \in 1..LengthOf(q.inputs) |-> i]
  BY AwaitedRest
<1> HIDE DEF split
<1>7. /\ f.kind = "none" /\ f.inputs = split.lhs /\ f.status = "alive" /\ f.left = <<>>
      /\ f.committed_tokens = IdsOf(split.rhs) /\ f.next_callback_token_pos = 1
      /\ f.max_tokens = IF e.max_tokens = NoLimit THEN NoLimit ELSE e.max_tokens + 1
  BY DEF WithLastToken, Entry
<1> HIDE DEF f
<1>8. KeepsWindow(q, f, held)
  BY <1>7 DEF KeepsWindow
<1>9. KeepsBudget(q, f, sent)
  <2>1. Len(f.committed_tokens) = 1 /\ Len(f.committed_tokens) - sent = 1
    BY <1>1, <1>6, <1>7
  <2>2. LengthOf(f.inputs) + 1 = LengthOf(q.inputs)
    BY <1>2, <1>4, <1>5, <1>7
  <2> QED BY <1>4, <1>7, <2>1, <2>2 DEF KeepsBudget
<1>10. KeepsCount(q, f, held, sent)
  <2>1. f.committed_tokens # <<>>
    <3>1. IdsOf(split.rhs) # <<>>
      BY <1>6, OneToken
    <3> QED BY <1>7, <3>1
  <2>2. Len(held) + LengthOf(f.left) + 1 = LengthOf(q.inputs) + sent
    <3>1. LengthOf(e.left) = 0 /\ LengthOf(f.left) = 0
      BY <1>7, IdsEmpty
    <3>2. Len(held) \in Nat
      OBVIOUS
    <3>3. Window(q) + 1 = LengthOf(q.inputs)
      BY <1>2, <1>4
    <3> QED BY <1>1, <1>2, <3>1, <3>2, <3>3
  <2> QED BY <1>2, <1>7, <2>1, <2>2 DEF KeepsCount
<1>11. KeepsOrder(q, f, held, sent)
  <2>1. PICK t : t = IdsOf(split.rhs)[1]
    OBVIOUS
  <2>2. /\ t \in Nat /\ IdsOf(split.rhs) = <<t>> /\ Last(IdsOf(split.rhs)) = t
        /\ IdsOf(split.rhs) # <<>>
    BY <1>6, <2>1, OneToken DEF Last
  <2>3. held \o Pending(f) \o IdsOf(f.left) = held \o <<t>>
    BY <1>7, <2>2, OnePending
  <2>4. LengthOf(q.inputs) + sent = LengthOf(q.inputs)
    BY <1>1, <1>2
  <2> QED BY <1>7, <1>r, <2>2, <2>3, <2>4 DEF KeepsOrder
<1> QED BY <1>8, <1>9, <1>10, <1>11 DEF Kept, f, split

LEMMA MoreTokensKept ==
  ASSUME NEW r \in Request, NEW q \in Offered[r], NEW e \in Entry, NEW held \in Seq(Nat),
         NEW sent \in Nat, Kept(q, e, held, sent), e.kind = "prepare_receive",
         e.status = "alive", e.left = <<>>,
         LengthOf(e.inputs) - Window(q) > 1
  PROVE  Kept(q, [e EXCEPT !.left = SplitData(e.inputs, Window(q)).rhs, !.kind = "none"],
              held, sent)
<1> DEFINE left == SplitData(e.inputs, Window(q)).rhs
           f == [e EXCEPT !.left = left, !.kind = "none"]
<1>1. /\ e.committed_tokens = <<>> /\ e.kind = q.kind /\ sent = 0
      /\ Len(held) + LengthOf(e.left) = Window(q)
  BY DEF Kept, KeepsCount
<1>2. /\ q.kind = "prepare_receive" /\ LengthOf(q.inputs) \in Nat
      /\ Window(q) \in 0..(LengthOf(q.inputs) - 1)
  BY <1>1, OfferedFacts
<1>3. e.inputs \in Seq(Data) /\ LengthOf(e.inputs) \in Nat
  BY EntryType, IdsType
<1>4. LengthOf(e.inputs) = LengthOf(q.inputs)
  <2>1. Len(e.committed_tokens) - sent = 0
    BY <1>1
  <2>2. LengthOf(e.inputs) + 0 = LengthOf(q.inputs)
    BY <2>1 DEF Kept, KeepsBudget
  <2> QED BY <1>2, <1>3, <2>2
<1>5. left \in Seq(Data) /\ LengthOf(left) = LengthOf(e.inputs) - Window(q)
  <2>1. Window(q) \in 0..LengthOf(e.inputs)
    BY <1>2, <1>4
  <2> QED BY <1>3, <2>1, SplitFacts
<1>r. CutInOrder(q) => held \o IdsOf(left) = [i \in 1..LengthOf(q.inputs) |-> i]
  BY AwaitedRest
<1> HIDE DEF left
<1>6. /\ f.kind = "none" /\ f.inputs = e.inputs /\ f.status = "alive" /\ f.left = left
      /\ f.committed_tokens = <<>> /\ f.max_tokens = e.max_tokens
      /\ f.next_callback_token_pos = e.next_callback_token_pos
  BY <1>1 DEF Entry
<1> HIDE DEF f
<1>7. KeepsWindow(q, f, held)
  BY <1>6 DEF KeepsWindow
<1>8. KeepsBudget(q, f, sent)
  BY <1>1, <1>6 DEF Kept, KeepsBudget
<1>9. KeepsCount(q, f, held, sent)
  <2>1. left # <<>>
    BY <1>5, IdsEmpty
  <2>2. Len(held) + LengthOf(f.left) + 0 = LengthOf(q.inputs) + sent
    <3>1. LengthOf(e.left) = 0
      BY IdsEmpty
    <3>2. Len(held) \in Nat
      OBVIOUS
    <3> QED BY <1>1, <1>2, <1>4, <1>5, <1>6, <3>1, <3>2
  <2> QED BY <1>1, <1>2, <1>6, <2>1, <2>2 DEF KeepsCount
<1>10. KeepsOrder(q, f, held, sent)
  <2>1. held \o Pending(f) \o IdsOf(f.left) = held \o IdsOf(left)
    BY <1>6, NothingPending
  <2>2. LengthOf(q.inputs) + sent = LengthOf(q.inputs)
    BY <1>1, <1>2
  <2> QED BY <1>6, <1>r, <2>1, <2>2 DEF KeepsOrder
<1> QED BY <1>7, <1>8, <1>9, <1>10 DEF Kept, f, left

(* A token is sampled and sent.                                            *)
Sampling(e, seq, f) ==
  f = [e EXCEPT !.status = "alive", !.left = <<>>,
                !.committed_tokens = Append(@, Len(seq) + 1)]

LEMMA SampledKept ==
  ASSUME NEW r \in Request, NEW q \in Offered[r], NEW e \in Entry, NEW held,
         NEW sent \in Nat, Kept(q, e, held, sent), e.kind = "none",
         NEW seq \in Seq(Nat), Len(seq) = LengthOf(q.inputs) + sent,
         CutInOrder(q) => seq = [i \in 1..(LengthOf(q.inputs) + sent) |-> i],
         NEW f, Sampling(e, seq, f)
  PROVE  /\ NewTokens(f) = <<LengthOf(q.inputs) + sent + 1>>
         /\ q.max_tokens # NoLimit => sent + 1 <= q.max_tokens
         /\ Exhausted(f) =>
              \/ sent + 1 = q.max_tokens
              \/ LengthOf(q.inputs) + (sent + 1) + 1 >= max_single_sequence_length
         /\ ~Exhausted(f) => Kept(q, CalledBack(f), seq, sent + 1)
<1> DEFINE n == LengthOf(q.inputs)
           c == e.committed_tokens
           t == Len(seq) + 1
           extra == Len(c) - sent
           g == CalledBack(f)
<1>1. /\ c \in Seq(Nat) /\ Len(c) \in Nat /\ n \in Nat /\ LengthOf(e.inputs) \in Nat
      /\ q.max_tokens \in (Nat \ {0}) \cup {NoLimit} /\ max_single_sequence_length \in Nat
  BY EntryType, OfferedFacts, IdsType, SizesAssumption
<1>2. /\ extra \in {0, 1} /\ e.next_callback_token_pos = Len(c)
      /\ LengthOf(e.inputs) + extra = n
      /\ e.max_tokens = IF q.max_tokens = NoLimit THEN NoLimit ELSE q.max_tokens + extra
      /\ q.max_tokens # NoLimit => sent < q.max_tokens
  BY DEF Kept, KeepsBudget
<1>3. q.kind # "remote_send"
  BY DEF Kept, KeepsCount
<1>4. /\ f.kind = "none" /\ f.inputs = e.inputs /\ f.max_tokens = e.max_tokens
      /\ f.status = "alive" /\ f.left = <<>> /\ f.committed_tokens = Append(c, t)
      /\ f.next_callback_token_pos = Len(c)
  BY <1>2 DEF Entry, Sampling
<1>5. t \in Nat /\ t = n + sent + 1
  BY <1>1
<1>6. /\ Len(Append(c, t)) = Len(c) + 1 /\ Append(c, t) \in Seq(Nat)
      /\ Append(c, t)[Len(c) + 1] = t /\ Append(c, t) # <<>>
  <2>1. \A u \in Seq(Nat), x \in Nat : /\ Len(Append(u, x)) = Len(u) + 1
                                      /\ Append(u, x) \in Seq(Nat)
                                      /\ Append(u, x)[Len(u) + 1] = x
    OBVIOUS
  <2>2. \A u \in Seq(Nat), x \in Nat : Append(u, x) # <<>>
    OBVIOUS
  <2> HIDE DEF c, t
  <2> QED BY <1>1, <1>5, <2>1, <2>2
<1>7. NewTokens(f) = <<n + sent + 1>>
  <2>1. NewTokens(f) = SubSeq(Append(c, t), Len(c) + 1, Len(c) + 1)
    BY <1>4, <1>6 DEF NewTokens
  <2>2. SubSeq(Append(c, t), Len(c) + 1, Len(c) + 1) = <<t>>
    <3> DEFINE s == Append(c, t)
               l == Len(c) + 1
    <3> HIDE DEF c, t
    <3>1. s \in Seq(Nat) /\ l \in Nat /\ l = Len(s) /\ l >= 1 /\ s[l] = t
      BY <1>1, <1>6
    <3> HIDE DEF s, l
    <3>2. Len(SubSeq(s, l, l)) = 1 /\ SubSeq(s, l, l)[1] = s[l] /\ SubSeq(s, l, l) \in Seq(Nat)
      BY <3>1
    <3>3. SubSeq(s, l, l) = <<t>>
      <4>1. SubSeq(s, l, l) = <<SubSeq(s, l, l)[1]>>
        BY <3>2, OneToken
      <4> QED BY <3>1, <3>2, <4>1
    <3> QED BY <3>3 DEF s, l
  <2> QED BY <1>5, <2>1, <2>2
<1> HIDE DEF c, t, n
<1>8. Exhausted(f) <=> \/ q.max_tokens # NoLimit /\ sent + 1 >= q.max_tokens
                       \/ n + sent + 1 >= max_single_sequence_length
  <2>1. Len(f.committed_tokens) = sent + extra + 1
    BY <1>1, <1>2, <1>4, <1>6
  <2>2. (f.max_tokens # NoLimit /\ Len(f.committed_tokens) >= f.max_tokens)
          <=> (q.max_tokens # NoLimit /\ sent + 1 >= q.max_tokens)
    BY <1>1, <1>2, <1>4, <2>1 DEF NoLimit
  <2>3. LengthOf(f.inputs) + Len(f.committed_tokens) = n + sent + 1
    <3>1. LengthOf(f.inputs) + extra = n /\ extra \in Nat /\ LengthOf(f.inputs) \in Nat
      BY <1>1, <1>2, <1>4
    <3> HIDE DEF extra
    <3> QED BY <2>1, <3>1
  <2> QED BY <2>2, <2>3 DEF Exhausted
<1>9. q.max_tokens # NoLimit => sent + 1 <= q.max_tokens
  BY <1>1, <1>2
<1>10. Exhausted(f) => (sent + 1 = q.max_tokens \/ n + (sent + 1) + 1 >= max_single_sequence_length)
  BY <1>1, <1>8, <1>9
<1>11. ASSUME ~Exhausted(f) PROVE Kept(q, g, seq, sent + 1)
  <2>1. /\ g.kind = "none" /\ g.inputs = e.inputs /\ g.max_tokens = e.max_tokens
        /\ g.status = "alive" /\ g.left = <<>> /\ g.committed_tokens = Append(c, t)
        /\ g.next_callback_token_pos = Len(c) + 1
    <3>1. f \in Entry
      <4>1. Append(e.committed_tokens, Len(seq) + 1) \in Seq(Nat)
        BY <1>6 DEF c, t
      <4>2. <<>> \in Seq(Data)
        OBVIOUS
      <4> QED BY <4>1, <4>2 DEF Entry, Sampling
    <3>2. /\ g.kind = f.kind /\ g.inputs = f.inputs /\ g.max_tokens = f.max_tokens
          /\ g.status = f.status /\ g.left = f.left /\ g.committed_tokens = f.committed_tokens
          /\ g.next_callback_token_pos = Len(f.committed_tokens)
      BY <3>1, CalledBackFacts
    <3> HIDE DEF g
    <3> QED BY <1>4, <1>6, <3>2
  <2> HIDE DEF g
  <2>2. KeepsWindow(q, g, seq)
    BY <2>1 DEF KeepsWindow
  <2>3. KeepsBudget(q, g, sent + 1)
    <3>1. Len(g.committed_tokens) = Len(c) + 1 /\ Len(g.committed_tokens) - (sent + 1) = extra
      BY <1>1, <1>6, <2>1
    <3>2. q.max_tokens # NoLimit => sent + 1 < q.max_tokens
      BY <1>1, <1>8, <1>11
    <3> QED BY <1>2, <2>1, <3>1, <3>2 DEF KeepsBudget, n
  <2>4. KeepsCount(q, g, seq, sent + 1)
    <3>1. g.committed_tokens # <<>>
      BY <1>6, <2>1
    <3>2. Len(seq) + LengthOf(g.left) + 1 = n + (sent + 1)
      <4>1. LengthOf(g.left) = 0
        BY <2>1, IdsEmpty
      <4> QED BY <1>1, <4>1 DEF n
    <3> QED BY <1>3, <2>1, <3>1, <3>2 DEF KeepsCount, n
  <2>5. KeepsOrder(q, g, seq, sent + 1)
    <3>1. g.committed_tokens # <<>> /\ t = Last(g.committed_tokens) /\ t \in Nat
      BY <1>1, <1>5, <1>6, <2>1 DEF Last
    <3>2. seq \o Pending(g) \o IdsOf(g.left) = seq \o <<t>>
      BY <2>1, <3>1, OnePending
    <3>3. CutInOrder(q) => seq \o <<t>> = [i \in 1..(n + sent + 1) |-> i]
      <4>1. n + sent \in Nat /\ t = (n + sent) + 1
        BY <1>1, <1>5
      <4> QED BY <4>1, CountAppend DEF n
    <3>4. n + (sent + 1) = n + sent + 1
      BY <1>1
    <3> QED BY <2>1, <3>2, <3>3, <3>4 DEF KeepsOrder, n
  <2> QED BY <2>2, <2>3, <2>4, <2>5 DEF Kept
<1> QED BY <1>7, <1>9, <1>10, <1>11 DEF n

-----------------------------------------------------------------------------
(* Every operation keeps all of it.                                        *)

LEMMA KeptFacts ==
  ASSUME Inductive, NEW r \in Live
  PROVE  /\ r \in Request /\ r \in DOMAIN submission /\ submission[r] \in Offered[r]
         /\ entry[r] \in Entry /\ Held(r) \in Seq(Nat)
         /\ streamed[r] \in Seq(Nat) /\ Len(streamed[r]) \in Nat
         /\ Kept(submission[r], entry[r], Held(r), Len(streamed[r]))
         /\ ended[r] = <<>>
<1>1. /\ r \in Request /\ r \in DOMAIN submission /\ submission[r] \in Offered[r]
      /\ entry[r] \in Entry /\ Held(r) \in Seq(Nat) /\ streamed[r] \in Seq(Nat)
  BY LiveFacts DEF Inductive
<1>2. Kept(submission[r], entry[r], Held(r), Len(streamed[r])) /\ ended[r] = <<>>
  BY DEF Inductive, LiveKept, Unanswered
<1>3. Len(streamed[r]) \in Nat
  BY <1>1
<1> QED BY <1>1, <1>2, <1>3

LEMMA BudgetFacts ==
  StreamedInBudget <=> \A r \in DOMAIN submission : InBudget(submission[r], streamed[r], ended[r])
BY DEF StreamedInBudget, InBudget

(* A step that submits nothing: what has to hold of the requests that were *)
(* live.                                                                   *)
LEMMA Recombine ==
  ASSUME Inductive, Structure', submission' = submission, Live' \subseteq Live,
         \A r \in Live' :
           /\ Kept(submission[r], entry'[r], Held(r)', Len(streamed'[r]))
           /\ ended'[r] = ended[r],
         \A r \in Live : InBudget(submission[r], streamed'[r], ended'[r]),
         \A r \in Request \ Live : streamed'[r] = streamed[r] /\ ended'[r] = ended[r],
         \A r \in DOMAIN handed' :
           r \in DOMAIN submission /\ handed'[r] = [i \in 1..Window(submission[r]) |-> i]
  PROVE  Inductive'
<1>1. Structure /\ Unanswered /\ LiveKept /\ StreamedInBudget
  BY DEF Inductive
<1>2. DOMAIN submission \subseteq Request /\ Live \subseteq DOMAIN submission
  BY <1>1 DEF Structure, TypeOK
<1>3. Unanswered'
  <2>1. \A r \in Live' : ended'[r] = <<>>
    BY <1>1 DEF Unanswered
  <2>2. \A r \in Request \ DOMAIN submission : ended'[r] = <<>> /\ streamed'[r] = <<>>
    BY <1>1, <1>2 DEF Unanswered
  <2> QED BY <2>1, <2>2 DEF Unanswered
<1>4. LiveKept'
  BY DEF LiveKept
<1>5. StreamedInBudget'
  <2>1. ASSUME NEW r \in DOMAIN submission
        PROVE  InBudget(submission[r], streamed'[r], ended'[r])
    <3>1. CASE r \in Live
      BY <3>1
    <3>2. CASE r \notin Live
      <4>1. streamed'[r] = streamed[r] /\ ended'[r] = ended[r]
        BY <1>2, <3>2
      <4> QED BY <1>1, <4>1, BudgetFacts
    <3> QED BY <3>1, <3>2
  <2> QED BY <2>1 DEF StreamedInBudget, InBudget
<1>6. HandoverComplete'
  BY DEF HandoverComplete, Window
<1> QED BY <1>3, <1>4, <1>5, <1>6 DEF Inductive

(* What does not change keeps what it was.                                 *)
LEMMA QuietFacts ==
  ASSUME Inductive
  PROVE  /\ \A r \in Live : InBudget(submission[r], streamed[r], ended[r])
         /\ \A r \in DOMAIN handed :
              r \in DOMAIN submission /\ handed[r] = [i \in 1..Window(submission[r]) |-> i]
<1>1. \A r \in Live : InBudget(submission[r], streamed[r], ended[r])
  BY BudgetFacts, KeptFacts DEF Inductive
<1>2. \A r \in DOMAIN handed :
        r \in DOMAIN submission /\ handed[r] = [i \in 1..Window(submission[r]) |-> i]
  BY DEF Inductive, HandoverComplete, Window, Structure, TypeOK
<1> QED BY <1>1, <1>2

(* A request ends for another reason than its length.                      *)
LEMMA OtherEnd ==
  ASSUME NEW q, NEW tokens, NEW reason, reason # "length", InBudget(q, tokens, <<>>)
  PROVE  InBudget(q, tokens, Append(<<>>, reason))
<1>1. Append(<<>>, reason) # <<"length">>
  <2>1. Append(<<>>, reason) = <<reason>>
    OBVIOUS
  <2>2. <<reason>>[1] = reason /\ <<"length">>[1] = "length"
    OBVIOUS
  <2> QED BY <2>1, <2>2
<1> QED BY <1>1 DEF InBudget

LEMMA OneMoved ==
  ASSUME Inductive, NEW r \in Live, Structure', Live' = Live, Untouched(Live \ {r}),
         UNCHANGED <<submission, streamed, ended, handed>>,
         Kept(submission[r], entry'[r], Held(r)', Len(streamed[r]))
  PROVE  Inductive'
<1>1. ASSUME NEW s \in Live'
      PROVE  /\ Kept(submission[s], entry'[s], Held(s)', Len(streamed'[s]))
             /\ ended'[s] = ended[s]
  <2>1. CASE s = r
    BY <2>1
  <2>2. CASE s # r
    <3>1. entry'[s] = entry[s] /\ Held(s)' = Held(s)
      BY <2>2 DEF Untouched
    <3>2. Kept(submission[s], entry[s], Held(s), Len(streamed[s]))
      BY KeptFacts
    <3> QED BY <3>1, <3>2
  <2> QED BY <2>1, <2>2
<1>2. /\ \A s \in Live : InBudget(submission[s], streamed'[s], ended'[s])
      /\ \A s \in DOMAIN handed' :
           s \in DOMAIN submission /\ handed'[s] = [i \in 1..Window(submission[s]) |-> i]
  BY QuietFacts
<1> QED BY <1>1, <1>2, Recombine

(* Final usages that differ.                                               *)
LEMMA Usages ==
  /\ <<>> # <<"length">> /\ <<>> \o <<"stop">> # <<"length">>
<1>1. DOMAIN <<>> = {} /\ DOMAIN <<"length">> = {1}
  OBVIOUS
<1>2. <<>> # <<"length">>
  BY <1>1
<1>3. <<"stop">>[1] = "stop" /\ <<"length">>[1] = "length"
  OBVIOUS
<1>4. <<"stop">> # <<"length">>
  BY <1>3
<1> DEFINE u == <<"stop">>
<1>5. u \in Seq({"stop"})
  OBVIOUS
<1>6. \A w \in Seq({"stop"}) : <<>> \o w = w
  OBVIOUS
<1> HIDE DEF u
<1>7. <<>> \o u = u
  BY <1>5, <1>6
<1> QED BY <1>2, <1>4, <1>7 DEF u

(* Tokens are sampled.                                                     *)
InOrder(q, seq, sent) ==
  CutInOrder(q) => seq = [i \in 1..(LengthOf(q.inputs) + sent) |-> i]

LEMMA SampledStep ==
  ASSUME Inductive, Structure', NEW sampled, NEW entries, NEW seqs,
         Outcome(sampled, entries, seqs), sampled \subseteq Live,
         \A s \in sampled :
           LET seq == HeldIn(entries, seqs, s) IN
           /\ entry[s].kind = "none" /\ seq \in Seq(Nat)
           /\ Len(seq) = LengthOf(submission[s].inputs) + Len(streamed[s])
           /\ InOrder(submission[s], seq, Len(streamed[s]))
           /\ Sampling(entry[s], seq, entries[s]),
         \A s \in Live \ sampled :
           Kept(submission[s], entries[s], HeldIn(entries, seqs, s), Len(streamed[s]))
  PROVE  Inductive'
<1>1. PICK finished \in SUBSET sampled :
        /\ Live' = Live \ finished
        /\ \A r \in Live' :
             /\ entry'[r] = IF r \in sampled THEN CalledBack(entries[r]) ELSE entries[r]
             /\ Held(r)' = HeldIn(entries, seqs, r)
        /\ \A r \in sampled \ finished : ~Exhausted(entries[r])
        /\ \A r \in finished :
             ended'[r] = ended[r] \o (IF Exhausted(entries[r]) THEN <<"length">> ELSE <<"stop">>)
        /\ \A r \in Request \ finished : ended'[r] = ended[r]
  BY Zenon DEF Outcome
<1>2. /\ submission' = submission /\ handed' = handed
      /\ \A r \in Request :
           streamed'[r] = streamed[r] \o (IF r \in sampled THEN NewTokens(entries[r]) ELSE <<>>)
  BY DEF Outcome
<1>3. ASSUME NEW r \in Live
      PROVE  /\ streamed[r] \in Seq(Nat) /\ Len(streamed[r]) \in Nat /\ r \in Request
             /\ LengthOf(submission[r].inputs) \in Nat
             /\ InBudget(submission[r], streamed[r], ended[r]) /\ ended[r] = <<>>
             /\ submission[r].max_tokens \in (Nat \ {0}) \cup {NoLimit}
  BY KeptFacts, OfferedFacts, QuietFacts
<1>4. ASSUME NEW r \in sampled
      PROVE  LET q == submission[r]
                 sent == Len(streamed[r])
                 f == entries[r] IN
             /\ NewTokens(f) = <<LengthOf(q.inputs) + sent + 1>>
             /\ q.max_tokens # NoLimit => sent + 1 <= q.max_tokens
             /\ Exhausted(f) =>
                  \/ sent + 1 = q.max_tokens
                  \/ LengthOf(q.inputs) + (sent + 1) + 1 >= max_single_sequence_length
             /\ ~Exhausted(f) => Kept(q, CalledBack(f), HeldIn(entries, seqs, r), sent + 1)
  <2>1. r \in Live
    OBVIOUS
  <2>2. /\ r \in Request /\ submission[r] \in Offered[r] /\ entry[r] \in Entry
        /\ Len(streamed[r]) \in Nat
        /\ Kept(submission[r], entry[r], Held(r), Len(streamed[r]))
    BY <2>1, KeptFacts
  <2>3. PICK seq, f, q, e, held, sent :
          /\ seq = HeldIn(entries, seqs, r) /\ f = entries[r] /\ q = submission[r]
          /\ e = entry[r] /\ held = Held(r) /\ sent = Len(streamed[r])
    OBVIOUS
  <2>4. /\ e.kind = "none" /\ seq \in Seq(Nat) /\ Len(seq) = LengthOf(q.inputs) + sent
        /\ Sampling(e, seq, f)
    BY <2>3
  <2>o. CutInOrder(q) => seq = [i \in 1..(LengthOf(q.inputs) + sent) |-> i]
    BY <2>3 DEF InOrder
  <2>5. q \in Offered[r] /\ e \in Entry /\ sent \in Nat /\ Kept(q, e, held, sent)
    BY <2>2, <2>3
  <2>6. /\ NewTokens(f) = <<LengthOf(q.inputs) + sent + 1>>
        /\ q.max_tokens # NoLimit => sent + 1 <= q.max_tokens
        /\ Exhausted(f) =>
             \/ sent + 1 = q.max_tokens
             \/ LengthOf(q.inputs) + (sent + 1) + 1 >= max_single_sequence_length
        /\ ~Exhausted(f) => Kept(q, CalledBack(f), seq, sent + 1)
    BY <2>2, <2>4, <2>o, <2>5, SampledKept
  <2> QED BY <2>3, <2>6
<1>5. ASSUME NEW r \in sampled
      PROVE  LET old == streamed[r]
                 new == streamed'[r] IN
             /\ Len(old) \in Nat /\ DOMAIN old = 1..Len(old)
             /\ Len(new) = Len(old) + 1 /\ DOMAIN new = 1..Len(new)
             /\ new[Len(old) + 1] = LengthOf(submission[r].inputs) + (Len(old) + 1)
             /\ \A i \in 1..Len(old) : new[i] = old[i]
  <2>1. r \in Live
    OBVIOUS
  <2>2. PICK old, n, t : /\ old = streamed[r] /\ n = LengthOf(submission[r].inputs)
                         /\ t = n + Len(old) + 1
    OBVIOUS
  <2>3. old \in Seq(Nat) /\ Len(old) \in Nat /\ n \in Nat
    BY <1>3, <2>1, <2>2
  <2>4. t \in Nat /\ t = n + (Len(old) + 1)
    <3>1. PICK l : l = Len(old)
      OBVIOUS
    <3>2. l \in Nat /\ n \in Nat /\ t = n + l + 1
      BY <2>2, <2>3, <3>1
    <3>3. t \in Nat /\ t = n + (l + 1)
      BY <3>2
    <3> QED BY <3>1, <3>3
  <2>5. streamed'[r] = old \o <<t>>
    <3>1. NewTokens(entries[r]) = <<n + Len(old) + 1>>
      BY <1>4, <2>2
    <3>2. streamed'[r] = streamed[r] \o NewTokens(entries[r])
      BY <1>2, <1>3, <2>1
    <3> QED BY <2>2, <3>1, <3>2
  <2>6. LET v == old \o <<t>> IN
        /\ v \in Seq(Nat) /\ Len(old) \in Nat /\ Len(v) = Len(old) + 1
        /\ DOMAIN v = 1..Len(v) /\ DOMAIN old = 1..Len(old)
        /\ v[Len(old) + 1] = t /\ \A i \in 1..Len(old) : v[i] = old[i]
    BY <2>3, <2>4, TokenAdded
  <2> DEFINE v == old \o <<t>>
  <2>7. /\ Len(v) = Len(old) + 1
        /\ DOMAIN v = 1..Len(v) /\ DOMAIN old = 1..Len(old)
        /\ v[Len(old) + 1] = t /\ \A i \in 1..Len(old) : v[i] = old[i]
    BY <2>6
  <2>8. streamed'[r] = v
    BY <2>5
  <2> HIDE DEF v
  <2> QED BY <2>2, <2>3, <2>4, <2>7, <2>8
<1>6. ASSUME NEW r \in Live \ sampled PROVE streamed'[r] = streamed[r]
  <2>1. streamed'[r] = streamed[r] \o <<>>
    BY <1>2, <1>3
  <2>2. streamed[r] \in Seq(Nat)
    BY <1>3
  <2> QED BY <2>1, <2>2, NothingAdded
<1>7. ASSUME NEW r \in Live'
      PROVE  /\ Kept(submission[r], entry'[r], Held(r)', Len(streamed'[r]))
             /\ ended'[r] = ended[r]
  <2>1. r \in Live /\ r \notin finished
    BY <1>1
  <2>2. ended'[r] = ended[r]
    BY <1>1, <1>3, <2>1
  <2>3. CASE r \in sampled
    <3>1. entry'[r] = CalledBack(entries[r]) /\ Held(r)' = HeldIn(entries, seqs, r)
      BY <1>1, <2>3
    <3>2. ~Exhausted(entries[r])
      BY <1>1, <2>1, <2>3
    <3>3. Kept(submission[r], CalledBack(entries[r]), HeldIn(entries, seqs, r), Len(streamed[r]) + 1)
      BY <1>4, <2>3, <3>2
    <3>4. Len(streamed'[r]) = Len(streamed[r]) + 1
      BY <1>5, <2>3
    <3> QED BY <2>2, <3>1, <3>3, <3>4
  <2>4. CASE r \notin sampled
    <3>1. entry'[r] = entries[r] /\ Held(r)' = HeldIn(entries, seqs, r)
      BY <1>1, <2>4
    <3>2. streamed'[r] = streamed[r]
      BY <1>6, <2>1, <2>4
    <3> QED BY <2>1, <2>2, <2>4, <3>1, <3>2
  <2> QED BY <2>3, <2>4
<1>8. ASSUME NEW r \in Live
      PROVE  InBudget(submission[r], streamed'[r], ended'[r])
  <2>1. CASE r \in sampled
    <3> DEFINE q == submission[r]
               n == LengthOf(q.inputs)
               old == streamed[r]
               new == streamed'[r]
    <3>1. /\ Len(old) \in Nat /\ DOMAIN old = 1..Len(old)
          /\ Len(new) = Len(old) + 1 /\ DOMAIN new = 1..Len(new)
          /\ new[Len(old) + 1] = n + (Len(old) + 1)
          /\ \A i \in 1..Len(old) : new[i] = old[i]
      BY <1>5, <2>1
    <3>2. \A i \in DOMAIN old : old[i] = n + i
      BY <1>3 DEF InBudget
    <3> HIDE DEF n, old, new
    <3>3. \A i \in DOMAIN new : new[i] = n + i
      <4> SUFFICES ASSUME NEW i \in 1..(Len(old) + 1) PROVE new[i] = n + i
        BY <3>1
      <4>3. i = Len(old) + 1 \/ i \in 1..Len(old)
        <5>1. Len(old) \in Nat
          BY <3>1
        <5> QED BY <5>1
      <4>1. CASE i = Len(old) + 1
        BY <3>1, <4>1
      <4>2. CASE i \in 1..Len(old)
        BY <3>1, <3>2, <4>2
      <4> QED BY <4>1, <4>2, <4>3
    <3> USE DEF n, old, new
    <3>4. q.max_tokens # NoLimit => Len(new) <= q.max_tokens
      BY <1>4, <2>1, <3>1
    <3>5. ended'[r] = <<"length">> => Exhausted(entries[r])
      <4>1. CASE r \in finished
        <5>1. ended'[r] = <<>> \o (IF Exhausted(entries[r]) THEN <<"length">> ELSE <<"stop">>)
          BY <1>1, <1>3, <4>1
        <5> QED BY <5>1, Usages, Zenon
      <4>2. CASE r \notin finished
        <5>1. ended'[r] = <<>>
          BY <1>1, <1>3, <4>2
        <5> QED BY <5>1, Usages, Zenon
      <4> QED BY <4>1, <4>2
    <3>6. ended'[r] = <<"length">> =>
            (Len(new) = q.max_tokens \/ n + Len(new) + 1 >= max_single_sequence_length)
      <4>1. Exhausted(entries[r]) =>
              (Len(old) + 1 = q.max_tokens \/ n + (Len(old) + 1) + 1 >= max_single_sequence_length)
        BY <1>4, <2>1
      <4> HIDE DEF n, old, new
      <4> QED BY <3>1, <3>5, <4>1
    <3> QED BY <3>3, <3>4, <3>6 DEF InBudget
  <2>2. CASE r \notin sampled
    <3>1. r \in Request \ finished
      BY <1>3, <2>2
    <3>2. streamed'[r] = streamed[r] /\ ended'[r] = ended[r]
      BY <1>1, <1>6, <2>2, <3>1
    <3> QED BY <1>3, <3>2
  <2> QED BY <2>1, <2>2
<1>9. ASSUME NEW r \in Request \ Live
      PROVE  streamed'[r] = streamed[r] /\ ended'[r] = ended[r]
  <2>1. r \notin sampled /\ r \notin finished
    OBVIOUS
  <2>2. ended'[r] = ended[r]
    BY <1>1, <2>1
  <2>3. streamed[r] \in Seq(Nat)
    BY DEF Inductive, Structure, TypeOK
  <2>4. streamed'[r] = streamed[r] \o <<>>
    BY <1>2, <2>1
  <2> QED BY <2>2, <2>3, <2>4, NothingAdded
<1>10. \A s \in DOMAIN handed' :
         s \in DOMAIN submission /\ handed'[s] = [i \in 1..Window(submission[s]) |-> i]
  BY <1>2, QuietFacts
<1>11. Live' \subseteq Live
  BY <1>1
<1> QED BY <1>2, <1>7, <1>8, <1>9, <1>10, <1>11, Recombine

(* AddRequest.                                                             *)
LEMMA AddRequestStep ==
  ASSUME Inductive, NEW r \in Request, AddRequest(r)
  PROVE  Inductive'
<1>1. Structure /\ Unanswered /\ LiveKept /\ StreamedInBudget
  BY DEF Inductive
<1>2. Structure' /\ Untouched(Live) /\ streamed' = streamed /\ handed' = handed
  BY <1>1, AddRequestStructure
<1>3. PICK q \in Offered[r] :
        /\ Submitted(r, q)
        /\ \/ /\ LengthOf(q.inputs) >= max_single_sequence_length
              /\ ended' = [ended EXCEPT ![r] = Append(@, "length")]
              /\ Live' = Live
           \/ /\ q.kind = "remote_send" =>
                   RemoteSendAllowed(q, FromUntokenized(q.inputs))
              /\ Live' = Live \cup {r} /\ ended' = ended
              /\ entry'[r] = NewEntry(q, NewId) /\ Held(r)' = <<>>
  BY <1>1, AddRequestStructure
<1>4. /\ r \notin DOMAIN submission /\ DOMAIN submission' = DOMAIN submission \cup {r}
      /\ submission'[r] = q /\ \A s \in DOMAIN submission : submission'[s] = submission[s]
  BY <1>3 DEF Submitted
<1>5. /\ Live \subseteq DOMAIN submission /\ DOMAIN submission \subseteq Request
      /\ ended \in [Request -> Seq(Reasons)] /\ DOMAIN handed \subseteq DOMAIN submission
  BY <1>1 DEF Structure, TypeOK
<1>6. ended[r] = <<>> /\ streamed[r] = <<>>
  BY <1>1, <1>4 DEF Unanswered
<1>7. \A s \in Request : s # r => ended'[s] = ended[s]
  BY <1>3, <1>5
<1>8. \A s \in Live :
        Kept(submission[s], entry[s], Held(s), Len(streamed[s])) /\ ended[s] = <<>>
  BY KeptFacts
<1>9. ASSUME NEW s \in Live
      PROVE  /\ Kept(submission'[s], entry'[s], Held(s)', Len(streamed'[s]))
             /\ ended'[s] = <<>>
  <2>1. s # r /\ submission'[s] = submission[s] /\ s \in Request
    BY <1>4, <1>5
  <2>2. entry'[s] = entry[s] /\ Held(s)' = Held(s)
    BY <1>2 DEF Untouched
  <2> QED BY <1>2, <1>7, <1>8, <2>1, <2>2
<1>10. \A s \in Request \ DOMAIN submission' : ended'[s] = <<>> /\ streamed'[s] = <<>>
  BY <1>1, <1>2, <1>4, <1>7 DEF Unanswered
<1>11. HandoverComplete'
  <2>1. \A s \in DOMAIN handed :
          s \in DOMAIN submission /\ handed[s] = [i \in 1..Window(submission[s]) |-> i]
    BY QuietFacts
  <2>2. ASSUME NEW s \in DOMAIN handed
        PROVE  handed'[s] = [i \in 1..Window(submission'[s]) |-> i]
    BY <1>2, <1>4, <2>1
  <2> QED BY <1>2, <2>2 DEF HandoverComplete, Window
<1>12. ASSUME NEW s \in DOMAIN submission
       PROVE  InBudget(submission'[s], streamed'[s], ended'[s])
  <2>1. s # r /\ s \in Request /\ submission'[s] = submission[s]
    BY <1>4, <1>5
  <2>2. InBudget(submission[s], streamed[s], ended[s])
    BY <1>1, BudgetFacts
  <2> QED BY <1>2, <1>7, <2>1, <2>2
<1>13. InBudget(q, <<>>, <<>>)
       /\ (LengthOf(q.inputs) >= max_single_sequence_length => InBudget(q, <<>>, <<"length">>))
  <2>1. q.max_tokens \in (Nat \ {0}) \cup {NoLimit} /\ LengthOf(q.inputs) \in Nat
    BY OfferedFacts
  <2>2. Len(<<>>) = 0 /\ DOMAIN <<>> = {}
    OBVIOUS
  <2>3. max_single_sequence_length \in Nat
    BY SizesAssumption
  <2>4. (\A i \in DOMAIN <<>> : <<>>[i] = LengthOf(q.inputs) + i)
        /\ (q.max_tokens # NoLimit => Len(<<>>) <= q.max_tokens)
    BY <2>1, <2>2 DEF NoLimit
  <2>5. LengthOf(q.inputs) >= max_single_sequence_length =>
          LengthOf(q.inputs) + Len(<<>>) + 1 >= max_single_sequence_length
    BY <2>1, <2>2, <2>3
  <2>6. <<>> # <<"length">>
    BY Usages
  <2> QED BY <2>4, <2>5, <2>6, Zenon DEF InBudget
<1>14. CASE /\ LengthOf(q.inputs) >= max_single_sequence_length
            /\ ended' = [ended EXCEPT ![r] = Append(@, "length")]
            /\ Live' = Live
  <2>1. ended'[r] = <<"length">>
    BY <1>5, <1>6, <1>14
  <2>2. InBudget(submission'[r], streamed'[r], ended'[r])
    BY <1>2, <1>4, <1>6, <1>13, <1>14, <2>1
  <2>3. StreamedInBudget'
    BY <1>4, <1>12, <2>2 DEF StreamedInBudget, InBudget
  <2>4. LiveKept' /\ Unanswered'
    BY <1>9, <1>10, <1>14 DEF LiveKept, Unanswered
  <2> QED BY <1>2, <1>11, <2>3, <2>4 DEF Inductive
<1>15. CASE /\ q.kind = "remote_send" => RemoteSendAllowed(q, FromUntokenized(q.inputs))
            /\ Live' = Live \cup {r} /\ ended' = ended
            /\ entry'[r] = NewEntry(q, NewId) /\ Held(r)' = <<>>
  <2>1. NewId \in Nat
    BY <1>1, FreshId DEF Structure, TypeOK
  <2>2. Kept(q, NewEntry(q, NewId), <<>>, 0)
    BY <1>15, <2>1, NewKept
  <2>3. Kept(submission'[r], entry'[r], Held(r)', Len(streamed'[r])) /\ ended'[r] = <<>>
    <3>1. Len(streamed'[r]) = 0
      BY <1>2, <1>6
    <3> QED BY <1>4, <1>6, <1>15, <2>2, <3>1
  <2>4. InBudget(submission'[r], streamed'[r], ended'[r])
    BY <1>2, <1>4, <1>6, <1>13, <1>15
  <2>5. StreamedInBudget'
    BY <1>4, <1>12, <2>4 DEF StreamedInBudget, InBudget
  <2>6. LiveKept' /\ Unanswered'
    BY <1>9, <1>10, <1>15, <2>3 DEF LiveKept, Unanswered
  <2> QED BY <1>2, <1>11, <2>5, <2>6 DEF Inductive
<1> QED BY <1>3, <1>14, <1>15

(* kStartGeneration.                                                       *)
LEMMA StartGenerationStep ==
  ASSUME Inductive, NEW r \in Request, StartGeneration(r)
  PROVE  Inductive'
<1>1. Structure /\ LiveKept
  BY DEF Inductive
<1>2. PICK e, q, split, held, sent :
        /\ e = entry[r] /\ q = submission[r] /\ split = SplitData(e.inputs, Window(q))
        /\ held = Held(r) /\ sent = Len(streamed[r])
  OBVIOUS
<1>3. /\ Structure' /\ Live' = Live /\ r \in Live /\ Untouched(Live \ {r})
      /\ Held(r)' = Held(r)
      /\ e.kind = "prepare_receive" /\ e.status = "alive" /\ e.left = <<>>
      /\ UNCHANGED <<submission, streamed, ended, handed>>
  BY <1>1, <1>2, StartGenerationStructure
<1>4. Wrapped(submission[r].end, LengthOf(entry[r].inputs)) = Window(q)
  BY <1>1, <1>2, <1>3, AwaitedFacts
<1>5. \/ /\ LengthOf(e.inputs) - Window(q) = 1 /\ Len(split.rhs) = 1
         /\ entry'[r] = [WithLastToken(e, split) EXCEPT !.kind = "none"]
      \/ /\ LengthOf(e.inputs) - Window(q) > 1
         /\ entry'[r] = [e EXCEPT !.left = split.rhs, !.kind = "none"]
  <2>1. LET d     == entry[r]
            begin == Wrapped(submission[r].end, LengthOf(d.inputs))
            s     == SplitData(d.inputs, begin) IN
        \/ /\ LengthOf(d.inputs) - begin = 1 /\ Len(s.rhs) = 1
           /\ entry'[r] = [WithLastToken(d, s) EXCEPT !.kind = "none"]
        \/ /\ LengthOf(d.inputs) - begin > 1
           /\ entry'[r] = [d EXCEPT !.left = s.rhs, !.kind = "none"]
    BY <1>1, StartGenerationStructure, Zenon
  <2> QED BY <1>2, <1>4, <2>1, Zenon
<1>6. /\ q \in Offered[r] /\ e \in Entry /\ held \in Seq(Nat) /\ sent \in Nat
      /\ Kept(q, e, held, sent)
  BY <1>2, <1>3, KeptFacts
<1>7. Kept(q, entry'[r], held, sent)
  <2>1. CASE /\ LengthOf(e.inputs) - Window(q) = 1 /\ Len(split.rhs) = 1
             /\ entry'[r] = [WithLastToken(e, split) EXCEPT !.kind = "none"]
    <3>1. Kept(q, [WithLastToken(e, SplitData(e.inputs, Window(q))) EXCEPT !.kind = "none"],
               held, sent)
      <4>1. Len(SplitData(e.inputs, Window(q)).rhs) = 1
        BY <1>2, <2>1
      <4> QED BY <1>3, <1>6, <2>1, <4>1, LastTokenKept
    <3> QED BY <1>2, <2>1, <3>1
  <2>2. CASE /\ LengthOf(e.inputs) - Window(q) > 1
             /\ entry'[r] = [e EXCEPT !.left = split.rhs, !.kind = "none"]
    <3>1. Kept(q, [e EXCEPT !.left = SplitData(e.inputs, Window(q)).rhs, !.kind = "none"],
               held, sent)
      BY <1>3, <1>6, <2>2, MoreTokensKept
    <3> QED BY <1>2, <2>2, <3>1
  <2> QED BY <1>5, <2>1, <2>2
<1>8. Kept(submission[r], entry'[r], Held(r)', Len(streamed[r]))
  BY <1>2, <1>3, <1>7
<1> QED BY <1>3, <1>8, OneMoved

(* DisaggPrepareReceive.                                                   *)
LEMMA PrepareReceiveStep ==
  ASSUME Inductive, NEW r \in Live, PrepareReceive(r)
  PROVE  Inductive'
<1>1. Structure /\ LiveKept
  BY DEF Inductive
<1>2. PICK e, q, held, sent, seq :
        /\ e = entry[r] /\ q = submission[r] /\ held = Held(r) /\ sent = Len(streamed[r])
        /\ seq = SubSeq(IdsOf(e.inputs), 1, Window(q))
  OBVIOUS
<1>3. /\ Structure' /\ Live' = Live /\ Untouched(Live \ {r})
      /\ e.kind = "prepare_receive"
      /\ entry'[r] = [e EXCEPT !.status = "alive", !.left = <<>>]
      /\ UNCHANGED <<submission, streamed, ended, handed>>
  BY <1>1, <1>2, PrepareReceiveStructure
<1>4. /\ Wrapped(submission[r].end, LengthOf(entry[r].inputs)) = Window(q)
      /\ Window(q) \in 0..(LengthOf(e.inputs) - 1)
  BY <1>1, <1>2, <1>3, AwaitedFacts
<1>5. Held(r)' = seq
  <2>1. Held(r)' = SubSeq(IdsOf(entry[r].inputs), 1,
                          Wrapped(submission[r].end, LengthOf(entry[r].inputs)))
    BY <1>1, PrepareReceiveStructure
  <2> QED BY <1>2, <1>4, <2>1
<1>6. /\ q \in Offered[r] /\ e \in Entry /\ sent \in Nat /\ r \in Request
      /\ Kept(q, e, held, sent)
  BY <1>2, KeptFacts
<1>7. seq \in Seq(Nat) /\ Len(seq) = Window(q)
  <2>1. IdsOf(e.inputs) \in Seq(Nat) /\ LengthOf(e.inputs) = Len(IdsOf(e.inputs))
        /\ LengthOf(e.inputs) \in Nat
    BY <1>6, EntryType, IdsType
  <2>2. Window(q) \in Nat /\ Window(q) <= Len(IdsOf(e.inputs))
    BY <1>4, <2>1
  <2>3. \A u \in Seq(Nat), n \in Nat :
          n <= Len(u) => SubSeq(u, 1, n) \in Seq(Nat) /\ Len(SubSeq(u, 1, n)) = n
    OBVIOUS
  <2> QED BY <1>2, <2>1, <2>2, <2>3
<1>8. Kept(q, [e EXCEPT !.status = "alive", !.left = <<>>], seq, sent)
  BY <1>2, <1>3, <1>6, <1>7, ReceivedKept
<1>9. Kept(submission[r], entry'[r], Held(r)', Len(streamed[r]))
  BY <1>2, <1>3, <1>5, <1>8
<1> QED BY <1>3, <1>9, OneMoved

(* A request ends for a reason that is not its length.                     *)
LEMMA EndedStep ==
  ASSUME Inductive, Structure', NEW r \in Live, NEW reason, reason # "length",
         Live' = Live \ {r}, Untouched(Live \ {r}),
         ended' = [ended EXCEPT ![r] = Append(@, reason)],
         UNCHANGED <<submission, streamed>>,
         \A s \in DOMAIN handed' :
           s \in DOMAIN submission /\ handed'[s] = [i \in 1..Window(submission[s]) |-> i]
  PROVE  Inductive'
<1>1. ended \in [Request -> Seq(Reasons)] /\ Live \subseteq Request
  BY DEF Inductive, Structure, TypeOK
<1>2. ended'[r] = Append(<<>>, reason) /\ \A s \in Request : s # r => ended'[s] = ended[s]
  BY <1>1, KeptFacts
<1>3. ASSUME NEW s \in Live'
      PROVE  /\ Kept(submission[s], entry'[s], Held(s)', Len(streamed'[s]))
             /\ ended'[s] = ended[s]
  <2>1. s \in Live /\ s # r
    OBVIOUS
  <2>2. entry'[s] = entry[s] /\ Held(s)' = Held(s)
    BY <2>1 DEF Untouched
  <2>3. Kept(submission[s], entry[s], Held(s), Len(streamed[s]))
    BY <2>1, KeptFacts
  <2> QED BY <1>1, <1>2, <2>1, <2>2, <2>3
<1>4. ASSUME NEW s \in Live PROVE InBudget(submission[s], streamed'[s], ended'[s])
  <2>1. InBudget(submission[s], streamed[s], ended[s]) /\ ended[s] = <<>>
    BY QuietFacts, KeptFacts
  <2>2. CASE s = r
    <3>1. InBudget(submission[r], streamed[r], <<>>)
      BY <2>1, <2>2
    <3>2. InBudget(submission[r], streamed[r], Append(<<>>, reason))
      BY <3>1, OtherEnd
    <3> QED BY <1>2, <2>2, <3>2
  <2>3. CASE s # r
    BY <1>1, <1>2, <2>1, <2>3
  <2> QED BY <2>2, <2>3
<1>5. \A s \in Request \ Live : streamed'[s] = streamed[s] /\ ended'[s] = ended[s]
  BY <1>2
<1>6. Live' \subseteq Live
  OBVIOUS
<1> QED BY <1>3, <1>4, <1>5, <1>6, Recombine

LEMMA AbortStep ==
  ASSUME Inductive, NEW r \in Live, NEW reason \in {"abort", "preempt"}, Abort(r, reason)
  PROVE  Inductive'
<1>1. reason \in Reasons /\ reason # "length"
  BY DEF Reasons
<1>2. /\ Structure' /\ Live' = Live \ {r} /\ Untouched(Live \ {r})
      /\ ended' = [ended EXCEPT ![r] = Append(@, reason)]
      /\ submission' = submission /\ streamed' = streamed /\ handed' = handed
  BY <1>1, AbortStructure DEF Inductive
<1>3. \A s \in DOMAIN handed' :
        s \in DOMAIN submission /\ handed'[s] = [i \in 1..Window(submission[s]) |-> i]
  BY <1>2, QuietFacts
<1> QED BY <1>1, <1>2, <1>3, EndedStep

LEMMA ResetStep ==
  ASSUME Inductive, Reset
  PROVE  Inductive'
<1>1. Structure' /\ Live' = {}
  BY ResetStructure DEF Inductive
<1>2. /\ ended' = [r \in Request |-> IF r \in Live THEN Append(ended[r], "abort") ELSE ended[r]]
      /\ submission' = submission /\ streamed' = streamed /\ handed' = handed
  BY DEF Reset
<1>3. ASSUME NEW s \in Live PROVE InBudget(submission[s], streamed'[s], ended'[s])
  <2>1. InBudget(submission[s], streamed[s], ended[s]) /\ ended[s] = <<>> /\ s \in Request
    BY QuietFacts, KeptFacts
  <2>2. ended'[s] = Append(<<>>, "abort")
    BY <1>2, <2>1
  <2>3. InBudget(submission[s], streamed[s], Append(<<>>, "abort"))
    <3>1. InBudget(submission[s], streamed[s], <<>>) /\ "abort" # "length"
      BY <2>1
    <3> QED BY <3>1, OtherEnd
  <2> QED BY <1>2, <2>2, <2>3
<1>4. \A s \in Request \ Live : streamed'[s] = streamed[s] /\ ended'[s] = ended[s]
  BY <1>2
<1>5. \A s \in DOMAIN handed' :
        s \in DOMAIN submission /\ handed'[s] = [i \in 1..Window(submission[s]) |-> i]
  BY <1>2, QuietFacts
<1> QED BY <1>1, <1>2, <1>3, <1>4, <1>5, Recombine

(* DisaggRemoteSend.                                                       *)
LEMMA RemoteSendStep ==
  ASSUME Inductive, NEW r \in Live, RemoteSend(r)
  PROVE  Inductive'
<1>1. Structure
  BY DEF Inductive
<1>2. /\ Structure' /\ Untouched(Live' \ {r}) /\ submission' = submission /\ streamed' = streamed
      /\ entry[r].kind = "remote_send"
  BY <1>1, RemoteSendStructure
<1>3. PICK left, seq :
        /\ Left(r, left, seq)
        /\ \/ /\ left = <<>> /\ Live' = Live \ {r}
              /\ ended' = [ended EXCEPT ![r] = Append(@, "sent")]
              /\ DOMAIN handed' = DOMAIN handed \cup {r} /\ handed'[r] = seq
              /\ \A s \in DOMAIN handed : s # r => handed'[s] = handed[s]
           \/ /\ left # <<>> /\ Live' = Live
              /\ entry'[r] = [entry[r] EXCEPT !.status = "alive", !.left = left]
              /\ Held(r)' = seq /\ ended' = ended /\ handed' = handed
  BY <1>1, RemoteSendStructure
<1>4. PICK e, q, held, sent :
        /\ e = entry[r] /\ q = submission[r] /\ held = Held(r) /\ sent = Len(streamed[r])
  OBVIOUS
<1>5. /\ q \in Offered[r] /\ e \in Entry /\ held \in Seq(Nat) /\ sent \in Nat /\ r \in Request
      /\ Kept(q, e, held, sent) /\ r \in DOMAIN submission
  BY <1>4, KeptFacts
<1>6. /\ left \in Seq(Data) /\ seq \in Seq(Nat)
      /\ seq \o IdsOf(left) = held \o IdsOf(e.left)
  BY <1>3, <1>4 DEF Left
<1>7. held \o IdsOf(e.left) = [i \in 1..Window(q) |-> i]
  BY <1>2, <1>4, <1>5 DEF Kept, KeepsWindow
<1>8. CASE /\ left = <<>> /\ Live' = Live \ {r}
           /\ ended' = [ended EXCEPT ![r] = Append(@, "sent")]
           /\ DOMAIN handed' = DOMAIN handed \cup {r} /\ handed'[r] = seq
           /\ \A s \in DOMAIN handed : s # r => handed'[s] = handed[s]
  <2>1. seq = [i \in 1..Window(q) |-> i]
    <3>1. seq \o IdsOf(left) = seq
      BY <1>6, <1>8, IdsEmpty, NothingAdded
    <3> QED BY <1>6, <1>7, <3>1
  <2>2. \A s \in DOMAIN handed' :
          s \in DOMAIN submission /\ handed'[s] = [i \in 1..Window(submission[s]) |-> i]
    BY <1>4, <1>5, <1>8, <2>1, QuietFacts
  <2>3. "sent" # "length" /\ Live' \ {r} = Live \ {r}
    BY <1>8
  <2>4. Untouched(Live \ {r})
    BY <1>2, <2>3
  <2> QED BY <1>2, <1>8, <2>2, <2>3, <2>4, EndedStep
<1>9. CASE /\ left # <<>> /\ Live' = Live
           /\ entry'[r] = [entry[r] EXCEPT !.status = "alive", !.left = left]
           /\ Held(r)' = seq /\ ended' = ended /\ handed' = handed
  <2>1. e.left # <<>>
    BY <1>2, <1>4, <1>5 DEF Kept, KeepsCount
  <2>2. Kept(q, [e EXCEPT !.status = "alive", !.left = left], seq, sent)
    BY <1>2, <1>4, <1>5, <1>6, <1>9, <2>1, ChunkKept
  <2>3. Kept(submission[r], entry'[r], Held(r)', Len(streamed[r]))
    BY <1>4, <1>9, <2>2
  <2>4. Untouched(Live \ {r})
    BY <1>2, <1>9
  <2> QED BY <1>2, <1>9, <2>3, <2>4, OneMoved
<1> QED BY <1>3, <1>8, <1>9

(* The prefill of a request of an ordinary kind.                           *)
LEMMA NewRequestPrefillStep ==
  ASSUME Inductive, NEW r \in Live, NewRequestPrefill(r)
  PROVE  Inductive'
<1>1. Structure
  BY DEF Inductive
<1>2. Structure' /\ entry[r].kind = "none" /\ entry[r].left # <<>>
  BY <1>1, NewRequestPrefillStructure
<1>3. PICK left, seq, entries, seqs :
        /\ Left(r, left, seq)
        /\ entries[r] = [entry[r] EXCEPT !.status = "alive", !.left = left,
                           !.committed_tokens =
                              IF left = <<>> THEN Append(@, Len(seq) + 1) ELSE @]
        /\ HeldIn(entries, seqs, r) = seq
        /\ \A s \in Live \ {r} :
             entries[s] = entry[s] /\ HeldIn(entries, seqs, s) = Held(s)
        /\ Outcome(IF left = <<>> THEN {r} ELSE {}, entries, seqs)
  BY <1>1, NewRequestPrefillStructure
<1>4. PICK e, q, held, sent :
        /\ e = entry[r] /\ q = submission[r] /\ held = Held(r) /\ sent = Len(streamed[r])
  OBVIOUS
<1>5. /\ q \in Offered[r] /\ e \in Entry /\ held \in Seq(Nat) /\ sent \in Nat /\ r \in Request
      /\ Kept(q, e, held, sent) /\ e.left \in Seq(Data)
  BY <1>4, KeptFacts, EntryType
<1>6. /\ left \in Seq(Data) /\ seq \in Seq(Nat)
      /\ seq \o IdsOf(left) = held \o IdsOf(e.left)
  BY <1>3, <1>4 DEF Left
<1>7. ASSUME NEW s \in Live \ {r}
      PROVE  Kept(submission[s], entries[s], HeldIn(entries, seqs, s), Len(streamed[s]))
  BY <1>3, KeptFacts
<1>8. CASE left = <<>>
  <2> DEFINE sampled == {r}
  <2>1. Outcome(sampled, entries, seqs)
    BY <1>3, <1>8
  <2>2. Sampling(entry[r], seq, entries[r])
    <3>1. entries[r] = [entry[r] EXCEPT !.status = "alive", !.left = <<>>,
                          !.committed_tokens = Append(@, Len(seq) + 1)]
      BY <1>3, <1>8
    <3> QED BY <3>1 DEF Sampling
  <2>3. Len(seq) = LengthOf(q.inputs) + sent
    <3>1. seq = held \o IdsOf(e.left)
      <4>1. seq \o IdsOf(left) = seq
        BY <1>6, <1>8, IdsEmpty, NothingAdded
      <4> QED BY <1>6, <4>1
    <3>2. IdsOf(e.left) \in Seq(Nat) /\ Len(IdsOf(e.left)) = LengthOf(e.left)
      BY <1>5, IdsType
    <3>3. Len(seq) = Len(held) + LengthOf(e.left)
      <4>1. \A u, v \in Seq(Nat) : Len(u \o v) = Len(u) + Len(v)
        OBVIOUS
      <4> QED BY <1>5, <3>1, <3>2, <4>1
    <3>4. KeepsCount(q, e, held, sent) /\ e.kind = "none" /\ e.left # <<>>
      BY <1>2, <1>4, <1>5 DEF Kept
    <3>5. Len(held) + LengthOf(e.left) + 0 = LengthOf(q.inputs) + sent
      BY <3>4 DEF KeepsCount
    <3>6. Len(held) \in Nat /\ LengthOf(e.left) \in Nat
      BY <1>5, IdsType
    <3> QED BY <3>3, <3>5, <3>6
  <2>o. InOrder(q, seq, sent)
    <3>1. seq = held \o IdsOf(e.left)
      <4>1. seq \o IdsOf(left) = seq
        BY <1>6, <1>8, IdsEmpty, NothingAdded
      <4> QED BY <1>6, <4>1
    <3>2. e.kind = "none" /\ e.committed_tokens = <<>>
      BY <1>2, <1>4, <1>5 DEF Kept, KeepsCount
    <3>3. held \o Pending(e) \o IdsOf(e.left) = held \o IdsOf(e.left)
      BY <1>5, <3>2, NothingPending
    <3> QED BY <1>5, <3>1, <3>2, <3>3 DEF Kept, KeepsOrder, InOrder
  <2>4. \A s \in sampled :
          LET x == HeldIn(entries, seqs, s) IN
          /\ entry[s].kind = "none" /\ x \in Seq(Nat)
          /\ Len(x) = LengthOf(submission[s].inputs) + Len(streamed[s])
          /\ InOrder(submission[s], x, Len(streamed[s]))
          /\ Sampling(entry[s], x, entries[s])
    BY <1>2, <1>3, <1>4, <1>6, <2>2, <2>3, <2>o
  <2>5. sampled \subseteq Live
    OBVIOUS
  <2>6. \A s \in Live \ sampled :
          Kept(submission[s], entries[s], HeldIn(entries, seqs, s), Len(streamed[s]))
    BY <1>7
  <2> HIDE DEF sampled
  <2> QED BY <1>2, <2>1, <2>4, <2>5, <2>6, SampledStep
<1>9. CASE left # <<>>
  <2> DEFINE sampled == {}
  <2>1. Outcome(sampled, entries, seqs)
    BY <1>3, <1>9
  <2>2. entries[r] = [e EXCEPT !.status = "alive", !.left = left]
    <3>1. entries[r] = [e EXCEPT !.status = "alive", !.left = left, !.committed_tokens = @]
      BY <1>3, <1>4, <1>9
    <3> QED BY <1>5, <3>1 DEF Entry
  <2>3. Kept(q, [e EXCEPT !.status = "alive", !.left = left], seq, sent)
    BY <1>2, <1>4, <1>5, <1>6, <1>9, ChunkKept
  <2>4. Kept(submission[r], entries[r], HeldIn(entries, seqs, r), Len(streamed[r]))
    BY <1>3, <1>4, <2>2, <2>3
  <2>5. \A s \in Live \ sampled :
          Kept(submission[s], entries[s], HeldIn(entries, seqs, s), Len(streamed[s]))
    BY <1>7, <2>4
  <2>6. /\ sampled \subseteq Live
        /\ \A s \in sampled :
             LET x == HeldIn(entries, seqs, s) IN
             /\ entry[s].kind = "none" /\ x \in Seq(Nat)
             /\ Len(x) = LengthOf(submission[s].inputs) + Len(streamed[s])
             /\ InOrder(submission[s], x, Len(streamed[s]))
             /\ Sampling(entry[s], x, entries[s])
    OBVIOUS
  <2> HIDE DEF sampled
  <2> QED BY <1>2, <2>1, <2>5, <2>6, SampledStep
<1> QED BY <1>8, <1>9

(* One token of every request that decodes.                                *)
LEMMA SameEntry ==
  ASSUME NEW e \in Entry, NEW seq \in Seq(Nat), NEW f, e.status = "alive", e.left = <<>>,
         f = [e EXCEPT !.committed_tokens = Append(@, Len(seq) + 1)]
  PROVE  Sampling(e, seq, f)
<1> DEFINE g == [e EXCEPT !.status = "alive", !.left = <<>>,
                          !.committed_tokens = Append(@, Len(seq) + 1)]
<1>1. e = [kind |-> e.kind, inputs |-> e.inputs, max_tokens |-> e.max_tokens,
           status |-> e.status, internal_id |-> e.internal_id, left |-> e.left,
           committed_tokens |-> e.committed_tokens,
           next_callback_token_pos |-> e.next_callback_token_pos]
  BY DEF Entry
<1>2. f = g
  BY <1>1
<1> QED BY <1>2 DEF Sampling

LEMMA BatchDecodeStep ==
  ASSUME Inductive, BatchDecode
  PROVE  Inductive'
<1>1. Structure /\ LiveKept
  BY DEF Inductive
<1>2. Structure'
  BY <1>1, BatchDecodeStructure
<1>3. PICK entries, seqs :
        /\ Outcome(Decoding, entries, seqs)
        /\ \A r \in Decoding :
             /\ entries[r] = [entry[r] EXCEPT !.committed_tokens =
                                Append(@, Len(HeldIn(entries, seqs, r)) + 1)]
             /\ HeldIn(entries, seqs, r) = Held(r) \o <<Last(entry[r].committed_tokens)>>
        /\ \A r \in Live \ Decoding :
             entries[r] = entry[r] /\ HeldIn(entries, seqs, r) = Held(r)
  BY <1>1, BatchDecodeStructure
<1>4. ASSUME NEW r \in Decoding
      PROVE  LET seq == HeldIn(entries, seqs, r) IN
             /\ entry[r].kind = "none" /\ seq \in Seq(Nat)
             /\ Len(seq) = LengthOf(submission[r].inputs) + Len(streamed[r])
             /\ InOrder(submission[r], seq, Len(streamed[r]))
             /\ Sampling(entry[r], seq, entries[r])
  <2>1. /\ r \in Live /\ entry[r].status = "alive" /\ entry[r].kind = "none"
        /\ entry[r].left = <<>> /\ entry[r].committed_tokens # <<>>
        /\ Last(entry[r].committed_tokens) \in Nat
    BY <1>1, DecodingFacts
  <2>2. PICK e, q, held, sent, t, seq, f :
          /\ e = entry[r] /\ q = submission[r] /\ held = Held(r) /\ sent = Len(streamed[r])
          /\ t = Last(entry[r].committed_tokens) /\ seq = HeldIn(entries, seqs, r)
          /\ f = entries[r]
    OBVIOUS
  <2>3. /\ q \in Offered[r] /\ e \in Entry /\ held \in Seq(Nat) /\ sent \in Nat /\ r \in Request
        /\ Kept(q, e, held, sent) /\ t \in Nat
    BY <2>1, <2>2, KeptFacts
  <2>4. seq = held \o <<t>> /\ f = [e EXCEPT !.committed_tokens = Append(@, Len(seq) + 1)]
    BY <1>3, <2>2
  <2>5. seq \in Seq(Nat) /\ Len(held) \in Nat /\ Len(seq) = Len(held) + 1
    BY <2>3, <2>4, TokenAdded
  <2>6. Len(seq) = LengthOf(q.inputs) + sent
    <3>1. KeepsCount(q, e, held, sent) /\ e.kind = "none" /\ e.committed_tokens # <<>>
      BY <2>1, <2>2, <2>3 DEF Kept
    <3>2. Len(held) + LengthOf(e.left) + 1 = LengthOf(q.inputs) + sent
      BY <3>1 DEF KeepsCount
    <3>3. LengthOf(e.left) = 0
      BY <2>1, <2>2, IdsEmpty
    <3> QED BY <2>5, <3>2, <3>3
  <2>7. Sampling(e, seq, f)
    BY <2>1, <2>2, <2>3, <2>4, <2>5, SameEntry
  <2>8. InOrder(q, seq, sent)
    <3>1. held \o Pending(e) \o IdsOf(e.left) = held \o <<t>>
      BY <2>1, <2>2, <2>3, OnePending
    <3> QED BY <2>1, <2>2, <2>3, <2>4, <3>1 DEF Kept, KeepsOrder, InOrder
  <2> QED BY <2>1, <2>2, <2>5, <2>6, <2>7, <2>8
<1>5. ASSUME NEW s \in Live \ Decoding
      PROVE  Kept(submission[s], entries[s], HeldIn(entries, seqs, s), Len(streamed[s]))
  BY <1>3, KeptFacts
<1>6. Decoding \subseteq Live
  BY <1>1, DecodingFacts
<1> QED
  <2>1. PICK sampled : sampled = Decoding
    OBVIOUS
  <2>2. /\ Outcome(sampled, entries, seqs) /\ sampled \subseteq Live
        /\ \A s \in sampled :
             LET seq == HeldIn(entries, seqs, s) IN
             /\ entry[s].kind = "none" /\ seq \in Seq(Nat)
             /\ Len(seq) = LengthOf(submission[s].inputs) + Len(streamed[s])
             /\ InOrder(submission[s], seq, Len(streamed[s]))
             /\ Sampling(entry[s], seq, entries[s])
        /\ \A s \in Live \ sampled :
             Kept(submission[s], entries[s], HeldIn(entries, seqs, s), Len(streamed[s]))
    BY <1>3, <1>4, <1>5, <1>6, <2>1
  <2> QED BY <1>2, <2>2, SampledStep

LEMMA NothingHappens ==
  ASSUME Inductive, UNCHANGED vars
  PROVE  Inductive'
<1>1. /\ entry' = entry /\ waiting_queue' = waiting_queue /\ running_queue' = running_queue
      /\ used_ids' = used_ids /\ sequences' = sequences /\ submission' = submission
      /\ streamed' = streamed /\ ended' = ended /\ handed' = handed /\ lost_ids' = lost_ids
      /\ leaked' = leaked
  BY DEF vars
<1>2. Structure'
  <2>1. TypeOK /\ PlaceAgrees /\ SequencesAccounted
    BY DEF Inductive, Structure
  <2>2. TypeOK'
    BY <1>1, <2>1 DEF TypeOK, Live
  <2>3. Alive' = Alive /\ Live' = Live
    BY <1>1 DEF Alive, Live
  <2>4. PlaceAgrees'
    BY <1>1, <2>1, <2>3 DEF PlaceAgrees, Parked
  <2>5. SequencesAccounted'
    BY <1>1, <2>1, <2>3 DEF SequencesAccounted, IdsIn
  <2> QED BY <2>2, <2>4, <2>5 DEF Structure
<1>3. ASSUME NEW r \in Live'
      PROVE  /\ Kept(submission[r], entry'[r], Held(r)', Len(streamed'[r]))
             /\ ended'[r] = ended[r]
  <2>1. r \in Live /\ Held(r)' = Held(r)
    BY <1>1 DEF Held, Live
  <2>2. Kept(submission[r], entry[r], Held(r), Len(streamed[r]))
    BY <2>1, KeptFacts
  <2> QED BY <1>1, <2>1, <2>2
<1>4. /\ \A r \in Live : InBudget(submission[r], streamed'[r], ended'[r])
      /\ \A r \in DOMAIN handed' :
           r \in DOMAIN submission /\ handed'[r] = [i \in 1..Window(submission[r]) |-> i]
  BY <1>1, QuietFacts
<1>5. /\ submission' = submission /\ Live' \subseteq Live
      /\ \A r \in Request \ Live : streamed'[r] = streamed[r] /\ ended'[r] = ended[r]
  BY <1>1 DEF Live
<1> QED BY <1>2, <1>3, <1>4, <1>5, Recombine

LEMMA InitInductive ==
  Init => Inductive
<1> SUFFICES ASSUME Init PROVE Inductive
  OBVIOUS
<1>1. /\ entry = <<>> /\ waiting_queue = <<>> /\ running_queue = <<>>
      /\ used_ids = {} /\ sequences = <<>> /\ submission = <<>>
      /\ streamed = [r \in Request |-> <<>>] /\ ended = [r \in Request |-> <<>>]
      /\ handed = <<>> /\ lost_ids = {} /\ leaked = {}
  BY DEF Init
<1>2. /\ Live = {} /\ DOMAIN submission = {} /\ DOMAIN sequences = {} /\ DOMAIN handed = {}
      /\ Alive = {}
  <2>1. DOMAIN <<>> = {}
    OBVIOUS
  <2> QED BY <1>1, <2>1 DEF Alive, Live
<1>3. TypeOK
  <2>1. entry \in [Live -> Entry] /\ sequences \in [DOMAIN sequences -> Seq(Nat)]
    BY <1>1, <1>2
  <2>2. waiting_queue \in Seq(Live) /\ running_queue \in Seq(Live)
    BY <1>1
  <2>3. streamed \in [Request -> Seq(Nat)] /\ ended \in [Request -> Seq(Reasons)]
    <3>1. <<>> \in Seq(Nat) /\ <<>> \in Seq(Reasons)
      OBVIOUS
    <3> QED BY <1>1, <3>1
  <2>4. used_ids \subseteq Nat /\ IsFiniteSet(used_ids)
    BY <1>1, FS_EmptySet
  <2> QED BY <1>2, <2>1, <2>2, <2>3, <2>4 DEF TypeOK
<1>4. PlaceAgrees
  <2>1. Elements(waiting_queue) = {} /\ Elements(running_queue) = {}
    BY <1>1 DEF Elements
  <2>2. NoRepeats(waiting_queue) /\ NoRepeats(running_queue)
    BY <1>1 DEF NoRepeats
  <2> QED BY <1>2, <2>1, <2>2 DEF PlaceAgrees
<1>5. SequencesAccounted
  BY <1>1, <1>2 DEF SequencesAccounted, IdsIn
<1>6. Unanswered
  BY <1>1, <1>2 DEF Unanswered
<1> QED BY <1>2, <1>3, <1>4, <1>5, <1>6
        DEF Inductive, Structure, LiveKept, StreamedInBudget, HandoverComplete

LEMMA NextInductive ==
  Inductive /\ [Next]_vars => Inductive'
<1> SUFFICES ASSUME Inductive, [Next]_vars PROVE Inductive'
  OBVIOUS
<1>1. Structure /\ LiveKept
  BY DEF Inductive
<1>2. ASSUME NEW r \in Request, AddRequest(r) PROVE Inductive'
  BY <1>2, AddRequestStep
<1>3. ASSUME NEW r \in Request, StartGeneration(r) PROVE Inductive'
  <2>1. r \in Live
    BY <1>3 DEF StartGeneration
  <2> QED BY <1>3, <2>1, StartGenerationStep
<1>4. ASSUME NEW r \in Request, AbortRequest(r) PROVE Inductive'
  <2>1. r \in Live /\ Abort(r, "abort")
    BY <1>4 DEF AbortRequest
  <2> QED BY <2>1, AbortStep
<1>5. CASE Reset
  BY <1>5, ResetStep
<1>6. ASSUME NEW r \in Live, PrepareReceive(r) PROVE Inductive'
  BY <1>6, PrepareReceiveStep
<1>7. ASSUME NEW r \in Live, RemoteSend(r) PROVE Inductive'
  BY <1>7, RemoteSendStep
<1>8. ASSUME NEW r \in Live, NewRequestPrefill(r) PROVE Inductive'
  BY <1>8, NewRequestPrefillStep
<1>9. CASE BatchDecode
  BY <1>9, BatchDecodeStep
<1>10. CASE Preempt
  <2>1. PICK r : r = Last(running_queue)
    OBVIOUS
  <2>2. r \in Live /\ Abort(r, "preempt")
    BY <1>1, <1>10, <2>1, PreemptFacts DEF Preempt
  <2> QED BY <2>2, AbortStep
<1>11. CASE UNCHANGED vars
  BY <1>11, NothingHappens
<1> QED BY <1>2, <1>3, <1>4, <1>5, <1>6, <1>7, <1>8, <1>9, <1>10, <1>11 DEF Next, EngineStep

-----------------------------------------------------------------------------
(* The theorems.                                                           *)

(* The inductive invariant: how the queues, the entries, the ids and the   *)
(* cache agree, and what is kept of every live request, through every      *)
(* client call and every action of a step of the engine in disaggregation  *)
(* mode.                                                                   *)
THEOREM DisaggInvariance == Spec => []Inductive
<1>1. Init => Inductive
  BY InitInductive
<1>2. Inductive /\ [Next]_vars => Inductive'
  BY NextInductive
<1> QED BY <1>1, <1>2, PTL DEF Spec

(* A live request is in the queues its state says, and only one that       *)
(* awaits K/V from another engine is in neither (Engine::AddRequest,       *)
(* HandleDisaggRequest, AbortRequestImpl and the actions' queue moves).    *)
THEOREM PlacesAgree == Spec => []PlaceAgrees
<1>1. Inductive => PlaceAgrees
  BY DEF Inductive, Structure
<1> QED BY <1>1, DisaggInvariance, PTL

(* Ids and sequences are those of the live requests and of those aborted   *)
(* outside the running queue, whatever is added, finished, aborted or      *)
(* preempted (AbortRequestImpl, RemoveRequestFromModel).                   *)
THEOREM SequencesCounted == Spec => []SequencesAccounted
<1>1. Inductive => SequencesAccounted
  BY DEF Inductive, Structure
<1> QED BY <1>1, DisaggInvariance, PTL

(* Clients get the sampled tokens in order, no token of a prompt, and as   *)
(* many as they asked for though kStartGeneration raises the limit         *)
(* (ActionStepPostProcess, HandleDisaggRequest).                           *)
THEOREM BudgetKept == Spec => []StreamedInBudget
<1>1. Inductive => StreamedInBudget
  BY DEF Inductive
<1> QED BY <1>1, DisaggInvariance, PTL

(* The K/V a remote_send request leaves to the other engine is its whole   *)
(* window, in order, whatever the chunks and the aborts in between         *)
(* (DisaggRemoteSend, ActionStepPostProcess).                              *)
THEOREM HandoverWhole == Spec => []HandoverComplete
<1>1. Inductive => HandoverComplete
  BY DEF Inductive
<1> QED BY <1>1, DisaggInvariance, PTL

(* What an alive request has in the cache, the committed token the cache   *)
(* lacks and the inputs left spell its tokens, through chunks, prefix      *)
(* matches, hand-overs and decodes, if no window offered leaves several    *)
(* data behind the edge of one: SplitData (data.cc) would turn them round. *)
THEOREM OrderKept ==
  ASSUME \A r \in Request : \A q \in Offered[r] : CutInOrder(q)
  PROVE  Spec => []TokensInOrder
<1>1. ASSUME Inductive PROVE TokensInOrder
  <2> SUFFICES ASSUME NEW r \in Alive
               PROVE  sequences[entry[r].internal_id] \o Pending(entry[r]) \o IdsOf(entry[r].left)
                        = [i \in 1..Expected(r) |-> i]
    BY DEF TokensInOrder
  <2>1. r \in Live /\ entry[r].status = "alive" /\ Structure /\ LiveKept
    BY <1>1 DEF Alive, Inductive
  <2>2. PICK e, q, held, sent :
          e = entry[r] /\ q = submission[r] /\ held = Held(r) /\ sent = Len(streamed[r])
    OBVIOUS
  <2>3. /\ q \in Offered[r] /\ e \in Entry /\ held \in Seq(Nat) /\ r \in Request
        /\ KeepsWindow(q, e, held) /\ KeepsCount(q, e, held, sent) /\ KeepsOrder(q, e, held, sent)
    BY <1>1, <2>1, <2>2, KeptFacts DEF Kept
  <2>4. held = sequences[entry[r].internal_id]
    BY <2>1, <2>2 DEF Held
  <2>5. Parked(r) <=> e.kind = "prepare_receive"
    BY <2>1, <2>2 DEF Structure, PlaceAgrees
  <2>6. CASE e.kind = "none"
    <3>1. Expected(r) = LengthOf(q.inputs) + sent
      BY <2>2, <2>5, <2>6 DEF Expected
    <3>2. held \o Pending(e) \o IdsOf(e.left) = [i \in 1..(LengthOf(q.inputs) + sent) |-> i]
      BY <2>3, <2>6 DEF KeepsOrder
    <3> QED BY <2>2, <2>4, <3>1, <3>2
  <2>7. CASE e.kind = "prepare_receive"
    <3>1. Expected(r) = Window(q)
      BY <2>1, <2>2, <2>5, <2>7, AwaitedFacts DEF Expected
    <3>2. e.committed_tokens = <<>> /\ e.left = <<>> /\ held = [i \in 1..Window(q) |-> i]
      BY <2>1, <2>2, <2>3, <2>7, LiveFacts DEF KeepsCount, KeepsOrder
    <3>3. held \o Pending(e) \o IdsOf(e.left) = held \o IdsOf(e.left)
      <4>1. e.committed_tokens = <<>>
        BY <3>2
      <4> QED BY <2>3, <4>1, NothingPending
    <3>4. held \o IdsOf(e.left) = held
      BY <2>3, <3>2, IdsEmpty, NothingAdded
    <3> QED BY <2>2, <2>4, <3>1, <3>2, <3>3, <3>4
  <2>8. CASE e.kind = "remote_send"
    <3>1. Expected(r) = Window(q)
      BY <2>2, <2>5, <2>8 DEF Expected, Window
    <3>2. e.committed_tokens = <<>> /\ held \o IdsOf(e.left) = [i \in 1..Window(q) |-> i]
      BY <2>3, <2>8 DEF KeepsCount, KeepsWindow
    <3>3. held \o Pending(e) \o IdsOf(e.left) = held \o IdsOf(e.left)
      <4>1. e.committed_tokens = <<>>
        BY <3>2
      <4> QED BY <2>3, <4>1, NothingPending
    <3> QED BY <2>2, <2>4, <3>1, <3>2, <3>3
  <2>9. e.kind \in {"none", "prepare_receive", "remote_send"}
    BY <2>3, EntryType DEF Kinds
  <2> QED BY <2>6, <2>7, <2>8, <2>9
<1> QED BY <1>1, DisaggInvariance, PTL
-----------------------------------------------------------------------------
(* The engine to its clients.                                              *)

(* What a step may do to a request: streams grow while it is live, its     *)
(* final usage comes as it leaves or as it is refused, and nothing later.  *)
ClientStep(r) ==
  IF r \in Live
  THEN /\ Len(streamed[r]) <= Len(streamed'[r])
       /\ r \notin Live' => Len(ended'[r]) = 1
  ELSE /\ streamed'[r] = streamed[r]
       /\ r \in DOMAIN submission => r \notin Live' /\ ended'[r] = ended[r]
       /\ r \notin DOMAIN submission /\ r \notin Live' => ended'[r] = ended[r] \/ Len(ended'[r]) = 1

LEMMA StreamFacts ==
  ASSUME Inductive, NEW r \in Request
  PROVE  /\ streamed[r] \in Seq(Nat) /\ Len(streamed[r]) \in Nat
         /\ r \in Live => r \in DOMAIN submission /\ Len(ended[r]) = 0 /\ ended[r] = <<>>
         /\ r \notin DOMAIN submission => Len(ended[r]) = 0 /\ ended[r] = <<>>
<1>1. streamed[r] \in Seq(Nat)
  BY DEF Inductive, Structure, TypeOK
<1>2. r \in Live => r \in DOMAIN submission
  BY DEF Inductive, Structure, TypeOK
<1>3. r \in Live \/ r \notin DOMAIN submission => ended[r] = <<>>
  BY DEF Inductive, Unanswered
<1> QED BY <1>1, <1>2, <1>3

(* A stream is determined by its length, and a longer one continues a      *)
(* shorter one (StreamedInBudget).                                         *)
LEMMA StreamContinues ==
  ASSUME Inductive, Inductive', NEW r \in Live, r \in DOMAIN submission',
         submission'[r] = submission[r], Len(streamed[r]) <= Len(streamed'[r])
  PROVE  /\ Clients!IsPrefix(streamed[r], streamed'[r])
         /\ Len(streamed[r]) = Len(streamed'[r]) => streamed'[r] = streamed[r]
<1> DEFINE s == streamed[r]
           t == streamed'[r]
           prompt == LengthOf(submission[r].inputs)
<1>0. r \in Request /\ r \in DOMAIN submission
  BY DEF Inductive, Structure, TypeOK
<1>1. s \in Seq(Nat) /\ t \in Seq(Nat)
  BY <1>0 DEF Inductive, Structure, TypeOK
<1>2. /\ \A i \in DOMAIN s : s[i] = prompt + i
      /\ \A i \in DOMAIN t : t[i] = prompt + i
  BY <1>0 DEF Inductive, StreamedInBudget
<1>5. Len(s) <= Len(t)
  OBVIOUS
<1> HIDE DEF s, t, prompt
<1>3. \A i \in 1..Len(s) : i \in DOMAIN s /\ i \in DOMAIN t
  BY <1>1, <1>5
<1>4. \A i \in 1..Len(s) : s[i] = t[i]
  BY <1>2, <1>3
<1>6. SubSeq(s, 1, Len(s)) = SubSeq(t, 1, Len(s))
  BY <1>1, <1>4, <1>5
<1>7. ASSUME Len(s) = Len(t) PROVE t = s
  <2>1. /\ s = [i \in 1..Len(s) |-> s[i]]
        /\ t = [i \in 1..Len(t) |-> t[i]]
    BY <1>1
  <2> QED BY <1>4, <1>7, <2>1
<1> QED BY <1>5, <1>6, <1>7 DEF Clients!IsPrefix, s, t

(* A step with these effects is a step of RequestStream.                   *)
LEMMA ClientStepServes ==
  ASSUME Inductive, Inductive', NEW r \in Request, ClientStep(r),
         \A s \in DOMAIN submission : s \in DOMAIN submission' /\ submission'[s] = submission[s]
  PROVE  \/ Clients!Idle(r) \/ Clients!Accept(r) \/ Clients!Refuse(r)
         \/ Clients!Stream(r) \/ Clients!Finish(r)
<1> DEFINE usages == [s \in Request |-> Len(ended[s])]
           usages2 == [s \in Request |-> Len(ended'[s])]
<1>0. usages[r] = Len(ended[r]) /\ usages2[r] = Len(ended'[r])
  OBVIOUS
<1>1. /\ r \in Live => r \in DOMAIN submission /\ Len(ended[r]) = 0
      /\ r \notin DOMAIN submission => Len(ended[r]) = 0
      /\ r \in Live' => Len(ended'[r]) = 0
      /\ Len(streamed[r]) \in Nat /\ Len(streamed'[r]) \in Nat
  <2>1. /\ r \in Live' => ended'[r] = <<>>
        /\ streamed'[r] \in Seq(Nat)
    BY DEF Inductive, Unanswered, Structure, TypeOK
  <2> QED BY <2>1, StreamFacts
<1>2. CASE r \in Live /\ r \in Live'
  <2>1. Clients!IsPrefix(streamed[r], streamed'[r])
    BY <1>1, <1>2, StreamContinues DEF ClientStep
  <2>2. usages2[r] = usages[r]
    BY <1>0, <1>1, <1>2
  <2> HIDE DEF usages, usages2
  <2> QED BY <1>2, <2>1, <2>2, Zenon
             DEF Clients!Idle, Clients!Stream, Clients!IsStrictPrefix, usages, usages2
<1>3. CASE r \in Live /\ r \notin Live'
  <2>1. Clients!IsPrefix(streamed[r], streamed'[r])
    BY <1>1, <1>3, StreamContinues DEF ClientStep
  <2>2. usages[r] = 0 /\ usages2[r] = 1
    BY <1>0, <1>1, <1>3 DEF ClientStep
  <2> HIDE DEF usages, usages2
  <2>3. usages2[r] = usages[r] + 1
    BY <2>2
  <2> QED BY <1>3, <2>1, <2>3, Zenon DEF Clients!Finish, usages, usages2
<1>4. CASE r \notin Live /\ r \in DOMAIN submission
  BY <1>4 DEF ClientStep, Clients!Idle
<1>5. CASE r \notin DOMAIN submission
  <2>1. streamed'[r] = streamed[r] /\ r \notin Live /\ usages[r] = 0
    BY <1>0, <1>1, <1>5 DEF ClientStep
  <2>2. CASE r \in Live'
    <3>1. usages2[r] = 0
      BY <1>0, <1>1, <2>2
    <3> HIDE DEF usages, usages2
    <3> QED BY <2>1, <2>2, <3>1, Zenon DEF Clients!Accept, usages, usages2
  <2>3. CASE r \notin Live'
    <3>1. usages2[r] = usages[r] \/ usages2[r] = 1
      BY <1>0, <1>5, <2>1, <2>3 DEF ClientStep
    <3> HIDE DEF usages, usages2
    <3>2. (r \in Live') = (r \in Live)
      BY <2>1, <2>3
    <3>3. CASE usages2[r] = usages[r]
      BY <2>1, <3>2, <3>3, Zenon DEF Clients!Idle, usages, usages2
    <3>4. CASE usages2[r] = 1
      BY <2>1, <2>3, <3>4, Zenon DEF Clients!Refuse, usages, usages2
    <3> QED BY <3>1, <3>3, <3>4
  <2> QED BY <2>2, <2>3
<1> QED BY <1>2, <1>3, <1>4, <1>5

(* The actions that sample tokens stream them, and end some of their       *)
(* requests.                                                               *)
LEMMA OutcomeServes ==
  ASSUME Inductive, NEW sampled, NEW entries, NEW seqs, Outcome(sampled, entries, seqs),
         sampled \subseteq Live, \A r \in sampled : NewTokens(entries[r]) \in Seq(Nat),
         NEW r \in Request
  PROVE  ClientStep(r)
<1>1. PICK finished \in SUBSET sampled :
        /\ Live' = Live \ finished
        /\ \A s \in finished :
             ended'[s] = ended[s] \o (IF Exhausted(entries[s]) THEN <<"length">> ELSE <<"stop">>)
        /\ \A s \in Request \ finished : ended'[s] = ended[s]
  BY DEF Outcome
<1>2. streamed'[r] = streamed[r] \o (IF r \in sampled THEN NewTokens(entries[r]) ELSE <<>>)
  BY DEF Outcome
<1>3. streamed[r] \in Seq(Nat) /\ Len(streamed[r]) \in Nat
  BY StreamFacts
<1>4. CASE r \in sampled
  <2>1. PICK new : new = NewTokens(entries[r])
    OBVIOUS
  <2>2. new \in Seq(Nat) /\ streamed'[r] = streamed[r] \o new
    BY <1>2, <1>4, <2>1
  <2>3. Len(streamed[r]) <= Len(streamed'[r])
    BY <1>3, <2>2
  <2>4. ASSUME r \notin Live' PROVE Len(ended'[r]) = 1
    <3>1. ended[r] = <<>> /\ r \in finished
      BY <1>1, <1>4, <2>4, StreamFacts
    <3>2. ended'[r] = <<>> \o <<"length">> \/ ended'[r] = <<>> \o <<"stop">>
      BY <1>1, <3>1
    <3>3. Len(<<>> \o <<"length">>) = 1 /\ Len(<<>> \o <<"stop">>) = 1
      OBVIOUS
    <3> QED BY <3>2, <3>3
  <2> QED BY <1>4, <2>3, <2>4 DEF ClientStep
<1>5. CASE r \notin sampled
  <2>1. streamed'[r] = streamed[r]
    BY <1>2, <1>3, <1>5
  <2>2. ended'[r] = ended[r] /\ (r \in Live' <=> r \in Live)
    BY <1>1, <1>5
  <2> QED BY <1>3, <2>1, <2>2 DEF ClientStep
<1> QED BY <1>4, <1>5

(* What is sampled is a sequence of tokens.                                *)
LEMMA NewTokensType ==
  ASSUME NEW e, e.committed_tokens \in Seq(Nat), e.next_callback_token_pos \in Nat
  PROVE  NewTokens(e) \in Seq(Nat)
<1>1. PICK tokens, pos : tokens = e.committed_tokens /\ pos = e.next_callback_token_pos
  OBVIOUS
<1>2. tokens \in Seq(Nat) /\ pos \in Nat
  BY <1>1
<1>3. SubSeq(tokens, pos + 1, Len(tokens)) \in Seq(Nat)
  <2>1. Len(tokens) \in Nat /\ \A i \in 1..Len(tokens) : tokens[i] \in Nat
    BY <1>2
  <2>2. \A i \in (pos + 1)..Len(tokens) : tokens[i] \in Nat
    BY <1>2, <2>1
  <2> QED BY <1>2, <2>1, <2>2
<1> QED BY <1>1, <1>3 DEF NewTokens

(* Steps that move one request, or none.                                   *)
LEMMA QuietServes ==
  ASSUME Inductive, UNCHANGED <<streamed, ended>>, Live' = Live, NEW r \in Request
  PROVE  ClientStep(r)
BY StreamFacts DEF ClientStep

LEMMA AddRequestServes ==
  ASSUME Inductive, NEW s \in Request, AddRequest(s), NEW r \in Request
  PROVE  ClientStep(r)
<1>1. /\ s \notin DOMAIN submission /\ streamed' = streamed
      /\ \/ ended' = [ended EXCEPT ![s] = Append(@, "length")] /\ entry' = entry
         \/ ended' = ended /\ \E e : entry' = Put(entry, s, e)
  BY DEF AddRequest
<1>2. s \notin Live /\ ended[s] = <<>>
  BY <1>1, StreamFacts
<1>3. Len(streamed[r]) \in Nat
  BY StreamFacts
<1>4. CASE ended' = [ended EXCEPT ![s] = Append(@, "length")] /\ entry' = entry
  <2>1. Live' = Live
    BY <1>4 DEF Live
  <2>2. r # s => ended'[r] = ended[r]
    BY <1>4 DEF Inductive, Structure, TypeOK
  <2>3. ended'[s] = Append(<<>>, "length")
    BY <1>2, <1>4 DEF Inductive, Structure, TypeOK
  <2>4. Len(ended'[s]) = 1
    BY <2>3
  <2> QED BY <1>1, <1>2, <1>3, <2>1, <2>2, <2>4 DEF ClientStep
<1>5. CASE ended' = ended /\ \E e : entry' = Put(entry, s, e)
  <2>1. Live' = Live \cup {s}
    BY <1>5 DEF Live, Put
  <2> QED BY <1>1, <1>2, <1>3, <1>5, <2>1 DEF ClientStep
<1> QED BY <1>1, <1>4, <1>5

LEMMA AbortServes ==
  ASSUME Inductive, NEW s \in Live, NEW reason, Abort(s, reason), NEW r \in Request
  PROVE  ClientStep(r)
<1>1. /\ streamed' = streamed /\ Live' = Live \ {s}
      /\ ended' = [ended EXCEPT ![s] = Append(@, reason)]
  BY RestrictFacts DEF Abort, Live
<1>2. s \in Request /\ ended[s] = <<>> /\ Len(streamed[r]) \in Nat
  BY StreamFacts DEF Inductive, Structure, TypeOK
<1>3. r # s => ended'[r] = ended[r]
  BY <1>1 DEF Inductive, Structure, TypeOK
<1>4. ended'[s] = Append(<<>>, reason)
  BY <1>1, <1>2 DEF Inductive, Structure, TypeOK
<1>5. Len(ended'[s]) = 1
  BY <1>4
<1> QED BY <1>1, <1>2, <1>3, <1>5 DEF ClientStep

LEMMA ResetServes ==
  ASSUME Inductive, Reset, NEW r \in Request
  PROVE  ClientStep(r)
<1>1. /\ streamed' = streamed /\ Live' = {}
      /\ ended'[r] = IF r \in Live THEN Append(ended[r], "abort") ELSE ended[r]
  BY DEF Reset, Live
<1>2. Len(streamed[r]) \in Nat
  BY StreamFacts
<1>3. CASE r \in Live
  <2>1. ended[r] = <<>> /\ ended'[r] = Append(ended[r], "abort")
    BY <1>1, <1>3, StreamFacts
  <2>2. Len(ended'[r]) = 1
    BY <2>1
  <2> QED BY <1>1, <1>2, <1>3, <2>2 DEF ClientStep
<1>4. CASE r \notin Live
  BY <1>1, <1>4 DEF ClientStep
<1> QED BY <1>3, <1>4

LEMMA RemoteSendServes ==
  ASSUME Inductive, NEW s \in Live, RemoteSend(s), NEW r \in Request
  PROVE  ClientStep(r)
<1>1. /\ streamed' = streamed
      /\ \/ Live' = Live \ {s} /\ ended' = [ended EXCEPT ![s] = Append(@, "sent")]
         \/ Live' = Live /\ ended' = ended
  <2>1. streamed' = streamed
    BY DEF RemoteSend
  <2>2. \E left, seq :
          \/ /\ left = <<>> /\ Live' = Live \ {s}
             /\ ended' = [ended EXCEPT ![s] = Append(@, "sent")]
          \/ left # <<>> /\ Live' = Live /\ ended' = ended
    BY RemoteSendStructure DEF Inductive
  <2> QED BY <2>1, <2>2
<1>2. s \in Request /\ ended[s] = <<>> /\ Len(streamed[r]) \in Nat
  BY StreamFacts DEF Inductive, Structure, TypeOK
<1>3. CASE Live' = Live /\ ended' = ended
  BY <1>1, <1>3, QuietServes
<1>4. CASE Live' = Live \ {s} /\ ended' = [ended EXCEPT ![s] = Append(@, "sent")]
  <2>1. r # s => ended'[r] = ended[r]
    BY <1>4 DEF Inductive, Structure, TypeOK
  <2>2. ended'[s] = Append(<<>>, "sent")
    BY <1>2, <1>4 DEF Inductive, Structure, TypeOK
  <2>3. Len(ended'[s]) = 1
    BY <2>2
  <2> QED BY <1>1, <1>2, <1>4, <2>1, <2>3 DEF ClientStep
<1> QED BY <1>1, <1>3, <1>4

LEMMA NewRequestPrefillServes ==
  ASSUME Inductive, NEW s \in Live, NewRequestPrefill(s), NEW r \in Request
  PROVE  ClientStep(r)
<1>1. Structure
  BY DEF Inductive
<1>2. PICK left, seq, entries, seqs :
        /\ Left(s, left, seq)
        /\ entries[s] = [entry[s] EXCEPT !.status = "alive", !.left = left,
                           !.committed_tokens =
                              IF left = <<>> THEN Append(@, Len(seq) + 1) ELSE @]
        /\ HeldIn(entries, seqs, s) = seq
        /\ \A t \in Live \ {s} :
             entries[t] = entry[t] /\ HeldIn(entries, seqs, t) = Held(t)
        /\ Outcome(IF left = <<>> THEN {s} ELSE {}, entries, seqs)
  BY <1>1, NewRequestPrefillStructure
<1>3. entry[s] \in Entry
  BY <1>1 DEF Structure, TypeOK
<1>4. entry[s].committed_tokens \in Seq(Nat) /\ entry[s].next_callback_token_pos \in Nat
  BY <1>3, EntryType
<1>5. CASE left = <<>>
  <2>1. seq \in Seq(Nat)
    BY <1>2 DEF Left
  <2>2. /\ entries[s].committed_tokens = Append(entry[s].committed_tokens, Len(seq) + 1)
        /\ entries[s].next_callback_token_pos = entry[s].next_callback_token_pos
    <3>1. entries[s] = [entry[s] EXCEPT !.status = "alive", !.left = left,
                          !.committed_tokens = Append(@, Len(seq) + 1)]
      BY <1>2, <1>5
    <3> QED BY <1>3, <3>1 DEF Entry
  <2>3. entries[s].committed_tokens \in Seq(Nat) /\ entries[s].next_callback_token_pos \in Nat
    BY <1>4, <2>1, <2>2
  <2>4. NewTokens(entries[s]) \in Seq(Nat)
    BY <2>3, NewTokensType
  <2> DEFINE sampled == {s}
  <2>5. /\ Outcome(sampled, entries, seqs) /\ sampled \subseteq Live
        /\ \A t \in sampled : NewTokens(entries[t]) \in Seq(Nat)
    BY <1>2, <1>5, <2>4
  <2> HIDE DEF sampled
  <2> QED BY <2>5, OutcomeServes
<1>6. CASE left # <<>>
  <2> DEFINE sampled == {}
  <2>1. /\ Outcome(sampled, entries, seqs) /\ sampled \subseteq Live
        /\ \A t \in sampled : NewTokens(entries[t]) \in Seq(Nat)
    BY <1>2, <1>6
  <2> HIDE DEF sampled
  <2> QED BY <2>1, OutcomeServes
<1> QED BY <1>5, <1>6

LEMMA BatchDecodeServes ==
  ASSUME Inductive, BatchDecode, NEW r \in Request
  PROVE  ClientStep(r)
<1>1. Structure /\ LiveKept
  BY DEF Inductive
<1>2. PICK entries, seqs :
        /\ Outcome(Decoding, entries, seqs)
        /\ \A s \in Decoding :
             /\ entries[s] = [entry[s] EXCEPT !.committed_tokens =
                                Append(@, Len(HeldIn(entries, seqs, s)) + 1)]
             /\ HeldIn(entries, seqs, s) = Held(s) \o <<Last(entry[s].committed_tokens)>>
        /\ \A s \in Live \ Decoding :
             entries[s] = entry[s] /\ HeldIn(entries, seqs, s) = Held(s)
  BY <1>1, BatchDecodeStructure
<1>3. ASSUME NEW s \in Decoding PROVE s \in Live /\ NewTokens(entries[s]) \in Seq(Nat)
  <2>1. s \in Live /\ Last(entry[s].committed_tokens) \in Nat
    BY <1>1, DecodingFacts
  <2>2. entry[s] \in Entry /\ Held(s) \in Seq(Nat)
    BY <2>1, KeptFacts
  <2>3. entry[s].committed_tokens \in Seq(Nat) /\ entry[s].next_callback_token_pos \in Nat
    BY <2>2, EntryType
  <2>4. PICK seq : seq = HeldIn(entries, seqs, s)
    OBVIOUS
  <2>5. seq \in Seq(Nat)
    <3>1. PICK held, t : held = Held(s) /\ t = Last(entry[s].committed_tokens)
      OBVIOUS
    <3>2. seq = held \o <<t>> /\ held \in Seq(Nat) /\ t \in Nat
      BY <1>2, <2>1, <2>2, <2>4, <3>1
    <3> QED BY <3>2
  <2>6. entries[s] = [entry[s] EXCEPT !.committed_tokens = Append(@, Len(seq) + 1)]
    BY <1>2, <2>4
  <2>7. /\ entries[s].committed_tokens = Append(entry[s].committed_tokens, Len(seq) + 1)
        /\ entries[s].next_callback_token_pos = entry[s].next_callback_token_pos
    BY <2>2, <2>6 DEF Entry
  <2>8. entries[s].committed_tokens \in Seq(Nat) /\ entries[s].next_callback_token_pos \in Nat
    BY <2>3, <2>5, <2>7
  <2> QED BY <2>1, <2>8, NewTokensType
<1>4. Decoding \subseteq Live
  BY <1>3
<1> QED BY <1>2, <1>3, <1>4, OutcomeServes

LEMMA EveryStepServes ==
  ASSUME Inductive, [Next]_vars, NEW r \in Request
  PROVE  ClientStep(r)
<1>1. Structure /\ LiveKept
  BY DEF Inductive
<1>2. ASSUME NEW s \in Request, AddRequest(s) PROVE ClientStep(r)
  BY <1>2, AddRequestServes
<1>3. ASSUME NEW s \in Request, StartGeneration(s) PROVE ClientStep(r)
  BY <1>1, <1>3, StartGenerationStructure, QuietServes
<1>4. ASSUME NEW s \in Request, AbortRequest(s) PROVE ClientStep(r)
  <2>1. s \in Live /\ Abort(s, "abort")
    BY <1>4 DEF AbortRequest
  <2> QED BY <2>1, AbortServes
<1>5. CASE Reset
  BY <1>5, ResetServes
<1>6. ASSUME NEW s \in Live, PrepareReceive(s) PROVE ClientStep(r)
  BY <1>1, <1>6, PrepareReceiveStructure, QuietServes
<1>7. ASSUME NEW s \in Live, RemoteSend(s) PROVE ClientStep(r)
  BY <1>7, RemoteSendServes
<1>8. ASSUME NEW s \in Live, NewRequestPrefill(s) PROVE ClientStep(r)
  BY <1>8, NewRequestPrefillServes
<1>9. CASE BatchDecode
  BY <1>9, BatchDecodeServes
<1>10. CASE Preempt
  <2>1. PICK s : s = Last(running_queue)
    OBVIOUS
  <2>2. s \in Live /\ Abort(s, "preempt")
    BY <1>1, <1>10, <2>1, PreemptFacts DEF Preempt
  <2> QED BY <2>2, AbortServes
<1>11. CASE UNCHANGED vars
  BY <1>11, QuietServes DEF vars, Live
<1> QED BY <1>2, <1>3, <1>4, <1>5, <1>6, <1>7, <1>8, <1>9, <1>10, <1>11 DEF Next, EngineStep

(* No step forgets or changes a submission.                                *)
LEMMA SubmissionsStay ==
  ASSUME Inductive, [Next]_vars
  PROVE  \A s \in DOMAIN submission : s \in DOMAIN submission' /\ submission'[s] = submission[s]
<1>1. ASSUME NEW r \in Request, AddRequest(r)
      PROVE  \A s \in DOMAIN submission : s \in DOMAIN submission' /\ submission'[s] = submission[s]
  BY <1>1 DEF AddRequest, Put
<1>2. ASSUME \A r \in Request : ~AddRequest(r) PROVE submission' = submission
  <2>1. ASSUME NEW r, StartGeneration(r) \/ AbortRequest(r) PROVE submission' = submission
    BY <2>1 DEF StartGeneration, AbortRequest, Abort
  <2>2. CASE Reset
    BY <2>2 DEF Reset
  <2>3. ASSUME NEW r, PrepareReceive(r) \/ RemoteSend(r) PROVE submission' = submission
    BY <2>3, Zenon DEF PrepareReceive, RemoteSend
  <2>4. ASSUME NEW r, NewRequestPrefill(r) PROVE submission' = submission
    BY <2>4, Zenon DEF NewRequestPrefill, PostProcess
  <2>5. CASE BatchDecode
    BY <2>5, Zenon DEF BatchDecode, PostProcess
  <2>6. CASE Preempt
    BY <2>6 DEF Preempt, Abort
  <2>7. CASE UNCHANGED vars
    BY <2>7 DEF vars
  <2> QED BY <1>2, <2>1, <2>2, <2>3, <2>4, <2>5, <2>6, <2>7 DEF Next, EngineStep
<1> QED BY <1>1, <1>2

(* The engine in disaggregation mode implements RequestStream: its initial *)
(* states are initial there, each of its steps is a step or a stutter      *)
(* there, through refusals, hand-overs, aborts, preemptions and resets     *)
(* (StreamBackErrorImpl, AbortRequestImpl, ActionStepPostProcess).         *)
THEOREM DisaggImplementsStream == Spec => ServesClients
<1>1. Init => Clients!Init
  BY DEF Init, Clients!Init, Live
<1>2. Inductive /\ Inductive' /\ [Next]_vars
        => [Clients!Next]_<<Live, streamed, [r \in Request |-> Len(ended[r])]>>
  BY EveryStepServes, SubmissionsStay, ClientStepServes DEF Clients!Next
<1> QED BY <1>1, <1>2, DisaggInvariance, PTL DEF Spec, ServesClients, Clients!Spec
=============================================================================
