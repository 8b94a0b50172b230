------------------------------ MODULE ChatProofs -------------------------------
(***************************************************************************)
(* What the prompt builder and the echo engine promise, for every template *)
(* and request.  The theorems assume that JSON is what it is: IsJSON.      *)
(***************************************************************************)
EXTENDS ChatService, InputLemmas

-----------------------------------------------------------------------------
(* Checks made in order.                                                   *)

(* Checks do not fail exactly if all have passed.                          *)
LEMMA InTurnPassed ==
  ASSUME NEW checks, DOMAIN checks \subseteq Nat
  PROVE  InTurn(checks) = "ok" <=> \A i \in DOMAIN checks : checks[i] = "ok"
<1> DEFINE failed == {i \in DOMAIN checks : checks[i] # "ok"}
<1>1. failed # {} => Min(failed) \in failed
  BY MinOf
<1>2. InTurn(checks) = IF failed = {} THEN "ok" ELSE checks[Min(failed)]
  BY DEF InTurn
<1> QED BY <1>1, <1>2

(* The outcome is that of a check, or "ok".                                *)
LEMMA InTurnOutcome ==
  ASSUME NEW checks, DOMAIN checks \subseteq Nat,
         \A i \in DOMAIN checks : checks[i] \in Outcomes
  PROVE  InTurn(checks) \in Outcomes
<1> DEFINE failed == {i \in DOMAIN checks : checks[i] # "ok"}
<1>1. failed # {} => Min(failed) \in failed
  BY MinOf
<1>2. InTurn(checks) = IF failed = {} THEN "ok" ELSE checks[Min(failed)]
  BY DEF InTurn
<1> QED BY <1>1, <1>2 DEF Outcomes

(* The same for checks that are listed.                                    *)
LEMMA InTurnThree ==
  ASSUME NEW a \in Outcomes, NEW b \in Outcomes, NEW c \in Outcomes
  PROVE  /\ InTurn(<<a, b, c>>) \in Outcomes
         /\ InTurn(<<a, b, c>>) = "ok" <=> a = "ok" /\ b = "ok" /\ c = "ok"
<1> DEFINE s == <<a, b, c>>
<1>1. DOMAIN s = 1..3 /\ s[1] = a /\ s[2] = b /\ s[3] = c
  OBVIOUS
<1>2. DOMAIN s \subseteq Nat /\ \A i \in DOMAIN s : s[i] \in Outcomes
  BY <1>1
<1> HIDE DEF s
<1>3. InTurn(s) \in Outcomes
  BY <1>2, InTurnOutcome
<1>4. InTurn(s) = "ok" <=> \A i \in DOMAIN s : s[i] = "ok"
  BY <1>2, InTurnPassed
<1>5. InTurn(s) = "ok" <=> a = "ok" /\ b = "ok" /\ c = "ok"
  <2>1. \A i \in DOMAIN s : i = 1 \/ i = 2 \/ i = 3
    BY <1>1
  <2> QED BY <1>1, <1>4, <2>1
<1> QED BY <1>3, <1>5 DEF s

-----------------------------------------------------------------------------
(* Folds, element by element.                                              *)

(* The largest of some positions is the last, and one less lies before it. *)
LEMMA LastPosition ==
  ASSUME NEW n \in Nat, NEW S \in SUBSET (1..n), S # {}
  PROVE  /\ Max(S) \in S /\ S \ {Max(S)} \in SUBSET (1..n)
         /\ n \in Nat \ {0} /\ S \ {Max(S)} \in SUBSET (1..(n - 1))
<1>1. S \subseteq 0..n
  OBVIOUS
<1>2. Max(S) \in S /\ \A k \in S : k <= Max(S)
  BY <1>1, MaxOf
<1>3. \A k \in S : k \in 1..n
  OBVIOUS
<1>4. Max(S) \in 1..n /\ n # 0
  <2>1. Max(S) \in 1..n
    BY <1>2
  <2> QED BY <2>1
<1>5. ASSUME NEW k \in S \ {Max(S)} PROVE k \in 1..(n - 1)
  <2> DEFINE l == Max(S)
  <2>1. k \in 1..n /\ l \in 1..n /\ k <= l /\ k # l
    BY <1>2, <1>4
  <2> HIDE DEF l
  <2> QED BY <2>1
<1> QED BY <1>2, <1>4, <1>5

LEMMA LastOfPrefix ==
  ASSUME NEW n \in Nat \ {0}
  PROVE  Max(1..n) = n /\ (1..n) \ {n} = 1..(n - 1) /\ 1..n # {}
<1>1. 1..n \subseteq 0..n /\ n \in 1..n
  OBVIOUS
<1>2. Max(1..n) \in 1..n /\ \A k \in 1..n : k <= Max(1..n)
  BY <1>1, MaxOf
<1> QED BY <1>1, <1>2

(* The states CreatePrompt goes through.                                   *)
Way(conv, function, vision, start, messages, run) ==
  /\ run[0] = start
  /\ \A i \in 1..Len(messages) :
       run[i] = ProcessMessage(conv, function, vision, run[i - 1], messages[i])

AfterMessages(conv, function, vision, start, messages) ==
  FoldLeft(LAMBDA s, m : ProcessMessage(conv, function, vision, s, m), start, messages)

LEMMA MessagesWay ==
  ASSUME NEW conv, NEW function, NEW vision, NEW start, NEW messages, IsSequence(messages)
  PROVE  \E run : /\ Way(conv, function, vision, start, messages, run)
                  /\ AfterMessages(conv, function, vision, start, messages) = run[Len(messages)]
<1> DEFINE n == Len(messages)
           After1(s, i) == ProcessMessage(conv, function, vision, s, messages[i])
           Sol(m, g) == g = [s \in SUBSET (1..m) |->
                               IF s = {} THEN start ELSE After1(g[s \ {Max(s)}], Max(s))]
           T == {m \in Nat : ~ \E g : Sol(m, g)}
           g == CHOOSE f : Sol(n, f)
           run == [i \in 0..n |-> g[1..i]]
<1>1. n \in Nat /\ DOMAIN messages = 1..n
  BY DEF IsSequence
<1>2. AfterMessages(conv, function, vision, start, messages) = g[1..n]
  BY <1>1 DEF AfterMessages, FoldLeft, MapThenFoldSet
<1> HIDE DEF After1
<1>3. T = {}
  <2> SUFFICES ASSUME T # {} PROVE FALSE
    OBVIOUS
  <2>1. PICK m \in T : \A k \in T : m <= k
    <3>1. T \subseteq Nat
      OBVIOUS
    <3> QED BY <3>1, LeastNatural
  <2>2. CASE m = 0
    <3>1. 1..0 = {} /\ SUBSET (1..0) = {{}}
      OBVIOUS
    <3>2. Sol(0, [s \in {{}} |-> start])
      BY <3>1
    <3> QED BY <2>1, <2>2, <3>2
  <2>3. CASE m # 0
    <3>1. m - 1 \in Nat /\ m - 1 \notin T /\ m \in Nat
      <4>1. m \in Nat /\ m - 1 \in Nat /\ ~(m <= m - 1)
        BY <2>3
      <4> QED BY <2>1, <4>1
    <3>2. PICK f : Sol(m - 1, f)
      BY <3>1
    <3> DEFINE h == [s \in SUBSET (1..m) |->
                       IF s = {} THEN start ELSE After1(f[s \ {Max(s)}], Max(s))]
    <3>3. \A s \in SUBSET (1..(m - 1)) : h[s] = f[s]
      <4>1. SUBSET (1..(m - 1)) \subseteq SUBSET (1..m)
        BY <3>1
      <4>2. ASSUME NEW s \in SUBSET (1..(m - 1)) PROVE h[s] = f[s]
        <5>1. f[s] = IF s = {} THEN start ELSE After1(f[s \ {Max(s)}], Max(s))
          BY <3>2
        <5> QED BY <4>1, <5>1
      <4> QED BY <4>2
    <3>4. \A s \in SUBSET (1..m) : s # {} => h[s \ {Max(s)}] = f[s \ {Max(s)}]
      BY <3>1, <3>3, LastPosition
    <3> DEFINE e == [s \in SUBSET (1..m) |->
                       IF s = {} THEN start ELSE After1(h[s \ {Max(s)}], Max(s))]
    <3>5. ASSUME NEW s \in SUBSET (1..m) PROVE h[s] = e[s]
      <4> HIDE DEF h
      <4>1. CASE s = {}
        BY <4>1 DEF h
      <4>2. CASE s # {}
        <5>1. h[s \ {Max(s)}] = f[s \ {Max(s)}]
          BY <3>4, <4>2
        <5>2. h[s] = After1(f[s \ {Max(s)}], Max(s))
          BY <4>2 DEF h
        <5> QED BY <4>2, <5>1, <5>2
      <4> QED BY <4>1, <4>2
    <3>6. Sol(m, h)
      <4>1. h = [s \in SUBSET (1..m) |-> h[s]] /\ e = [s \in SUBSET (1..m) |-> e[s]]
        OBVIOUS
      <4> HIDE DEF h, e
      <4>2. h = e
        BY <3>5, <4>1
      <4> QED BY <4>2 DEF e
    <3> QED BY <2>1, <3>6
  <2> QED BY <2>2, <2>3
<1>4. Sol(n, g)
  <2>1. \E f : Sol(n, f)
    BY <1>1, <1>3
  <2> QED BY <2>1
<1> HIDE DEF g
<1>5. g[1..0] = start
  <2>1. 1..0 = {} /\ {} \in SUBSET (1..n)
    OBVIOUS
  <2> QED BY <1>4, <2>1
<1>6. ASSUME NEW i \in 1..n PROVE g[1..i] = After1(g[1..(i - 1)], i)
  <2>1. i \in Nat \ {0} /\ 1..i \in SUBSET (1..n)
    BY <1>1
  <2>2. Max(1..i) = i /\ (1..i) \ {i} = 1..(i - 1) /\ 1..i # {}
    BY <2>1, LastOfPrefix
  <2>3. g[1..i] = After1(g[(1..i) \ {Max(1..i)}], Max(1..i))
    BY <1>4, <2>1, <2>2
  <2> QED BY <2>2, <2>3
<1>7. Way(conv, function, vision, start, messages, run)
  <2>1. run[0] = start
    BY <1>1, <1>5
  <2>2. \A i \in 1..n : run[i] = After1(run[i - 1], i)
    BY <1>1, <1>6
  <2> QED BY <2>1, <2>2 DEF Way, After1
<1>8. run[n] = g[1..n]
  BY <1>1
<1> HIDE DEF run
<1> QED BY <1>2, <1>7, <1>8

(* The same for the parts of a message.                                    *)
PartWay(conv, role, function, vision, begun, items, run) ==
  /\ run[0] = begun
  /\ \A i \in 1..Len(items) :
       run[i] = ProcessPart(conv, role, function, vision, run[i - 1], items[i])

AfterParts(conv, role, function, vision, begun, items) ==
  FoldLeft(LAMBDA x, item : ProcessPart(conv, role, function, vision, x, item), begun, items)

LEMMA PartsWay ==
  ASSUME NEW conv, NEW role, NEW function, NEW vision, NEW begun, NEW items, IsSequence(items)
  PROVE  \E run : /\ PartWay(conv, role, function, vision, begun, items, run)
                  /\ AfterParts(conv, role, function, vision, begun, items) = run[Len(items)]
<1> DEFINE n == Len(items)
           After1(s, i) == ProcessPart(conv, role, function, vision, s, items[i])
           Sol(m, g) == g = [s \in SUBSET (1..m) |->
                               IF s = {} THEN begun ELSE After1(g[s \ {Max(s)}], Max(s))]
           T == {m \in Nat : ~ \E g : Sol(m, g)}
           g == CHOOSE f : Sol(n, f)
           run == [i \in 0..n |-> g[1..i]]
<1>1. n \in Nat /\ DOMAIN items = 1..n
  BY DEF IsSequence
<1>2. AfterParts(conv, role, function, vision, begun, items)
        = g[1..n]
  BY <1>1 DEF AfterParts, FoldLeft, MapThenFoldSet
<1> HIDE DEF After1
<1>3. T = {}
  <2> SUFFICES ASSUME T # {} PROVE FALSE
    OBVIOUS
  <2>1. PICK m \in T : \A k \in T : m <= k
    <3>1. T \subseteq Nat
      OBVIOUS
    <3> QED BY <3>1, LeastNatural
  <2>2. CASE m = 0
    <3>1. 1..0 = {} /\ SUBSET (1..0) = {{}}
      OBVIOUS
    <3>2. Sol(0, [s \in {{}} |-> begun])
      BY <3>1
    <3> QED BY <2>1, <2>2, <3>2
  <2>3. CASE m # 0
    <3>1. m - 1 \in Nat /\ m - 1 \notin T /\ m \in Nat
      <4>1. m \in Nat /\ m - 1 \in Nat /\ ~(m <= m - 1)
        BY <2>3
      <4> QED BY <2>1, <4>1
    <3>2. PICK f : Sol(m - 1, f)
      BY <3>1
    <3> DEFINE h == [s \in SUBSET (1..m) |->
                       IF s = {} THEN begun ELSE After1(f[s \ {Max(s)}], Max(s))]
    <3>3. \A s \in SUBSET (1..(m - 1)) : h[s] = f[s]
      <4>1. SUBSET (1..(m - 1)) \subseteq SUBSET (1..m)
        BY <3>1
      <4>2. ASSUME NEW s \in SUBSET (1..(m - 1)) PROVE h[s] = f[s]
        <5>1. f[s] = IF s = {} THEN begun ELSE After1(f[s \ {Max(s)}], Max(s))
          BY <3>2
        <5> QED BY <4>1, <5>1
      <4> QED BY <4>2
    <3>4. \A s \in SUBSET (1..m) : s # {} => h[s \ {Max(s)}] = f[s \ {Max(s)}]
      BY <3>1, <3>3, LastPosition
    <3> DEFINE e == [s \in SUBSET (1..m) |->
                       IF s = {} THEN begun ELSE After1(h[s \ {Max(s)}], Max(s))]
    <3>5. ASSUME NEW s \in SUBSET (1..m) PROVE h[s] = e[s]
      <4> HIDE DEF h
      <4>1. CASE s = {}
        BY <4>1 DEF h
      <4>2. CASE s # {}
        <5>1. h[s \ {Max(s)}] = f[s \ {Max(s)}]
          BY <3>4, <4>2
        <5>2. h[s] = After1(f[s \ {Max(s)}], Max(s))
          BY <4>2 DEF h
        <5> QED BY <4>2, <5>1, <5>2
      <4> QED BY <4>1, <4>2
    <3>6. Sol(m, h)
      <4>1. h = [s \in SUBSET (1..m) |-> h[s]] /\ e = [s \in SUBSET (1..m) |-> e[s]]
        OBVIOUS
      <4> HIDE DEF h, e
      <4>2. h = e
        BY <3>5, <4>1
      <4> QED BY <4>2 DEF e
    <3> QED BY <2>1, <3>6
  <2> QED BY <2>2, <2>3
<1>4. Sol(n, g)
  <2>1. \E f : Sol(n, f)
    BY <1>1, <1>3
  <2> QED BY <2>1
<1> HIDE DEF g
<1>5. g[1..0] = begun
  <2>1. 1..0 = {} /\ {} \in SUBSET (1..n)
    OBVIOUS
  <2> QED BY <1>4, <2>1
<1>6. ASSUME NEW i \in 1..n PROVE g[1..i] = After1(g[1..(i - 1)], i)
  <2>1. i \in Nat \ {0} /\ 1..i \in SUBSET (1..n)
    BY <1>1
  <2>2. Max(1..i) = i /\ (1..i) \ {i} = 1..(i - 1) /\ 1..i # {}
    BY <2>1, LastOfPrefix
  <2>3. g[1..i] = After1(g[(1..i) \ {Max(1..i)}], Max(1..i))
    BY <1>4, <2>1, <2>2
  <2> QED BY <2>2, <2>3
<1>7. PartWay(conv, role, function, vision, begun, items, run)
  <2>1. run[0] = begun
    BY <1>1, <1>5
  <2>2. \A i \in 1..n : run[i] = After1(run[i - 1], i)
    BY <1>1, <1>6
  <2> QED BY <2>1, <2>2 DEF PartWay, After1
<1>8. run[n] = g[1..n]
  BY <1>1
<1> HIDE DEF run
<1> QED BY <1>2, <1>7, <1>8

(* And for the messages that are chosen by their role.                     *)
Choosing(messages, from_system, run) ==
  /\ run[0] = <<>>
  /\ \A i \in 1..Len(messages) :
       run[i] = IF (messages[i].role = "system") = from_system
                THEN Append(run[i - 1], messages[i]) ELSE run[i - 1]

LEMMA ChosenWay ==
  ASSUME NEW messages, NEW from_system, IsSequence(messages)
  PROVE  \E run : /\ Choosing(messages, from_system, run)
                  /\ Chosen(messages, from_system) = run[Len(messages)]
<1> DEFINE n == Len(messages)
           After1(s, i) == IF (messages[i].role = "system") = from_system
                           THEN Append(s, messages[i]) ELSE s
           Sol(m, g) == g = [s \in SUBSET (1..m) |->
                               IF s = {} THEN <<>> ELSE After1(g[s \ {Max(s)}], Max(s))]
           T == {m \in Nat : ~ \E g : Sol(m, g)}
           g == CHOOSE f : Sol(n, f)
           run == [i \in 0..n |-> g[1..i]]
<1>1. n \in Nat /\ DOMAIN messages = 1..n
  BY DEF IsSequence
<1>2. Chosen(messages, from_system) = g[1..n]
  BY <1>1 DEF Chosen, FoldLeft, MapThenFoldSet
<1> HIDE DEF After1
<1>3. T = {}
  <2> SUFFICES ASSUME T # {} PROVE FALSE
    OBVIOUS
  <2>1. PICK m \in T : \A k \in T : m <= k
    <3>1. T \subseteq Nat
      OBVIOUS
    <3> QED BY <3>1, LeastNatural
  <2>2. CASE m = 0
    <3>1. 1..0 = {} /\ SUBSET (1..0) = {{}}
      OBVIOUS
    <3>2. Sol(0, [s \in {{}} |-> <<>>])
      BY <3>1
    <3> QED BY <2>1, <2>2, <3>2
  <2>3. CASE m # 0
    <3>1. m - 1 \in Nat /\ m - 1 \notin T /\ m \in Nat
      <4>1. m \in Nat /\ m - 1 \in Nat /\ ~(m <= m - 1)
        BY <2>3
      <4> QED BY <2>1, <4>1
    <3>2. PICK f : Sol(m - 1, f)
      BY <3>1
    <3> DEFINE h == [s \in SUBSET (1..m) |->
                       IF s = {} THEN <<>> ELSE After1(f[s \ {Max(s)}], Max(s))]
    <3>3. \A s \in SUBSET (1..(m - 1)) : h[s] = f[s]
      <4>1. SUBSET (1..(m - 1)) \subseteq SUBSET (1..m)
        BY <3>1
      <4>2. ASSUME NEW s \in SUBSET (1..(m - 1)) PROVE h[s] = f[s]
        <5>1. f[s] = IF s = {} THEN <<>> ELSE After1(f[s \ {Max(s)}], Max(s))
          BY <3>2
        <5> QED BY <4>1, <5>1
      <4> QED BY <4>2
    <3>4. \A s \in SUBSET (1..m) : s # {} => h[s \ {Max(s)}] = f[s \ {Max(s)}]
      BY <3>1, <3>3, LastPosition
    <3> DEFINE e == [s \in SUBSET (1..m) |->
                       IF s = {} THEN <<>> ELSE After1(h[s \ {Max(s)}], Max(s))]
    <3>5. ASSUME NEW s \in SUBSET (1..m) PROVE h[s] = e[s]
      <4> HIDE DEF h
      <4>1. CASE s = {}
        BY <4>1 DEF h
      <4>2. CASE s # {}
        <5>1. h[s \ {Max(s)}] = f[s \ {Max(s)}]
          BY <3>4, <4>2
        <5>2. h[s] = After1(f[s \ {Max(s)}], Max(s))
          BY <4>2 DEF h
        <5> QED BY <4>2, <5>1, <5>2
      <4> QED BY <4>1, <4>2
    <3>6. Sol(m, h)
      <4>1. h = [s \in SUBSET (1..m) |-> h[s]] /\ e = [s \in SUBSET (1..m) |-> e[s]]
        OBVIOUS
      <4> HIDE DEF h, e
      <4>2. h = e
        BY <3>5, <4>1
      <4> QED BY <4>2 DEF e
    <3> QED BY <2>1, <3>6
  <2> QED BY <2>2, <2>3
<1>4. Sol(n, g)
  <2>1. \E f : Sol(n, f)
    BY <1>1, <1>3
  <2> QED BY <2>1
<1> HIDE DEF g
<1>5. g[1..0] = <<>>
  <2>1. 1..0 = {} /\ {} \in SUBSET (1..n)
    OBVIOUS
  <2> QED BY <1>4, <2>1
<1>6. ASSUME NEW i \in 1..n PROVE g[1..i] = After1(g[1..(i - 1)], i)
  <2>1. i \in Nat \ {0} /\ 1..i \in SUBSET (1..n)
    BY <1>1
  <2>2. Max(1..i) = i /\ (1..i) \ {i} = 1..(i - 1) /\ 1..i # {}
    BY <2>1, LastOfPrefix
  <2>3. g[1..i] = After1(g[(1..i) \ {Max(1..i)}], Max(1..i))
    BY <1>4, <2>1, <2>2
  <2> QED BY <2>2, <2>3
<1>7. Choosing(messages, from_system, run)
  <2>1. run[0] = <<>>
    BY <1>1, <1>5
  <2>2. \A i \in 1..n : run[i] = After1(run[i - 1], i)
    BY <1>1, <1>6
  <2> QED BY <2>1, <2>2 DEF Choosing, After1
<1>8. run[n] = g[1..n]
  BY <1>1
<1> HIDE DEF run
<1> QED BY <1>2, <1>7, <1>8

-----------------------------------------------------------------------------
(* What a prompt is made of.                                               *)

Filled(W)     == [kind : {"text", "image"}, ids : Seq(W) \ {<<>>}] \cup [kind : {"token"}, ids : Seq(W)]
IsState(s, W) ==
  s \in [outcome : Outcomes, pending_text : Seq(W), data : Seq(Filled(W)), count : Nat]
IsMessage(m, W) ==
  /\ m = [role |-> m.role, content |-> m.content] /\ IsContent(m.content, W)
  /\ m.content.type \in {"string", "null", "array"}
  /\ m.content.type = "array" =>
       \A i \in DOMAIN m.content.of : m.content.of[i].type = "object"
IsMessages(messages, W) ==
  IsSequence(messages) /\ \A i \in 1..Len(messages) : IsMessage(messages[i], W)
IsConv(conv, W) ==
  /\ {conv.system_template, conv.system_message, conv.role_content_sep, conv.role_empty_sep}
       \subseteq Seq(W)
  /\ conv.system_prefix_token_ids # <<>> => conv.system_prefix_token_ids[1] \in Seq(W)
  /\ \A role \in DOMAIN conv.roles : conv.roles[role] \in Seq(W)
  /\ \A role \in DOMAIN conv.role_templates : conv.role_templates[role] \in Seq(W)
  /\ conv.seps \in Seq(Seq(W)) /\ IsMessages(conv.messages, W)

(* The first place of a word in a text, if any.                            *)
Place(text, w) == SelectInSeq(text, LAMBDA word : word = w)

LEMMA FirstPlace ==
  ASSUME NEW W, NEW text \in Seq(W), NEW w
  PROVE  /\ Place(text, w) \in 0..Len(text)
         /\ Place(text, w) # 0 => /\ text[Place(text, w)] = w
                                 /\ \A i \in 1..(Place(text, w) - 1) : text[i] # w
         /\ Place(text, w) = 0 => \A i \in 1..Len(text) : text[i] # w
<1> DEFINE I == {i \in 1..Len(text) : text[i] = w}
           at == Place(text, w)
<1>1. at = IF I # {} THEN Min(I) ELSE 0
  BY DEF SelectInSeq, Place
<1>2. Len(text) \in Nat /\ I \subseteq Nat
  OBVIOUS
<1>3. I # {} => Min(I) \in I /\ \A k \in I : Min(I) <= k
  BY <1>2, MinOf
<1>4. CASE I = {}
  <2>1. at = 0
    BY <1>1, <1>4
  <2> QED BY <1>2, <1>4, <2>1
<1>5. CASE I # {}
  <2>1. at = Min(I)
    BY <1>1, <1>5
  <2>2. at \in I /\ \A k \in I : at <= k
    BY <1>3, <1>5, <2>1
  <2>3. at \in 1..Len(text) /\ text[at] = w
    BY <2>2
  <2>4. ASSUME NEW i \in 1..(at - 1) PROVE text[i] # w
    <3>1. i \in 1..Len(text) /\ ~(at <= i)
      BY <1>2, <2>3
    <3> QED BY <2>2, <3>1
  <2>5. at # 0 /\ at \in 0..Len(text)
    BY <2>3
  <2> QED BY <2>3, <2>4, <2>5
<1> QED BY <1>4, <1>5

LEMMA ReplacedType ==
  ASSUME NEW W, NEW text \in Seq(W), NEW placeholder, NEW new \in Seq(W)
  PROVE  Replaced(text, placeholder, new) \in Seq(W)
<1> DEFINE at == Place(text, placeholder)
<1>1. Replaced(text, placeholder, new)
        = IF at = 0 THEN text ELSE SubSeq(text, 1, at - 1) \o new \o SubSeq(text, at + 1, Len(text))
  BY DEF Replaced, Place
<1>2. at \in 0..Len(text)
  BY FirstPlace
<1> HIDE DEF at
<1>3. at # 0 => SubSeq(text, 1, at - 1) \in Seq(W) /\ SubSeq(text, at + 1, Len(text)) \in Seq(W)
  BY <1>2
<1> QED BY <1>1, <1>3

LEMMA RoleTextType ==
  ASSUME NEW W, NEW conv, IsConv(conv, W), NEW role \in DOMAIN conv.role_templates,
         NEW content \in Seq(W), NEW function \in Seq(W)
  PROVE  GetRoleText(conv, role, content, function) \in Seq(W)
<1> DEFINE text == Replaced(conv.role_templates[role], Placeholder[role], content)
<1>1. conv.role_templates[role] \in Seq(W)
  BY DEF IsConv
<1>2. text \in Seq(W)
  BY <1>1, ReplacedType
<1> HIDE DEF text
<1>3. Replaced(text, Placeholder.function, function) \in Seq(W)
  BY <1>2, ReplacedType
<1>4. GetRoleText(conv, role, content, function)
        = IF function = <<>> THEN text ELSE Replaced(text, Placeholder.function, function)
  BY DEF GetRoleText, text
<1> QED BY <1>2, <1>3, <1>4

(* The steps of CreatePrompt on its state.                                 *)
LEMMA SayType ==
  ASSUME NEW W, NEW s, IsState(s, W), NEW words \in Seq(W)
  PROVE  /\ IsState(Say(s, words), W) /\ Say(s, words).outcome = s.outcome
         /\ Say(s, words).pending_text = s.pending_text \o words
         /\ Say(s, words).data = s.data /\ Say(s, words).count = s.count
<1>1. s = [outcome |-> s.outcome, pending_text |-> s.pending_text, data |-> s.data,
           count |-> s.count]
  BY DEF IsState
<1>2. Say(s, words) = [outcome |-> s.outcome, pending_text |-> s.pending_text \o words,
                       data |-> s.data, count |-> s.count]
  <2>1. PICK p : p = s.pending_text \o words
    OBVIOUS
  <2>2. Say(s, words) = [s EXCEPT !.pending_text = p]
    BY <2>1 DEF Say
  <2> QED BY <1>1, <2>1, <2>2
<1>3. s.pending_text \o words \in Seq(W)
  BY DEF IsState
<1> QED BY <1>2, <1>3 DEF IsState

LEMMA StopType ==
  ASSUME NEW W, NEW s, IsState(s, W), NEW result \in Outcomes
  PROVE  /\ IsState(StopWith(s, result), W) /\ StopWith(s, result).outcome = result
BY DEF IsState, StopWith

LEMMA FlushedType ==
  ASSUME NEW W, NEW s, IsState(s, W)
  PROVE  /\ IsState(Flushed(s), W) /\ Flushed(s).outcome = s.outcome
         /\ Flushed(s).pending_text = <<>> /\ Flushed(s).count = s.count
         /\ Flushed(s).data = IF s.pending_text = <<>> THEN s.data
                              ELSE Append(s.data, [kind |-> "text", ids |-> s.pending_text])
<1>1. CASE s.pending_text = <<>>
  BY <1>1 DEF IsState, Flushed
<1>2. CASE s.pending_text # <<>>
  <2>1. [kind |-> "text", ids |-> s.pending_text] \in Filled(W)
    BY <1>2 DEF Filled, IsState
  <2>2. PICK d : d = Append(s.data, [kind |-> "text", ids |-> s.pending_text])
    OBVIOUS
  <2>3. d \in Seq(Filled(W))
    BY <2>1, <2>2 DEF IsState
  <2>4. Flushed(s) = [s EXCEPT !.data = d, !.pending_text = <<>>]
    BY <1>2, <2>2 DEF Flushed
  <2>5. PICK t : t = [s EXCEPT !.data = d]
    OBVIOUS
  <2>6. t = [outcome |-> s.outcome, pending_text |-> s.pending_text, data |-> d, count |-> s.count]
    BY <2>5 DEF IsState
  <2>7. Flushed(s) = [t EXCEPT !.pending_text = <<>>]
    BY <2>4, <2>5
  <2>8. Flushed(s) = [outcome |-> s.outcome, pending_text |-> <<>>, data |-> d, count |-> s.count]
    BY <2>6, <2>7
  <2> QED BY <1>2, <2>2, <2>3, <2>8 DEF IsState
<1> QED BY <1>1, <1>2

IsItem(item, W) ==
  /\ "text" \in DOMAIN item.of => item.of.text.of \in Seq(W)
  /\ "image_url" \in DOMAIN item.of => item.of.image_url.of \in Seq(W) \ {<<>>}

LEMMA ImageType ==
  ASSUME NEW W, NEW s, IsState(s, W), NEW ids \in Seq(W) \ {<<>>}
  PROVE  LET flushed == Flushed(s)
             t == [flushed EXCEPT !.data = Append(@, [kind |-> "image", ids |-> ids])] IN
         /\ IsState(t, W) /\ t.outcome = s.outcome /\ t.pending_text = <<>> /\ t.count = s.count
         /\ t.data = Append(Flushed(s).data, [kind |-> "image", ids |-> ids])
<1> DEFINE t == [Flushed(s) EXCEPT !.data = Append(@, [kind |-> "image", ids |-> ids])]
<1>1. PICK f : f = Flushed(s)
  OBVIOUS
<1>2. IsState(f, W) /\ f.outcome = s.outcome /\ f.pending_text = <<>> /\ f.count = s.count
  BY <1>1, FlushedType
<1>3. PICK d : d = Append(f.data, [kind |-> "image", ids |-> ids])
  OBVIOUS
<1>4. [kind |-> "image", ids |-> ids] \in Filled(W)
  BY DEF Filled
<1>5. d \in Seq(Filled(W))
  BY <1>2, <1>3, <1>4 DEF IsState
<1>6. t = [f EXCEPT !.data = d]
  BY <1>1, <1>3
<1>7. t = [outcome |-> f.outcome, pending_text |-> f.pending_text, data |-> d, count |-> f.count]
  <2>1. f = [outcome |-> f.outcome, pending_text |-> f.pending_text, data |-> f.data,
             count |-> f.count]
    BY <1>2 DEF IsState
  <2> HIDE DEF t
  <2> QED BY <1>6, <2>1
<1> HIDE DEF t
<1>8. IsState(t, W)
  BY <1>2, <1>5, <1>7 DEF IsState
<1>9. t.outcome = s.outcome /\ t.pending_text = <<>> /\ t.count = s.count /\ t.data = d
  BY <1>2, <1>7
<1>10. t.data = Append(Flushed(s).data, [kind |-> "image", ids |-> ids])
  BY <1>1, <1>3, <1>9
<1> QED BY <1>8, <1>9, <1>10 DEF t

(* A part of a message adds its text or its image, or stops.               *)
LEMMA PartStep ==
  ASSUME NEW W, NEW conv, IsConv(conv, W), NEW role, NEW function \in Seq(W), NEW vision,
         NEW s, IsState(s, W), NEW item, IsItem(item, W)
  PROVE  LET t == ProcessPart(conv, role, function, vision, s, item) IN
         /\ IsState(t, W) /\ (s.outcome # "ok" => t = s)
         /\ t.outcome = "ok" => t.count = s.count
         /\ t.outcome = "ok" <=> s.outcome = "ok" /\ Presentable(conv, vision, role, item)
<1> DEFINE t == ProcessPart(conv, role, function, vision, s, item)
           type == item.of.type.of
           image == LET flushed == Flushed(s) IN
                    [flushed EXCEPT !.data = Append(@, [kind |-> "image",
                                                        ids |-> item.of.image_url.of])]
<1>1. t = IF s.outcome # "ok" THEN s
          ELSE IF Absent(item, "type") THEN StopWith(s, "error")
          ELSE IF type = "text" THEN
                 IF Absent(item, "text") THEN StopWith(s, "error")
                 ELSE IF RoleTextThrows(conv, role) THEN StopWith(s, "exception")
                 ELSE Say(s, GetRoleText(conv, role, item.of.text.of, function))
          ELSE IF type = "image_url" THEN
                 IF Absent(item, "image_url") \/ ~vision THEN StopWith(s, "error") ELSE image
          ELSE StopWith(s, "error")
  BY Zenon DEF ProcessPart
<1> HIDE DEF t, type, image
<1>2. "error" \in Outcomes /\ "exception" \in Outcomes
  BY DEF Outcomes
<1> DEFINE shown == Presentable(conv, vision, role, item)
           Good(x) == /\ IsState(x, W) /\ (s.outcome # "ok" => x = s)
                      /\ x.outcome = "ok" => x.count = s.count
                      /\ x.outcome = "ok" <=> s.outcome = "ok" /\ shown
<1> HIDE DEF shown
<1>3. ASSUME s.outcome # "ok" PROVE Good(t)
  <2>1. t = s
    BY <1>1, <1>3, Zenon
  <2> QED BY <1>3, <2>1
<1>4. ASSUME s.outcome = "ok", NEW result \in {"error", "exception"}, t = StopWith(s, result),
             ~shown
      PROVE  Good(t)
  BY <1>2, <1>4, StopType
<1>5. ASSUME s.outcome = "ok", ~Absent(item, "text"), ~RoleTextThrows(conv, role), shown,
             t = Say(s, GetRoleText(conv, role, item.of.text.of, function))
      PROVE  Good(t)
  <2>1. item.of.text.of \in Seq(W)
    BY <1>5 DEF Absent, IsItem
  <2>2. role \in DOMAIN conv.role_templates
    BY <1>5 DEF RoleTextThrows
  <2>3. GetRoleText(conv, role, item.of.text.of, function) \in Seq(W)
    BY <2>1, <2>2, RoleTextType
  <2> QED BY <1>5, <2>3, SayType
<1>6. ASSUME s.outcome = "ok", ~Absent(item, "image_url"), shown, t = image PROVE Good(t)
  <2>1. item.of.image_url.of \in Seq(W) \ {<<>>}
    BY <1>6 DEF Absent, IsItem
  <2>2. IsState(image, W) /\ image.count = s.count /\ image.outcome = s.outcome
    BY <2>1, ImageType DEF image
  <2> QED BY <1>6, <2>2
<1>7. ASSUME s.outcome = "ok" PROVE Good(t)
  <2>1. shown = /\ ~Absent(item, "type")
                /\ \/ type = "text" /\ ~Absent(item, "text") /\ ~RoleTextThrows(conv, role)
                   \/ type = "image_url" /\ ~Absent(item, "image_url") /\ vision
    BY DEF shown, Presentable, Templated, RoleTextThrows, Absent, type
  <2>2. \/ (t = StopWith(s, "error") \/ t = StopWith(s, "exception")) /\ ~shown
        \/ /\ ~Absent(item, "text") /\ ~RoleTextThrows(conv, role) /\ shown
           /\ t = Say(s, GetRoleText(conv, role, item.of.text.of, function))
        \/ ~Absent(item, "image_url") /\ shown /\ t = image
    BY <1>1, <1>7, <2>1
  <2> HIDE DEF Good
  <2> QED BY <1>4, <1>5, <1>6, <1>7, <2>2
<1>8. Good(t)
  BY <1>3, <1>7
<1> QED BY <1>8 DEF t, shown

(* The parts of a message keep the state what it is; nothing follows a     *)
(* part that stops.                                                        *)
PartsTaken(conv, role, vision, begun, items, run, W) ==
  \A i \in 0..Len(items) :
    /\ IsState(run[i], W) /\ (run[i].outcome = "ok" => run[i].count = begun.count)
    /\ run[i].outcome = "ok" <=> \A k \in 1..i : Presentable(conv, vision, role, items[k])

LEMMA PartsType ==
  ASSUME NEW W, NEW conv, IsConv(conv, W), NEW role, NEW function \in Seq(W), NEW vision,
         NEW begun, IsState(begun, W), begun.outcome = "ok",
         NEW items, IsSequence(items), \A i \in 1..Len(items) : IsItem(items[i], W),
         NEW run, PartWay(conv, role, function, vision, begun, items, run)
  PROVE  PartsTaken(conv, role, vision, begun, items, run, W)
<1> DEFINE shown(k) == Presentable(conv, vision, role, items[k])
           Good(i) == /\ IsState(run[i], W) /\ (run[i].outcome = "ok" => run[i].count = begun.count)
                      /\ run[i].outcome = "ok" <=> \A k \in 1..i : shown(k)
           T == {i \in 0..Len(items) : ~Good(i)}
<1>1. Len(items) \in Nat
  BY DEF IsSequence
<1>2. Good(0)
  BY DEF PartWay
<1>3. ASSUME NEW i \in 1..Len(items), Good(i - 1) PROVE Good(i)
  <2> DEFINE before == run[i - 1]
  <2>1. run[i] = ProcessPart(conv, role, function, vision, before, items[i])
    BY DEF PartWay
  <2>2. IsState(before, W) /\ IsItem(items[i], W)
    BY <1>3
  <2> HIDE DEF before
  <2>3. /\ IsState(run[i], W) /\ (before.outcome # "ok" => run[i] = before)
        /\ run[i].outcome = "ok" => run[i].count = before.count
        /\ run[i].outcome = "ok" <=> before.outcome = "ok" /\ shown(i)
    BY <2>1, <2>2, PartStep
  <2>4. run[i].outcome = "ok" => before.outcome = "ok"
    BY <2>3
  <2>5. /\ before.outcome = "ok" => before.count = begun.count
        /\ before.outcome = "ok" <=> \A k \in 1..(i - 1) : shown(k)
    BY <1>3 DEF before
  <2>6. \A k : k \in 1..i <=> k = i \/ k \in 1..(i - 1)
    BY <1>1
  <2> HIDE DEF shown
  <2>7. run[i].outcome = "ok" <=> \A k \in 1..i : shown(k)
    BY <2>3, <2>5, <2>6
  <2> QED BY <2>3, <2>4, <2>5, <2>7
<1> HIDE DEF Good
<1>4. T = {}
  <2> SUFFICES ASSUME T # {} PROVE FALSE
    OBVIOUS
  <2>1. PICK i \in T : \A k \in T : i <= k
    <3>1. T \subseteq Nat
      OBVIOUS
    <3> QED BY <3>1, LeastNatural
  <2>2. i \in 1..Len(items) /\ i - 1 \in 0..Len(items) /\ ~(i <= i - 1)
    <3>1. i # 0
      BY <1>2, <2>1
    <3> QED BY <1>1, <3>1
  <2>3. Good(i - 1)
    BY <2>1, <2>2
  <2> QED BY <1>3, <2>1, <2>2, <2>3
<1> QED BY <1>4 DEF Good, PartsTaken

LEMMA CountType ==
  ASSUME NEW W, NEW s, IsState(s, W)
  PROVE  LET t == [s EXCEPT !.count = @ + 1] IN
         /\ IsState(t, W) /\ t.outcome = s.outcome /\ t.count = s.count + 1
         /\ t.pending_text = s.pending_text /\ t.data = s.data
BY DEF IsState

LEMMA RolePrefixType ==
  ASSUME NEW W, NEW conv, IsConv(conv, W), NEW s, NEW role \in DOMAIN conv.roles
  PROVE  RolePrefix(conv, s, role) \in Seq(W) /\ conv.roles[role] \o conv.role_empty_sep \in Seq(W)
<1>1. conv.roles[role] \in Seq(W) /\ conv.role_content_sep \in Seq(W) /\ conv.role_empty_sep \in Seq(W)
  BY DEF IsConv
<1>2. conv.roles[role] \o conv.role_content_sep \in Seq(W) /\ <<>> \in Seq(W)
  BY <1>1
<1>3. conv.roles[role] \o conv.role_empty_sep \in Seq(W)
  BY <1>1
<1> QED BY <1>2, <1>3, Zenon DEF RolePrefix

(* The remainder by the number of separators is a separator's place.       *)
LEMMA SeparatorType ==
  ASSUME NEW W, NEW conv, IsConv(conv, W), conv.seps # <<>>, NEW role
  PROVE  Separator(conv, role) \in Seq(W)
<1> DEFINE n == Len(conv.seps)
           k == IF role = "assistant" THEN 1 ELSE 0
<1>1. conv.seps \in Seq(Seq(W))
  BY DEF IsConv
<1>2. n \in Nat /\ n > 0 /\ k \in Nat
  BY <1>1
<1>3. Separator(conv, role) = conv.seps[(k % n) + 1]
  BY DEF Separator
<1> HIDE DEF n, k
<1>4. (k % n) \in 0..(n - 1)
  BY <1>2
<1>5. (k % n) + 1 \in 1..n
  BY <1>2, <1>4
<1>6. \A i \in 1..n : conv.seps[i] \in Seq(W)
  BY <1>1 DEF n
<1> QED BY <1>3, <1>5, <1>6

(* Of a message with content, the state before its separator.              *)
Begun(conv, s, m) == Say([s EXCEPT !.count = @ + 1], RolePrefix(conv, s, m.role))
Said(conv, function, vision, s, m) ==
  LET begun == Begun(conv, s, m) IN
  IF m.content.type = "array"
  THEN AfterParts(conv, m.role, function, vision, begun, m.content.of)
  ELSE IF RoleTextThrows(conv, m.role) THEN StopWith(begun, "exception")
  ELSE Say(begun, GetRoleText(conv, m.role, m.content.of, function))

LEMMA MessageCases ==
  ASSUME NEW conv, NEW function, NEW vision, NEW s, NEW m
  PROVE  ProcessMessage(conv, function, vision, s, m) =
           IF s.outcome # "ok" \/ m.role = "system" THEN s
           ELSE IF m.role \notin DOMAIN conv.roles THEN StopWith(s, "error")
           ELSE IF m.content.type = "null"
           THEN Say(s, conv.roles[m.role] \o conv.role_empty_sep)
           ELSE IF conv.seps = <<>> THEN StopWith(s, "exception")
           ELSE IF Said(conv, function, vision, s, m).outcome = "ok"
           THEN Say(Said(conv, function, vision, s, m), Separator(conv, m.role))
           ELSE Said(conv, function, vision, s, m)
BY Zenon DEF ProcessMessage, Said, Begun, AfterParts

Counted(s, t, W) == IsState(t, W) /\ t.outcome = s.outcome /\ t.count = s.count + 1

LEMMA BegunType ==
  ASSUME NEW W, NEW conv, IsConv(conv, W), NEW s, IsState(s, W), NEW m,
         m.role \in DOMAIN conv.roles
  PROVE  Counted(s, Begun(conv, s, m), W)
<1>1. PICK t : t = [s EXCEPT !.count = @ + 1]
  OBVIOUS
<1>2. /\ IsState(t, W) /\ t.outcome = s.outcome /\ t.count = s.count + 1
      /\ t.pending_text = s.pending_text /\ t.data = s.data
  BY <1>1, CountType
<1>3. RolePrefix(conv, s, m.role) \in Seq(W)
  BY RolePrefixType
<1>4. Begun(conv, s, m) = Say(t, RolePrefix(conv, s, m.role))
  BY <1>1 DEF Begun
<1>5. PICK words : words = RolePrefix(conv, s, m.role)
  OBVIOUS
<1>6. words \in Seq(W)
  BY <1>3, <1>5
<1>7. /\ IsState(Say(t, words), W) /\ Say(t, words).outcome = t.outcome
      /\ Say(t, words).pending_text = t.pending_text \o words
      /\ Say(t, words).data = t.data /\ Say(t, words).count = t.count
  BY <1>2, <1>6, SayType
<1>8. Begun(conv, s, m) = Say(t, words)
  BY <1>4, <1>5
<1> QED BY <1>2, <1>5, <1>7, <1>8 DEF Counted

(* What the template presents of a message with content.                   *)
Heard(conv, vision, m) ==
  IF m.content.type = "array"
  THEN \A k \in DOMAIN m.content.of : Presentable(conv, vision, m.role, m.content.of[k])
  ELSE Templated(conv, m.role)

LEMMA SaidType ==
  ASSUME NEW W, NEW conv, IsConv(conv, W), NEW function \in Seq(W), NEW vision,
         NEW s, IsState(s, W), s.outcome = "ok", NEW m, IsMessage(m, W),
         m.role \in DOMAIN conv.roles, m.content.type # "null"
  PROVE  LET said == Said(conv, function, vision, s, m) IN
         /\ IsState(said, W) /\ (said.outcome = "ok" => said.count = s.count + 1)
         /\ said.outcome = "ok" <=> Heard(conv, vision, m)
<1> DEFINE said == Said(conv, function, vision, s, m)
           begun == Begun(conv, s, m)
           items == m.content.of
<1>1. IsState(begun, W) /\ begun.outcome = "ok" /\ begun.count = s.count + 1
  <2>1. Counted(s, Begun(conv, s, m), W)
    BY BegunType
  <2> QED BY <2>1 DEF Counted
<1> HIDE DEF begun
<1>2. CASE m.content.type = "array"
  <2>1. /\ IsSequence(items) /\ \A i \in 1..Len(items) : IsItem(items[i], W)
        /\ DOMAIN items = 1..Len(items)
    <3>1. IsSequence(items)
      BY <1>2 DEF IsMessage, IsContent, IsArray
    <3>2. DOMAIN items = 1..Len(items)
      BY <3>1 DEF IsSequence
    <3>3. \A i \in DOMAIN items : items[i].type = "object"
      BY <1>2 DEF IsMessage
    <3>4. \A i \in DOMAIN items : items[i].type = "object" => IsItem(items[i], W)
      BY <1>2 DEF IsMessage, IsContent, IsItem
    <3> QED BY <3>1, <3>2, <3>3, <3>4
  <2> DEFINE role == m.role
  <2> HIDE DEF items, role
  <2>2. PICK run : /\ PartWay(conv, role, function, vision, begun, items, run)
                   /\ AfterParts(conv, role, function, vision, begun, items) = run[Len(items)]
    BY <2>1, PartsWay
  <2>3. said = run[Len(items)]
    <3>1. said = AfterParts(conv, role, function, vision, begun, items)
      BY <1>2, Zenon DEF Said, begun, items, role
    <3> QED BY <2>2, <3>1, Zenon
  <2>4. Len(items) \in 0..Len(items)
    BY <2>1 DEF IsSequence
  <2> DEFINE shown(k) == Presentable(conv, vision, role, items[k])
  <2>5. \A i \in 0..Len(items) :
          /\ IsState(run[i], W) /\ (run[i].outcome = "ok" => run[i].count = begun.count)
          /\ run[i].outcome = "ok" <=> \A k \in 1..i : shown(k)
    <3>1. PartsTaken(conv, role, vision, begun, items, run, W)
      BY <1>1, <2>1, <2>2, PartsType
    <3> QED BY <3>1 DEF PartsTaken
  <2> HIDE DEF shown
  <2>6. /\ IsState(said, W) /\ (said.outcome = "ok" => said.count = begun.count)
        /\ said.outcome = "ok" <=> \A k \in DOMAIN items : shown(k)
    BY <2>1, <2>3, <2>4, <2>5
  <2> QED BY <1>1, <1>2, <2>6 DEF shown, items, role, Heard
<1>3. CASE m.content.type # "array"
  <2>1. items \in Seq(W)
    BY <1>3 DEF IsMessage, IsContent, IsText
  <2>2. said = IF RoleTextThrows(conv, m.role) THEN StopWith(begun, "exception")
               ELSE Say(begun, GetRoleText(conv, m.role, items, function))
    BY <1>3, Zenon DEF Said, begun
  <2>3. CASE RoleTextThrows(conv, m.role)
    <3>1. IsState(said, W) /\ said.outcome = "exception"
      BY <1>1, <2>2, <2>3, StopType DEF Outcomes
    <3>2. ~Heard(conv, vision, m)
      BY <1>3, <2>3 DEF RoleTextThrows, Templated, Heard
    <3> QED BY <3>1, <3>2
  <2>4. CASE ~RoleTextThrows(conv, m.role)
    <3>1. m.role \in DOMAIN conv.role_templates
      BY <2>4 DEF RoleTextThrows
    <3>2. GetRoleText(conv, m.role, items, function) \in Seq(W)
      BY <2>1, <3>1, RoleTextType
    <3>3. IsState(said, W) /\ said.count = begun.count /\ said.outcome = begun.outcome
      BY <1>1, <2>2, <2>4, <3>2, SayType
    <3>4. Heard(conv, vision, m)
      BY <1>3, <2>4 DEF RoleTextThrows, Templated, Heard
    <3> QED BY <1>1, <3>3, <3>4
  <2> QED BY <2>3, <2>4
<1> QED BY <1>2, <1>3

(* A message adds what it says, is left out if it is the system's, or      *)
(* stops; it stops exactly if the template cannot say it.                  *)
Told(conv, vision, m) == m.role = "system" \/ Sayable(conv, vision, m)
LEMMA MessageStep ==
  ASSUME NEW W, NEW conv, IsConv(conv, W), NEW function \in Seq(W), NEW vision,
         NEW s, IsState(s, W), NEW m, IsMessage(m, W)
  PROVE  LET t == ProcessMessage(conv, function, vision, s, m) IN
         /\ IsState(t, W) /\ (s.outcome # "ok" => t = s)
         /\ t.outcome = "ok" <=> s.outcome = "ok" /\ Told(conv, vision, m)
<1> DEFINE t == ProcessMessage(conv, function, vision, s, m)
           said == Said(conv, function, vision, s, m)
           role == m.role
           told == Told(conv, vision, m)
           Good == /\ IsState(t, W) /\ (s.outcome # "ok" => t = s)
                   /\ t.outcome = "ok" <=> s.outcome = "ok" /\ told
<1> SUFFICES Good
  OBVIOUS
<1>1. t = IF s.outcome # "ok" \/ role = "system" THEN s
          ELSE IF role \notin DOMAIN conv.roles THEN StopWith(s, "error")
          ELSE IF m.content.type = "null" THEN Say(s, conv.roles[role] \o conv.role_empty_sep)
          ELSE IF conv.seps = <<>> THEN StopWith(s, "exception")
          ELSE IF said.outcome = "ok" THEN Say(said, Separator(conv, role)) ELSE said
  BY MessageCases, Zenon
<1> HIDE DEF t, said, role, told
<1>2. CASE s.outcome # "ok" \/ role = "system"
  BY <1>1, <1>2 DEF told, Told, role
<1>3. CASE s.outcome = "ok" /\ role # "system" /\ role \notin DOMAIN conv.roles
  <2>1. t = StopWith(s, "error")
    BY <1>1, <1>3, Zenon
  <2>2. IsState(t, W) /\ t.outcome = "error"
    BY <2>1, StopType DEF Outcomes
  <2>3. ~told
    BY <1>3 DEF told, Told, Sayable, role
  <2> QED BY <1>3, <2>2, <2>3
<1>4. CASE s.outcome = "ok" /\ role # "system" /\ role \in DOMAIN conv.roles
  <2>1. CASE m.content.type = "null"
    <3>1. t = Say(s, conv.roles[role] \o conv.role_empty_sep)
      BY <1>1, <1>4, <2>1, Zenon
    <3>2. conv.roles[role] \o conv.role_empty_sep \in Seq(W)
      BY <1>4, RolePrefixType
    <3>3. IsState(t, W) /\ t.outcome = s.outcome
      BY <3>1, <3>2, SayType
    <3>4. told
      BY <1>4, <2>1 DEF told, Told, Sayable, role
    <3> QED BY <1>4, <3>3, <3>4
  <2>2. CASE m.content.type # "null" /\ conv.seps = <<>>
    <3>1. t = StopWith(s, "exception")
      BY <1>1, <1>4, <2>2, Zenon
    <3>2. IsState(t, W) /\ t.outcome = "exception"
      BY <3>1, StopType DEF Outcomes
    <3>3. ~told
      BY <1>4, <2>2 DEF told, Told, Sayable, role
    <3> QED BY <1>4, <3>2, <3>3
  <2>3. CASE m.content.type # "null" /\ conv.seps # <<>>
    <3>1. t = IF said.outcome = "ok" THEN Say(said, Separator(conv, role)) ELSE said
      BY <1>1, <1>4, <2>3, Zenon
    <3> DEFINE heard == Heard(conv, vision, m)
    <3> HIDE DEF heard
    <3>2. IsState(said, W) /\ (said.outcome = "ok" <=> heard)
      BY <1>4, <2>3, SaidType DEF said, role, heard
    <3>3. Separator(conv, role) \in Seq(W)
      BY <2>3, SeparatorType
    <3>4. /\ IsState(Say(said, Separator(conv, role)), W)
          /\ Say(said, Separator(conv, role)).outcome = said.outcome
      BY <3>2, <3>3, SayType
    <3>5. told <=> heard
      <4>1. m.content.type \in {"string", "null", "array"}
        BY DEF IsMessage
      <4> QED BY <1>4, <2>3, <4>1 DEF told, Told, Sayable, role, heard, Heard
    <3> QED BY <1>4, <3>1, <3>2, <3>4, <3>5
  <2> QED BY <2>1, <2>2, <2>3
<1> QED BY <1>2, <1>3, <1>4 DEF told

(* The messages keep the state what it is.  All are taken exactly if the   *)
(* state was good from the start and the template can say each.            *)
LEMMA MessagesType ==
  ASSUME NEW W, NEW conv, IsConv(conv, W), NEW function \in Seq(W), NEW vision,
         NEW start, IsState(start, W), NEW messages, IsMessages(messages, W),
         NEW run, Way(conv, function, vision, start, messages, run)
  PROVE  \A i \in 0..Len(messages) :
           /\ IsState(run[i], W)
           /\ run[i].outcome = "ok" <=>
                start.outcome = "ok" /\ \A k \in 1..i : Told(conv, vision, messages[k])
<1> DEFINE told(k) == Told(conv, vision, messages[k])
           Good(i) ==
             /\ IsState(run[i], W)
             /\ run[i].outcome = "ok" <=> start.outcome = "ok" /\ \A k \in 1..i : told(k)
           T == {i \in 0..Len(messages) : ~Good(i)}
<1>1. Len(messages) \in Nat /\ \A i \in 1..Len(messages) : IsMessage(messages[i], W)
  BY DEF IsMessages, IsSequence
<1>2. Good(0)
  BY DEF Way
<1>3. ASSUME NEW i \in 1..Len(messages), Good(i - 1) PROVE Good(i)
  <2> DEFINE before == run[i - 1]
  <2>1. run[i] = ProcessMessage(conv, function, vision, before, messages[i])
    BY DEF Way
  <2>2. IsState(before, W) /\ IsMessage(messages[i], W)
    BY <1>1, <1>3
  <2>3. before.outcome = "ok" <=> start.outcome = "ok" /\ \A k \in 1..(i - 1) : told(k)
    BY <1>3
  <2> HIDE DEF before
  <2>4. /\ IsState(run[i], W)
        /\ run[i].outcome = "ok" <=> before.outcome = "ok" /\ told(i)
    BY <2>1, <2>2, MessageStep
  <2>5. \A k : k \in 1..i <=> k = i \/ k \in 1..(i - 1)
    BY <1>1
  <2> HIDE DEF told
  <2> QED BY <2>3, <2>4, <2>5
<1> HIDE DEF Good
<1>4. T = {}
  <2> SUFFICES ASSUME T # {} PROVE FALSE
    OBVIOUS
  <2>1. PICK i \in T : \A k \in T : i <= k
    <3>1. T \subseteq Nat
      OBVIOUS
    <3> QED BY <3>1, LeastNatural
  <2>2. i \in 1..Len(messages) /\ i - 1 \in 0..Len(messages) /\ ~(i <= i - 1)
    <3>1. i # 0
      BY <1>2, <2>1
    <3> QED BY <1>1, <3>1
  <2>3. Good(i - 1)
    BY <2>1, <2>2
  <2> QED BY <1>3, <2>1, <2>2, <2>3
<1> QED BY <1>4 DEF Good

(* A state that is not good at the start stays as it is.                   *)
LEMMA MessagesStopped ==
  ASSUME NEW conv, NEW function, NEW vision, NEW start, start.outcome # "ok",
         NEW messages, IsSequence(messages),
         NEW run, Way(conv, function, vision, start, messages, run)
  PROVE  run[Len(messages)] = start
<1> DEFINE T == {i \in 0..Len(messages) : run[i] # start}
<1>1. Len(messages) \in Nat
  BY DEF IsSequence
<1>2. run[0] = start
  BY DEF Way
<1>3. ASSUME NEW i \in 1..Len(messages), run[i - 1] = start PROVE run[i] = start
  <2>1. run[i] = ProcessMessage(conv, function, vision, start, messages[i])
    BY <1>3 DEF Way
  <2> QED BY <2>1, MessageCases, Zenon
<1>4. T = {}
  <2> SUFFICES ASSUME T # {} PROVE FALSE
    OBVIOUS
  <2>1. PICK i \in T : \A k \in T : i <= k
    <3>1. T \subseteq Nat
      OBVIOUS
    <3> QED BY <3>1, LeastNatural
  <2>2. i \in 1..Len(messages) /\ i - 1 \in 0..Len(messages) /\ ~(i <= i - 1)
    <3>1. i # 0
      BY <1>2, <2>1
    <3> QED BY <1>1, <3>1
  <2>3. run[i - 1] = start
    BY <2>1, <2>2
  <2> QED BY <1>3, <2>1, <2>2, <2>3
<1> QED BY <1>1, <1>4

(* Both, of the state after all messages.                                  *)
LEMMA AfterMessagesType ==
  ASSUME NEW W, NEW conv, IsConv(conv, W), NEW function \in Seq(W), NEW vision,
         NEW start, start.outcome = "ok" => IsState(start, W),
         NEW messages, IsMessages(messages, W)
  PROVE  LET s == AfterMessages(conv, function, vision, start, messages) IN
         /\ start.outcome = "ok" => IsState(s, W)
         /\ start.outcome # "ok" => s = start
         /\ s.outcome = "ok" <=>
              start.outcome = "ok" /\ \A k \in 1..Len(messages) : Told(conv, vision, messages[k])
<1> DEFINE s == AfterMessages(conv, function, vision, start, messages)
           Good == /\ start.outcome = "ok" => IsState(s, W)
                   /\ start.outcome # "ok" => s = start
                   /\ s.outcome = "ok" <=>
                        /\ start.outcome = "ok"
                        /\ \A k \in 1..Len(messages) : Told(conv, vision, messages[k])
<1> SUFFICES Good
  OBVIOUS
<1>1. IsSequence(messages) /\ Len(messages) \in 0..Len(messages)
  BY DEF IsMessages, IsSequence
<1>2. PICK run : /\ Way(conv, function, vision, start, messages, run)
                 /\ s = run[Len(messages)]
  BY <1>1, MessagesWay
<1> HIDE DEF s
<1>3. CASE start.outcome = "ok"
  <2>1. \A i \in 0..Len(messages) :
          /\ IsState(run[i], W)
          /\ run[i].outcome = "ok" <=>
               start.outcome = "ok" /\ \A k \in 1..i : Told(conv, vision, messages[k])
    BY <1>2, <1>3, MessagesType
  <2> QED BY <1>1, <1>2, <1>3, <2>1
<1>4. CASE start.outcome # "ok"
  <2>1. s = start
    BY <1>1, <1>2, <1>4, MessagesStopped
  <2> QED BY <1>4, <2>1
<1> QED BY <1>3, <1>4 DEF s

-----------------------------------------------------------------------------
(* Sequences of messages.                                                  *)

LEMMA SequenceSet ==
  ASSUME NEW s, IsSequence(s)
  PROVE  s \in Seq(ToSet(s)) /\ DOMAIN s = 1..Len(s)
<1>1. DOMAIN s = 1..Len(s) /\ Len(s) \in Nat
  BY DEF IsSequence
<1>2. \A i \in 1..Len(s) : s[i] \in ToSet(s)
  BY <1>1 DEF ToSet
<1> QED BY <1>1, <1>2 DEF IsSequence

LEMMA SequenceOf ==
  ASSUME NEW S, NEW s \in Seq(S)
  PROVE  IsSequence(s)
<1>1. Len(s) \in Nat /\ DOMAIN s = 1..Len(s)
  OBVIOUS
<1>2. s = [i \in DOMAIN s |-> s[i]]
  OBVIOUS
<1> QED BY <1>1, <1>2 DEF IsSequence

LEMMA MessagesSet ==
  ASSUME NEW W, NEW messages, IsMessages(messages, W)
  PROVE  /\ messages \in Seq(ToSet(messages)) /\ DOMAIN messages = 1..Len(messages)
         /\ \A m \in ToSet(messages) : IsMessage(m, W)
<1>1. messages \in Seq(ToSet(messages)) /\ DOMAIN messages = 1..Len(messages)
  BY SequenceSet DEF IsMessages
<1> QED BY <1>1 DEF IsMessages, ToSet

LEMMA MessagesOf ==
  ASSUME NEW W, NEW S, \A m \in S : IsMessage(m, W), NEW messages \in Seq(S)
  PROVE  IsMessages(messages, W)
BY SequenceOf DEF IsMessages

LEMMA MessagesConcat ==
  ASSUME NEW W, NEW a, IsMessages(a, W), NEW b, IsMessages(b, W)
  PROVE  /\ IsMessages(a \o b, W) /\ Len(a \o b) = Len(a) + Len(b)
<1> DEFINE S == ToSet(a) \cup ToSet(b)
<1>1. a \in Seq(ToSet(a)) /\ b \in Seq(ToSet(b))
  BY MessagesSet
<1>2. \A m \in S : IsMessage(m, W)
  BY MessagesSet
<1>3. a \in Seq(S) /\ b \in Seq(S)
  BY <1>1
<1> HIDE DEF S
<1>4. a \o b \in Seq(S) /\ Len(a \o b) = Len(a) + Len(b)
  BY <1>3
<1> QED BY <1>2, <1>4, MessagesOf

(* The messages chosen by their role are messages of the conversation, and *)
(* each has the role.                                                      *)
LEMMA ChosenType ==
  ASSUME NEW messages, IsSequence(messages), NEW from_system
  PROVE  Chosen(messages, from_system)
           \in Seq({m \in ToSet(messages) : (m.role = "system") = from_system})
<1> DEFINE S == {m \in ToSet(messages) : (m.role = "system") = from_system}
<1>1. PICK run : /\ Choosing(messages, from_system, run)
                 /\ Chosen(messages, from_system) = run[Len(messages)]
  BY ChosenWay
<1> DEFINE T == {i \in 0..Len(messages) : run[i] \notin Seq(S)}
<1>2. Len(messages) \in Nat /\ \A i \in 1..Len(messages) : messages[i] \in ToSet(messages)
  BY SequenceSet DEF IsSequence
<1>3. run[0] \in Seq(S)
  <2>1. run[0] = <<>>
    BY <1>1 DEF Choosing
  <2> HIDE DEF S
  <2> QED BY <2>1
<1>4. ASSUME NEW i \in 1..Len(messages), run[i - 1] \in Seq(S) PROVE run[i] \in Seq(S)
  <2>1. run[i] = IF (messages[i].role = "system") = from_system
                 THEN Append(run[i - 1], messages[i]) ELSE run[i - 1]
    BY <1>1 DEF Choosing
  <2>2. CASE (messages[i].role = "system") = from_system
    <3>1. messages[i] \in S
      BY <1>2, <2>2
    <3>2. run[i] = Append(run[i - 1], messages[i])
      BY <2>1, <2>2, Zenon
    <3> HIDE DEF S
    <3> QED BY <1>4, <3>1, <3>2
  <2>3. CASE (messages[i].role = "system") # from_system
    <3>1. run[i] = run[i - 1]
      BY <2>1, <2>3, Zenon
    <3> QED BY <1>4, <3>1
  <2> QED BY <2>2, <2>3
<1> HIDE DEF S
<1>5. T = {}
  <2> SUFFICES ASSUME T # {} PROVE FALSE
    OBVIOUS
  <2>1. PICK i \in T : \A k \in T : i <= k
    <3>1. T \subseteq Nat
      OBVIOUS
    <3> QED BY <3>1, LeastNatural
  <2>2. i \in 1..Len(messages) /\ i - 1 \in 0..Len(messages) /\ ~(i <= i - 1)
    <3>1. i # 0
      BY <1>3, <2>1
    <3> QED BY <1>2, <3>1
  <2>3. run[i - 1] \in Seq(S)
    BY <2>1, <2>2
  <2> QED BY <1>4, <2>1, <2>2, <2>3
<1>6. run[Len(messages)] \in Seq(S)
  BY <1>2, <1>5
<1> QED BY <1>1, <1>6 DEF S

(* Every message of the role is chosen.                                    *)
Takes(messages, from_system, m) ==
  \E j \in DOMAIN Chosen(messages, from_system) : Chosen(messages, from_system)[j] = m
LEMMA ChosenAll ==
  ASSUME NEW messages, IsSequence(messages), NEW from_system, NEW at \in 1..Len(messages),
         (messages[at].role = "system") = from_system
  PROVE  Takes(messages, from_system, messages[at])
<1> DEFINE S == ToSet(messages)
<1>1. PICK run : /\ Choosing(messages, from_system, run)
                 /\ Chosen(messages, from_system) = run[Len(messages)]
  BY ChosenWay
<1> DEFINE Good(i) == /\ run[i] \in Seq(S)
                      /\ i >= at => \E j \in 1..Len(run[i]) : run[i][j] = messages[at]
           T == {i \in 0..Len(messages) : ~Good(i)}
<1>2. Len(messages) \in Nat /\ \A i \in 1..Len(messages) : messages[i] \in S
  BY SequenceSet DEF IsSequence
<1> HIDE DEF S
<1>3. Good(0)
  <2>1. run[0] = <<>>
    BY <1>1 DEF Choosing
  <2> QED BY <2>1
<1>4. ASSUME NEW i \in 1..Len(messages), Good(i - 1) PROVE Good(i)
  <2> DEFINE before == run[i - 1]
  <2>1. run[i] = IF (messages[i].role = "system") = from_system
                 THEN Append(before, messages[i]) ELSE before
    BY <1>1 DEF Choosing
  <2>2. before \in Seq(S) /\ (i - 1 >= at => \E j \in 1..Len(before) : before[j] = messages[at])
    BY <1>4
  <2>3. messages[i] \in S
    BY <1>2
  <2> HIDE DEF before
  <2>4. CASE (messages[i].role = "system") = from_system
    <3>1. run[i] = Append(before, messages[i])
      BY <2>1, <2>4, Zenon
    <3>2. /\ run[i] \in Seq(S) /\ Len(run[i]) = Len(before) + 1 /\ Len(before) \in Nat
          /\ run[i][Len(before) + 1] = messages[i]
          /\ \A j \in 1..Len(before) : run[i][j] = before[j]
      BY <2>2, <2>3, <3>1
    <3>3. CASE i = at
      BY <3>2, <3>3
    <3>4. CASE i # at
      <4>1. ASSUME i >= at PROVE \E j \in 1..Len(run[i]) : run[i][j] = messages[at]
        <5>1. i - 1 >= at
          BY <1>2, <3>4, <4>1
        <5>2. PICK j \in 1..Len(before) : before[j] = messages[at]
          BY <2>2, <5>1
        <5>3. j \in 1..Len(run[i]) /\ run[i][j] = messages[at]
          BY <3>2, <5>2
        <5> QED BY <5>3
      <4> QED BY <3>2, <4>1
    <3> QED BY <3>3, <3>4
  <2>5. CASE (messages[i].role = "system") # from_system
    <3>1. run[i] = before
      BY <2>1, <2>5, Zenon
    <3>2. i # at
      BY <2>5
    <3>3. i >= at => i - 1 >= at
      BY <1>2, <3>2
    <3> QED BY <2>2, <3>1, <3>3
  <2> QED BY <2>4, <2>5
<1> HIDE DEF Good
<1>5. T = {}
  <2> SUFFICES ASSUME T # {} PROVE FALSE
    OBVIOUS
  <2>1. PICK i \in T : \A k \in T : i <= k
    <3>1. T \subseteq Nat
      OBVIOUS
    <3> QED BY <3>1, LeastNatural
  <2>2. i \in 1..Len(messages) /\ i - 1 \in 0..Len(messages) /\ ~(i <= i - 1)
    <3>1. i # 0
      BY <1>3, <2>1
    <3> QED BY <1>2, <3>1
  <2>3. Good(i - 1)
    BY <2>1, <2>2
  <2> QED BY <1>4, <2>1, <2>2, <2>3
<1>6. Good(Len(messages)) /\ Len(messages) >= at
  BY <1>2, <1>5
<1>7. /\ run[Len(messages)] \in Seq(S)
      /\ \E j \in 1..Len(run[Len(messages)]) : run[Len(messages)][j] = messages[at]
  BY <1>6 DEF Good
<1>8. DOMAIN run[Len(messages)] = 1..Len(run[Len(messages)])
  BY <1>7
<1> QED BY <1>1, <1>7, <1>8 DEF Takes

(* The messages of the system are all text, or one of them is not.         *)
LEMMA SystemInText ==
  ASSUME NEW messages, IsSequence(messages)
  PROVE  (\A i \in DOMAIN SystemMessages(messages) :
            SystemMessages(messages)[i].content.type = "string")
         <=> \A i \in 1..Len(messages) :
               messages[i].role = "system" => messages[i].content.type = "string"
<1> DEFINE custom == SystemMessages(messages)
<1>1. custom \in Seq({m \in ToSet(messages) : (m.role = "system") = TRUE})
  BY ChosenType DEF SystemMessages
<1>2. DOMAIN messages = 1..Len(messages)
  BY SequenceSet
<1>3. \A at \in 1..Len(messages) :
        messages[at].role = "system" => \E j \in DOMAIN custom : custom[j] = messages[at]
  <2> SUFFICES ASSUME NEW at \in 1..Len(messages), messages[at].role = "system"
               PROVE  \E j \in DOMAIN custom : custom[j] = messages[at]
    OBVIOUS
  <2>1. Takes(messages, TRUE, messages[at])
    <3>1. (messages[at].role = "system") = TRUE
      OBVIOUS
    <3> QED BY <3>1, ChosenAll
  <2> QED BY <2>1 DEF SystemMessages, Takes, custom
<1> HIDE DEF custom
<1>4. \A j \in DOMAIN custom : \E i \in 1..Len(messages) :
        custom[j] = messages[i] /\ messages[i].role = "system"
  <2> SUFFICES ASSUME NEW j \in DOMAIN custom
               PROVE  \E i \in 1..Len(messages) :
                        custom[j] = messages[i] /\ messages[i].role = "system"
    OBVIOUS
  <2>1. custom[j] \in ToSet(messages) /\ custom[j].role = "system"
    BY <1>1
  <2> QED BY <1>2, <2>1 DEF ToSet
<1>5. ASSUME \A i \in DOMAIN custom : custom[i].content.type = "string",
             NEW i \in 1..Len(messages), messages[i].role = "system"
      PROVE  messages[i].content.type = "string"
  BY <1>3, <1>5
<1>6. ASSUME \A i \in 1..Len(messages) :
               messages[i].role = "system" => messages[i].content.type = "string",
             NEW j \in DOMAIN custom
      PROVE  custom[j].content.type = "string"
  BY <1>4, <1>6
<1> QED BY <1>5, <1>6 DEF custom

(* A message without its reasoning is a message of the same role.          *)
LEMMA ReasoningType ==
  ASSUME NEW W, NEW text \in Seq(W)
  PROVE  WithoutReasoning(text) \in Seq(W)
<1> DEFINE tag == SelectLastInSeq(text, LAMBDA word : word = CloseTag)
           S == {i \in (tag + 1)..(Len(text) + 1) : i > Len(text) \/ text[i] # "newline"}
           start == Min(S)
           I == {i \in 1..Len(text) : text[i] = CloseTag}
<1>1. tag = IF I # {} THEN Max(I) ELSE 0
  BY DEF SelectLastInSeq
<1>2. Len(text) \in Nat
  OBVIOUS
<1>3. tag \in 0..Len(text)
  <2>1. I \subseteq 0..Len(text)
    OBVIOUS
  <2>2. I # {} => Max(I) \in I
    BY <1>2, <2>1, MaxOf
  <2> QED BY <1>1, <1>2, <2>2
<1>4. WithoutReasoning(text) = IF tag = 0 THEN text ELSE SubSeq(text, start, Len(text))
  BY DEF WithoutReasoning
<1> HIDE DEF tag
<1>5. start \in 1..(Len(text) + 1)
  <2>1. Len(text) + 1 \in S /\ S \subseteq Nat /\ S \subseteq 1..(Len(text) + 1)
    BY <1>2, <1>3
  <2> HIDE DEF S
  <2> QED BY <2>1, MinOf
<1> HIDE DEF start
<1>6. SubSeq(text, start, Len(text)) \in Seq(W)
  BY <1>2, <1>5
<1> QED BY <1>4, <1>6

SameTurns(a, b) ==
  /\ Len(a) = Len(b)
  /\ \A i \in 1..Len(b) : /\ a[i].role = b[i].role /\ a[i].content.type = b[i].content.type
                          /\ b[i].content.type # "string" => a[i] = b[i]

LEMMA StrippedType ==
  ASSUME NEW W, NEW conv, NEW messages, IsMessages(messages, W)
  PROVE  /\ IsMessages(Stripped(conv, messages), W)
         /\ SameTurns(Stripped(conv, messages), messages)
<1> DEFINE s == Stripped(conv, messages)
<1>1. /\ Len(messages) \in Nat /\ DOMAIN messages = 1..Len(messages)
      /\ \A i \in 1..Len(messages) : IsMessage(messages[i], W)
  BY MessagesSet DEF IsMessages, IsSequence
<1>2. ASSUME NEW i \in 1..Len(messages)
      PROVE  /\ IsMessage(s[i], W) /\ s[i].role = messages[i].role
             /\ s[i].content.type = messages[i].content.type
             /\ messages[i].content.type # "string" => s[i] = messages[i]
  <2> DEFINE m == messages[i]
             left == /\ conv.strip_reasoning_in_history
                     /\ m.role = "assistant" /\ i < LastUser(messages) /\ m.content.type = "string"
  <2>1. s[i] = IF left THEN [m EXCEPT !.content.of = WithoutReasoning(@)] ELSE m
    BY <1>1 DEF Stripped
  <2>2. IsMessage(m, W)
    BY <1>1
  <2> HIDE DEF s, m
  <2>3. CASE left
    <3>1. PICK text : text = WithoutReasoning(m.content.of)
      OBVIOUS
    <3>2. m = [role |-> m.role, content |-> m.content] /\ m.content.type = "string"
          /\ m.content = [type |-> m.content.type, of |-> m.content.of]
      BY <2>2, <2>3 DEF IsMessage, IsContent
    <3>3. text \in Seq(W)
      <4>1. m.content.of \in Seq(W)
        BY <2>2, <3>2 DEF IsMessage, IsContent, IsText
      <4> QED BY <3>1, <4>1, ReasoningType
    <3>4. s[i] = [m EXCEPT !.content.of = text]
      BY <2>1, <2>3, <3>1
    <3>5. s[i] = [role |-> m.role, content |-> [type |-> "string", of |-> text]]
      BY <3>2, <3>4
    <3>6. IsMessage(s[i], W) /\ s[i].role = m.role /\ s[i].content.type = "string"
      BY <3>3, <3>5 DEF IsMessage, IsContent, IsText, IsArray
    <3> QED BY <3>2, <3>6 DEF m
  <2>4. CASE ~left
    <3>1. s[i] = m
      BY <2>1, <2>4, Zenon
    <3> QED BY <2>2, <3>1 DEF m
  <2> QED BY <2>3, <2>4 DEF m
<1>3. s = [i \in 1..Len(messages) |-> s[i]]
  BY <1>1 DEF Stripped
<1> HIDE DEF s
<1>4. IsSequence(s) /\ Len(s) = Len(messages)
  BY <1>1, <1>3 DEF IsSequence
<1>5. IsMessages(s, W)
  BY <1>2, <1>4 DEF IsMessages
<1> QED BY <1>2, <1>4, <1>5 DEF s, SameTurns

(* The system text: that of the template, or of the request's messages.    *)
LEMMA SystemTextType ==
  ASSUME NEW W, NEW conv, IsConv(conv, W), NEW messages, IsMessages(messages, W),
         \A i \in DOMAIN SystemMessages(messages) :
           SystemMessages(messages)[i].content.type = "string"
  PROVE  GetSystemText(conv, SystemMessage(conv, messages)) \in Seq(W)
<1> DEFINE custom == SystemMessages(messages)
           texts == [i \in DOMAIN custom |-> custom[i].content.of]
<1>1. IsSequence(messages) /\ \A m \in ToSet(messages) : IsMessage(m, W)
  BY MessagesSet DEF IsMessages
<1>2. custom \in Seq({m \in ToSet(messages) : (m.role = "system") = TRUE})
  BY <1>1, ChosenType DEF SystemMessages
<1>3. custom \in Seq(ToSet(messages))
  BY <1>2
<1> HIDE DEF custom
<1>4. Len(custom) \in Nat /\ DOMAIN custom = 1..Len(custom)
  BY <1>3
<1>5. ASSUME NEW i \in 1..Len(custom) PROVE custom[i].content.of \in Seq(W)
  <2>1. custom[i].content.type = "string"
    BY <1>4 DEF custom
  <2>2. IsMessage(custom[i], W)
    BY <1>1, <1>3
  <2> QED BY <2>1, <2>2 DEF IsMessage, IsContent, IsText
<1>6. texts \in Seq(Seq(W))
  BY <1>4, <1>5
<1> HIDE DEF texts
<1>7. FlattenSeq(texts) \in Seq(W)
  <2>1. <<>> \in Seq(W)
    OBVIOUS
  <2> QED BY <1>6, <2>1, FlattenAppend
<1>8. SystemMessage(conv, messages) = IF custom = <<>> THEN conv.system_message ELSE FlattenSeq(texts)
  BY DEF SystemMessage, custom, texts
<1>9. conv.system_template \in Seq(W) /\ conv.system_message \in Seq(W)
  BY DEF IsConv
<1>10. SystemMessage(conv, messages) \in Seq(W)
  BY <1>7, <1>8, <1>9
<1> QED BY <1>9, <1>10, ReplacedType DEF GetSystemText

(* The tools named in the prompt.                                          *)
LEMMA FunctionStringType ==
  ASSUME NEW W, {"[", "]"} \subseteq W,
         NEW request, request.tools # <<>> => request.tools[1] \in Seq(W)
  PROVE  FunctionString(request) \in Seq(W)
<1>1. CASE request.tools = <<>> \/ request.tool_choice = "none"
  BY <1>1 DEF FunctionString
<1>2. CASE ~(request.tools = <<>> \/ request.tool_choice = "none")
  <2> DEFINE names == request.tools[1]
  <2>1. names \in Seq(W) /\ <<"[">> \in Seq(W) /\ <<"]">> \in Seq(W)
    BY <1>2
  <2>2. FunctionString(request) = IF request.tool_choice \in ToSet(names)
                                  THEN <<request.tool_choice>> ELSE <<"[">> \o names \o <<"]">>
    BY <1>2, Zenon DEF FunctionString
  <2> HIDE DEF names
  <2>3. request.tool_choice \in ToSet(names) => request.tool_choice \in W
    BY <2>1 DEF ToSet
  <2>4. <<"[">> \o names \o <<"]">> \in Seq(W)
    BY <2>1
  <2> QED BY <2>2, <2>3, <2>4
<1> QED BY <1>1, <1>2

(* A prompt is one of the outcomes with data that are not empty, a prefix  *)
(* of tokens aside.  It is made exactly if the tool is one there is, the   *)
(* assistant has a role and the template can say every message.            *)
IsPrompt(prompt, W) == prompt.outcome \in Outcomes /\ prompt.inputs \in Seq(Filled(W))

LEMMA FlushedOutcome ==
  ASSUME NEW s, NEW o, NEW p, NEW d, NEW c,
         s = [outcome |-> o, pending_text |-> p, data |-> d, count |-> c]
  PROVE  Flushed(s).outcome = o
<1>1. CASE s.pending_text = <<>>
  BY <1>1 DEF Flushed
<1>2. CASE s.pending_text # <<>>
  <2>1. PICK e : e = Append(s.data, [kind |-> "text", ids |-> s.pending_text])
    OBVIOUS
  <2>2. Flushed(s) = [s EXCEPT !.data = e, !.pending_text = <<>>]
    BY <1>2, <2>1 DEF Flushed
  <2>3. PICK t : t = [s EXCEPT !.data = e]
    OBVIOUS
  <2>4. t = [outcome |-> o, pending_text |-> p, data |-> e, count |-> c]
    BY <2>3
  <2>5. Flushed(s) = [t EXCEPT !.pending_text = <<>>]
    BY <2>2, <2>3
  <2> QED BY <2>4, <2>5
<1> QED BY <1>1, <1>2

LEMMA PrefixedType ==
  ASSUME NEW W, NEW conv, IsConv(conv, W), NEW data \in Seq(Filled(W))
  PROVE  Prefixed(conv, data) \in Seq(Filled(W))
<1>1. CASE conv.system_prefix_token_ids = <<>>
  BY <1>1 DEF Prefixed
<1>2. CASE conv.system_prefix_token_ids # <<>>
  <2>1. conv.system_prefix_token_ids[1] \in Seq(W)
    BY <1>2 DEF IsConv
  <2>2. PICK x : x = [kind |-> "token", ids |-> conv.system_prefix_token_ids[1]]
    OBVIOUS
  <2>3. x \in Filled(W)
    BY <2>1, <2>2 DEF Filled
  <2>4. Prefixed(conv, data) = <<x>> \o data
    BY <1>2, <2>2 DEF Prefixed
  <2> QED BY <2>3, <2>4
<1> QED BY <1>1, <1>2

LEMMA PromptType ==
  ASSUME NEW W, {"[", "]"} \subseteq W, NEW conv, IsConv(conv, W),
         NEW request, IsMessages(request.messages, W),
         request.tools # <<>> => request.tools[1] \in Seq(W), NEW vision
  PROVE  LET prompt == CreatePrompt(conv, request, vision)
             messages == conv.messages \o request.messages IN
         /\ IsPrompt(prompt, W) /\ IsMessages(messages, W)
         /\ prompt.outcome = "ok" <=>
              /\ ~InvalidToolChoice(request) /\ "assistant" \in DOMAIN conv.roles
              /\ \A i \in 1..Len(messages) : Sayable(conv, vision, messages[i])
<1> DEFINE prompt == CreatePrompt(conv, request, vision)
           messages == conv.messages \o request.messages
           function == FunctionString(request)
           invalid == InvalidToolChoice(request)
           start == [outcome |-> IF invalid THEN "error"
                                 ELSE IF \E i \in DOMAIN SystemMessages(messages) :
                                           SystemMessages(messages)[i].content.type # "string"
                                 THEN "exception" ELSE "ok",
                     pending_text |-> <<>>, data |-> <<>>, count |-> 0]
           text == GetSystemText(conv, SystemMessage(conv, messages))
           begun == Say(start, text)
           turns == Append(Stripped(conv, messages), AssistantBegin)
           s == AfterMessages(conv, function, vision, begun, turns)
           end == Flushed(s)
           sayable(i) == Sayable(conv, vision, messages[i])
           Can == /\ ~invalid /\ "assistant" \in DOMAIN conv.roles
                  /\ \A i \in 1..Len(messages) : sayable(i)
           Good == /\ IsPrompt(prompt, W) /\ IsMessages(messages, W)
                   /\ prompt.outcome = "ok" <=> Can
<1> SUFFICES Good
  OBVIOUS
<1>1. prompt = [outcome |-> end.outcome,
                inputs  |-> IF end.outcome # "ok" THEN <<>> ELSE Prefixed(conv, end.data)]
  BY Zenon DEF CreatePrompt, AfterMessages
<1> HIDE DEF prompt
<1>2. IsMessages(messages, W)
  BY MessagesConcat DEF IsConv
<1>3. function \in Seq(W)
  BY FunctionStringType
<1> HIDE DEF messages, function, invalid
<1>4. IsMessages(turns, W) /\ Len(turns) = Len(messages) + 1
      /\ turns[Len(turns)] = AssistantBegin
      /\ \A i \in 1..Len(messages) :
           /\ turns[i].role = messages[i].role /\ turns[i].content.type = messages[i].content.type
           /\ messages[i].content.type # "string" => turns[i] = messages[i]
  <2> DEFINE stripped == Stripped(conv, messages)
             S == ToSet(stripped) \cup {AssistantBegin}
  <2>1. IsMessages(stripped, W) /\ SameTurns(stripped, messages)
    BY <1>2, StrippedType
  <2> HIDE DEF stripped
  <2>2. stripped \in Seq(ToSet(stripped)) /\ \A m \in ToSet(stripped) : IsMessage(m, W)
    BY <2>1, MessagesSet
  <2>3. IsMessage(AssistantBegin, W)
    BY DEF IsMessage, AssistantBegin, IsContent, IsText, IsArray
  <2>4. \A m \in S : IsMessage(m, W)
    BY <2>2, <2>3
  <2>5. stripped \in Seq(S) /\ AssistantBegin \in S
    BY <2>2
  <2> HIDE DEF S
  <2>6. turns \in Seq(S) /\ Len(turns) = Len(stripped) + 1
        /\ turns[Len(turns)] = AssistantBegin
        /\ \A i \in 1..Len(stripped) : turns[i] = stripped[i]
    BY <2>5 DEF stripped
  <2>7. IsMessages(turns, W)
    BY <2>4, <2>6, MessagesOf
  <2> HIDE DEF turns
  <2>8. Len(stripped) = Len(messages)
        /\ \A i \in 1..Len(messages) :
             /\ stripped[i].role = messages[i].role
             /\ stripped[i].content.type = messages[i].content.type
             /\ messages[i].content.type # "string" => stripped[i] = messages[i]
    BY <2>1 DEF SameTurns
  <2> QED BY <2>6, <2>7, <2>8
<1>5. /\ start.outcome \in Outcomes
      /\ start.outcome = "ok" <=> ~invalid /\ \A i \in DOMAIN SystemMessages(messages) :
                                   SystemMessages(messages)[i].content.type = "string"
  BY DEF Outcomes
<1>6. PICK o : o = start.outcome
  OBVIOUS
<1>7. start = [outcome |-> o, pending_text |-> <<>>, data |-> <<>>, count |-> 0]
  BY <1>6
<1> HIDE DEF start
<1>8. \E p : begun = [outcome |-> o, pending_text |-> p, data |-> <<>>, count |-> 0]
  <2>1. PICK p : p = start.pending_text \o text
    OBVIOUS
  <2>2. begun = [start EXCEPT !.pending_text = p]
    BY <2>1 DEF Say
  <2>3. begun = [outcome |-> o, pending_text |-> p, data |-> <<>>, count |-> 0]
    BY <1>7, <2>2
  <2> QED BY <2>3
<1>9. o = "ok" => IsState(begun, W)
  <2> SUFFICES ASSUME o = "ok" PROVE IsState(begun, W)
    OBVIOUS
  <2>1. text \in Seq(W)
    BY <1>2, <1>5, <1>6, SystemTextType
  <2>2. IsState(start, W)
    BY <1>7 DEF IsState, Outcomes
  <2> HIDE DEF text
  <2> QED BY <2>1, <2>2, SayType
<1> HIDE DEF begun
<1>10. begun.outcome = o
  BY <1>8
<1> HIDE DEF turns
<1>11. /\ begun.outcome = "ok" => IsState(s, W)
       /\ begun.outcome # "ok" => s = begun
       /\ s.outcome = "ok" <=>
            begun.outcome = "ok" /\ \A k \in 1..Len(turns) : Told(conv, vision, turns[k])
  BY <1>3, <1>4, <1>9, <1>10, AfterMessagesType
<1> HIDE DEF s
<1>12. begun.outcome = "ok" /\ (\A k \in 1..Len(turns) : Told(conv, vision, turns[k])) <=> Can
  <2>1. IsSequence(messages) /\ Len(messages) \in Nat
    BY <1>2 DEF IsMessages, IsSequence
  <2>2. o = "ok" <=> ~invalid /\ \A i \in 1..Len(messages) :
          messages[i].role = "system" => messages[i].content.type = "string"
    BY <1>5, <1>6, <2>1, SystemInText
  <2>3. Told(conv, vision, AssistantBegin) <=> "assistant" \in DOMAIN conv.roles
    BY DEF Told, Sayable, AssistantBegin
  <2>4. ASSUME NEW i \in 1..Len(messages)
        PROVE  sayable(i) <=> /\ Told(conv, vision, turns[i])
                              /\ messages[i].role = "system" => messages[i].content.type = "string"
    <3> DEFINE m == messages[i]
               t == turns[i]
    <3>1. t.role = m.role /\ t.content.type = m.content.type
          /\ (m.content.type # "string" => t = m)
      BY <1>4
    <3> HIDE DEF m, t
    <3>2. CASE m.role = "system"
      BY <3>1, <3>2 DEF Sayable, Told, m, t
    <3>3. CASE m.role # "system"
      <4>1. CASE m.content.type = "string"
        <5>1. Sayable(conv, vision, m) <=> Sayable(conv, vision, t)
          BY <3>1, <3>3, <4>1 DEF Sayable
        <5> QED BY <3>1, <3>3, <5>1 DEF Told, m, t
      <4>2. CASE m.content.type # "string"
        BY <3>1, <3>3, <4>2 DEF Told, m, t
      <4> QED BY <4>1, <4>2
    <3> QED BY <3>2, <3>3
  <2>5. \A k : k \in 1..Len(turns) <=> k = Len(turns) \/ k \in 1..Len(messages)
    BY <1>4, <2>1
  <2>6. (\A k \in 1..Len(turns) : Told(conv, vision, turns[k]))
          <=> /\ "assistant" \in DOMAIN conv.roles
              /\ \A i \in 1..Len(messages) : Told(conv, vision, turns[i])
    <3>1. Told(conv, vision, turns[Len(turns)]) <=> "assistant" \in DOMAIN conv.roles
      BY <1>4, <2>3
    <3> QED BY <2>5, <3>1
  <2> HIDE DEF sayable
  <2> QED BY <1>10, <2>2, <2>4, <2>6
<1> HIDE DEF Can
<1>13. s.outcome = "ok" <=> Can
  BY <1>11, <1>12
<1>14. CASE o = "ok"
  <2>1. IsState(s, W)
    BY <1>10, <1>11, <1>14
  <2>2. IsState(end, W) /\ end.outcome = s.outcome
    BY <2>1, FlushedType
  <2>3. end.outcome \in Outcomes /\ end.data \in Seq(Filled(W))
    BY <2>2 DEF IsState
  <2> HIDE DEF end
  <2>4. Prefixed(conv, end.data) \in Seq(Filled(W))
    BY <2>3, PrefixedType
  <2>5. IsPrompt(prompt, W) /\ prompt.outcome = end.outcome
    BY <1>1, <2>3, <2>4 DEF IsPrompt
  <2> QED BY <1>2, <1>13, <2>2, <2>5
<1>15. CASE o # "ok"
  <2>1. end.outcome = o
    BY <1>8, <1>10, <1>11, <1>15, FlushedOutcome
  <2> HIDE DEF end
  <2>2. prompt = [outcome |-> o, inputs |-> <<>>]
    BY <1>1, <1>15, <2>1
  <2>3. IsPrompt(prompt, W)
    BY <1>5, <1>6, <2>2 DEF IsPrompt
  <2>4. ~Can
    BY <1>10, <1>12, <1>15
  <2> QED BY <1>2, <1>15, <2>2, <2>3, <2>4
<1> QED BY <1>14, <1>15

-----------------------------------------------------------------------------
(* Templates.                                                              *)

LEMMA ErrorFree ==
  ASSUME NEW condition, condition \in BOOLEAN
  PROVE  ErrorUnless(condition) = "ok" <=> condition
BY DEF ErrorUnless

(* What the checks of Conversation::FromJSON establish, one by one.        *)
TextFields == {"system_template", "system_message", "role_content_sep", "role_empty_sep"}
IfThere(json, f, type) == Absent(json, f) \/ Has(json, f, type)
TemplateChecked(json) ==
  /\ \A f \in TextFields : Has(json, f, "string")
  /\ Has(json, "add_role_after_system_message", "bool") /\ Has(json, "roles", "object")
  /\ Has(json, "seps", "array") /\ Has(json, "stop_str", "array")
  /\ Has(json, "stop_token_ids", "array")
  /\ IfThere(json, "name", "string") /\ IfThere(json, "role_templates", "object")
  /\ IfThere(json, "system_prefix_token_ids", "array")
  /\ IfThere(json, "strip_reasoning_in_history", "bool")
  /\ AllOf(json, "roles", "string") /\ AllOf(json, "role_templates", "string")
  /\ AllOf(json, "seps", "string") /\ AllOf(json, "stop_str", "string")
  /\ AllOf(json, "system_prefix_token_ids", "number") /\ AllOf(json, "stop_token_ids", "number")
  /\ TemplateMessages(json) = "ok"

(* The lookups pass exactly if the field is there with its type.           *)
LEMMA LookupPassed ==
  ASSUME NEW json, NEW f, NEW type
  PROVE  /\ Required(json, f, type) = "ok" <=> Has(json, f, type)
         /\ Optional(json, f, type) = "ok" <=> IfThere(json, f, type)
         /\ ArrayOf(json, f, type) = "ok" <=> Has(json, f, "array") /\ AllOf(json, f, type)
         /\ ObjectOf(json, f, type) = "ok" <=> Has(json, f, "object") /\ AllOf(json, f, type)
<1>1. /\ Has(json, f, type) \in BOOLEAN /\ IfThere(json, f, type) \in BOOLEAN
      /\ (Has(json, f, "array") /\ AllOf(json, f, type)) \in BOOLEAN
      /\ (Has(json, f, "object") /\ AllOf(json, f, type)) \in BOOLEAN
  BY DEF Has, IfThere, AllOf
<1> QED BY <1>1, ErrorFree DEF Required, Optional, ArrayOf, ObjectOf, IfThere

(* What is not there has nothing of another type.                          *)
LEMMA AbsentAll ==
  ASSUME NEW json, NEW f, NEW type, Absent(json, f)
  PROVE  AllOf(json, f, type)
<1>1. Items(json, f) = <<>>
  BY Zenon DEF Items
<1>2. DOMAIN Items(json, f) = {}
  BY <1>1
<1> QED BY <1>2 DEF AllOf

LEMMA TemplateParsed ==
  ASSUME NEW json
  PROVE  ConversationFromJSON(json) = "ok" <=> TemplateChecked(json)
<1> DEFINE ids == IfPresent(json, "system_prefix_token_ids",
                            ArrayOf(json, "system_prefix_token_ids", "number"))
           templates == IfPresent(json, "role_templates", ObjectOf(json, "role_templates", "string"))
           s == <<Optional(json, "name", "string"), Required(json, "system_template", "string"),
                  Required(json, "system_message", "string"), ids,
                  Required(json, "add_role_after_system_message", "bool"),
                  ObjectOf(json, "roles", "string"), templates, TemplateMessages(json),
                  ArrayOf(json, "seps", "string"),
                  Required(json, "role_content_sep", "string"),
                  Required(json, "role_empty_sep", "string"),
                  ArrayOf(json, "stop_str", "string"), ArrayOf(json, "stop_token_ids", "number"),
                  Optional(json, "strip_reasoning_in_history", "bool")>>
<1>1. ConversationFromJSON(json) = InTurn(s)
  BY DEF ConversationFromJSON
<1>2. ids = "ok" <=> /\ IfThere(json, "system_prefix_token_ids", "array")
                     /\ AllOf(json, "system_prefix_token_ids", "number")
  BY LookupPassed, AbsentAll DEF IfPresent, IfThere
<1>3. templates = "ok" <=> /\ IfThere(json, "role_templates", "object")
                           /\ AllOf(json, "role_templates", "string")
  BY LookupPassed, AbsentAll DEF IfPresent, IfThere
<1> HIDE DEF ids, templates
<1>4. /\ DOMAIN s = 1..14 /\ s[1] = Optional(json, "name", "string")
      /\ s[2] = Required(json, "system_template", "string")
      /\ s[3] = Required(json, "system_message", "string") /\ s[4] = ids
      /\ s[5] = Required(json, "add_role_after_system_message", "bool")
      /\ s[6] = ObjectOf(json, "roles", "string") /\ s[7] = templates
      /\ s[8] = TemplateMessages(json) /\ s[9] = ArrayOf(json, "seps", "string")
      /\ s[10] = Required(json, "role_content_sep", "string")
      /\ s[11] = Required(json, "role_empty_sep", "string")
      /\ s[12] = ArrayOf(json, "stop_str", "string")
      /\ s[13] = ArrayOf(json, "stop_token_ids", "number")
      /\ s[14] = Optional(json, "strip_reasoning_in_history", "bool")
  OBVIOUS
<1> HIDE DEF s
<1>5. InTurn(s) = "ok" <=> \A i \in 1..14 : s[i] = "ok"
  <2>1. DOMAIN s \subseteq Nat
    BY <1>4
  <2> QED BY <1>4, <2>1, InTurnPassed
<1>6. (\A i \in 1..14 : s[i] = "ok")
        <=> /\ s[1] = "ok" /\ s[2] = "ok" /\ s[3] = "ok" /\ s[4] = "ok" /\ s[5] = "ok"
            /\ s[6] = "ok" /\ s[7] = "ok" /\ s[8] = "ok" /\ s[9] = "ok" /\ s[10] = "ok"
            /\ s[11] = "ok" /\ s[12] = "ok" /\ s[13] = "ok" /\ s[14] = "ok"
  OBVIOUS
<1>7. /\ s[1] = "ok" <=> IfThere(json, "name", "string")
      /\ s[2] = "ok" <=> Has(json, "system_template", "string")
      /\ s[3] = "ok" <=> Has(json, "system_message", "string")
      /\ s[5] = "ok" <=> Has(json, "add_role_after_system_message", "bool")
      /\ s[6] = "ok" <=> Has(json, "roles", "object") /\ AllOf(json, "roles", "string")
      /\ s[9] = "ok" <=> Has(json, "seps", "array") /\ AllOf(json, "seps", "string")
      /\ s[10] = "ok" <=> Has(json, "role_content_sep", "string")
      /\ s[11] = "ok" <=> Has(json, "role_empty_sep", "string")
      /\ s[12] = "ok" <=> Has(json, "stop_str", "array") /\ AllOf(json, "stop_str", "string")
      /\ s[13] = "ok" <=> /\ Has(json, "stop_token_ids", "array")
                          /\ AllOf(json, "stop_token_ids", "number")
      /\ s[14] = "ok" <=> IfThere(json, "strip_reasoning_in_history", "bool")
  BY <1>4, LookupPassed
<1>8. (\A f \in TextFields : Has(json, f, "string"))
        <=> /\ Has(json, "system_template", "string") /\ Has(json, "system_message", "string")
            /\ Has(json, "role_content_sep", "string") /\ Has(json, "role_empty_sep", "string")
  BY DEF TextFields
<1> QED BY <1>1, <1>2, <1>3, <1>4, <1>5, <1>6, <1>7, <1>8 DEF TemplateChecked

(* The texts of an array or an object.                                     *)
LEMMA TextsType ==
  ASSUME NEW W, NEW json, IsTemplate(json, W), NEW f \in {"roles", "role_templates", "seps"},
         Has(json, f, "array") \/ Has(json, f, "object"), AllOf(json, f, "string")
  PROVE  /\ \A i \in DOMAIN json.of[f].of : json.of[f].of[i].of \in Seq(W)
         /\ DOMAIN Items(json, f) = DOMAIN json.of[f].of
<1>1. f \in DOMAIN json.of
  BY DEF Has
<1>2. Items(json, f) = json.of[f].of
  BY <1>1, Zenon DEF Items, Absent
<1>3. \A i \in DOMAIN json.of[f].of : IsText(json.of[f].of[i], W)
  BY DEF IsTemplate
<1>4. \A i \in DOMAIN json.of[f].of : json.of[f].of[i].type = "string"
  BY <1>2 DEF AllOf
<1> QED BY <1>2, <1>3, <1>4 DEF IsText

(* The messages pass exactly if each is a turn.                            *)
LEMMA TurnsParsed ==
  ASSUME NEW json
  PROVE  TemplateMessages(json) = "ok"
         <=> /\ Has(json, "messages", "array")
             /\ \A i \in DOMAIN json.of.messages.of : WellFormedTurn(json.of.messages.of[i])
<1> DEFINE of == json.of.messages.of
           turns == /\ Has(json, "messages", "array")
                    /\ \A i \in DOMAIN Items(json, "messages") : WellFormedTurn(of[i])
<1>1. TemplateMessages(json) = ErrorUnless(turns)
  BY Zenon DEF TemplateMessages, WellFormedTurn
<1>2. ErrorUnless(turns) = "ok" <=> turns
  BY DEF ErrorUnless
<1>3. Has(json, "messages", "array") => Items(json, "messages") = of
  <2> SUFFICES ASSUME Has(json, "messages", "array") PROVE Items(json, "messages") = of
    OBVIOUS
  <2>1. "messages" \in DOMAIN json.of
    BY DEF Has
  <2> QED BY <2>1, Zenon DEF Items, Absent
<1>4. turns <=> /\ Has(json, "messages", "array")
                /\ \A i \in DOMAIN of : WellFormedTurn(of[i])
  BY <1>3
<1> QED BY <1>1, <1>2, <1>4

LEMMA TemplateMessagesType ==
  ASSUME NEW W, NEW json, IsTemplate(json, W), TemplateMessages(json) = "ok"
  PROVE  IsMessages(Conversation(json).messages, W)
<1> DEFINE s == Conversation(json).messages
           of == json.of.messages.of
<1>1. /\ Has(json, "messages", "array")
      /\ \A i \in DOMAIN of :
           /\ of[i].type = "array" /\ Len(of[i].of) = 2
           /\ \/ of[i].of[2].type = "string"
              \/ /\ of[i].of[2].type = "array"
                 /\ \A k \in DOMAIN of[i].of[2].of : of[i].of[2].of[k].type = "object"
  <2>1. /\ Has(json, "messages", "array")
        /\ \A i \in DOMAIN of : WellFormedTurn(of[i])
    BY TurnsParsed
  <2> QED BY <2>1 DEF WellFormedTurn
<1>2. "messages" \in DOMAIN json.of /\ json.of["messages"].type = "array"
  BY <1>1 DEF Has
<1>3. Items(json, "messages") = of
  BY <1>2, Zenon DEF Items, Absent
<1>4. IsSequence(of)
  BY <1>2 DEF IsTemplate, IsArray
<1>5. Len(of) \in Nat /\ DOMAIN of = 1..Len(of)
  BY <1>4 DEF IsSequence
<1>6. \A i \in DOMAIN of : of[i].type = "array" /\ Len(of[i].of) = 2 => IsContent(of[i].of[2], W)
  BY <1>1 DEF IsTemplate
<1>7. s = [i \in DOMAIN of |-> [role |-> of[i].of[1].of, content |-> of[i].of[2]]]
  BY DEF Conversation
<1> HIDE DEF s, of
<1>8. IsSequence(s) /\ Len(s) = Len(of)
  BY <1>5, <1>7 DEF IsSequence
<1>9. ASSUME NEW i \in 1..Len(of) PROVE IsMessage(s[i], W)
  <2> DEFINE c == of[i].of[2]
             role == of[i].of[1].of
  <2>1. s[i] = [role |-> role, content |-> c]
    BY <1>5, <1>7
  <2>2. IsContent(c, W)
    BY <1>1, <1>3, <1>5, <1>6
  <2>3. \/ c.type = "string"
        \/ c.type = "array" /\ \A k \in DOMAIN c.of : c.of[k].type = "object"
    BY <1>1, <1>3, <1>5
  <2> HIDE DEF c, role
  <2> QED BY <2>1, <2>2, <2>3 DEF IsMessage
<1>10. IsMessages(s, W)
  BY <1>8, <1>9 DEF IsMessages
<1> QED BY <1>10 DEF s

(* A template that is parsed is made of texts.                             *)
LEMMA ConversationType ==
  ASSUME NEW W, \A role \in DOMAIN Placeholder : Placeholder[role] \in W,
         NEW json, IsTemplate(json, W), ConversationFromJSON(json) = "ok"
  PROVE  IsConv(Conversation(json), W)
<1> DEFINE conv == Conversation(json)
<1>1. TemplateChecked(json)
  BY TemplateParsed
<1>2. \A f \in TextFields : json.of[f].of \in Seq(W)
  BY <1>1 DEF TemplateChecked, IsTemplate, IsText, Has, TextFields
<1>3. {conv.system_template, conv.system_message, conv.role_content_sep, conv.role_empty_sep}
        \subseteq Seq(W)
  <2>1. /\ conv.system_template = json.of["system_template"].of
        /\ conv.system_message = json.of["system_message"].of
        /\ conv.role_content_sep = json.of["role_content_sep"].of
        /\ conv.role_empty_sep = json.of["role_empty_sep"].of
    BY DEF Conversation
  <2> QED BY <1>2, <2>1 DEF TextFields
<1>4. conv.system_prefix_token_ids # <<>> => conv.system_prefix_token_ids[1] \in Seq(W)
  <2> DEFINE f == "system_prefix_token_ids"
             of == json.of.system_prefix_token_ids.of
             ids == Texts(json, f)
  <2>1. conv.system_prefix_token_ids = IF Absent(json, f) THEN <<>> ELSE <<ids>>
    BY DEF Conversation
  <2>2. ids = [i \in DOMAIN Items(json, f) |-> json.of[f].of[i].of]
    BY DEF Texts
  <2>3. ASSUME ~Absent(json, f) PROVE ids \in Seq(W)
    <3>1. Has(json, f, "array") /\ AllOf(json, f, "number")
      BY <1>1, <2>3 DEF TemplateChecked, IfThere
    <3>2. f \in DOMAIN json.of /\ json.of[f].type = "array"
      BY <3>1 DEF Has
    <3>3. Items(json, f) = of
      BY <3>2, Zenon DEF Items, Absent
    <3>4. IsSequence(of)
      BY <3>2 DEF IsTemplate, IsArray
    <3>5. Len(of) \in Nat /\ DOMAIN of = 1..Len(of)
      BY <3>4 DEF IsSequence
    <3>6. \A i \in DOMAIN of : of[i].of \in W
      <4>1. \A i \in DOMAIN of : of[i].type = "number"
        BY <3>1, <3>3 DEF AllOf
      <4>2. \A i \in DOMAIN of : of[i].type = "number" => of[i].of \in W
        BY <3>1 DEF IsTemplate
      <4> QED BY <4>1, <4>2
    <3>7. ids = [i \in DOMAIN of |-> of[i].of]
      BY <2>2, <3>3
    <3> HIDE DEF of, ids
    <3> QED BY <3>5, <3>6, <3>7
  <2> HIDE DEF ids, conv
  <2>4. CASE Absent(json, f)
    <3>1. conv.system_prefix_token_ids = <<>>
      BY <2>1, <2>4, Zenon
    <3> QED BY <3>1
  <2>5. CASE ~Absent(json, f)
    <3>1. conv.system_prefix_token_ids = <<ids>>
      BY <2>1, <2>5, Zenon
    <3> QED BY <2>3, <2>5, <3>1
  <2> QED BY <2>4, <2>5
<1>5. \A role \in DOMAIN conv.roles : conv.roles[role] \in Seq(W)
  <2>1. conv.roles = [i \in DOMAIN Items(json, "roles") |-> json.of["roles"].of[i].of]
    BY DEF Conversation, Texts
  <2>2. /\ \A i \in DOMAIN json.of["roles"].of : json.of["roles"].of[i].of \in Seq(W)
        /\ DOMAIN Items(json, "roles") = DOMAIN json.of["roles"].of
    BY <1>1, TextsType DEF TemplateChecked
  <2> HIDE DEF conv
  <2> QED BY <2>1, <2>2
<1>6. \A role \in DOMAIN conv.role_templates : conv.role_templates[role] \in Seq(W)
  <2> DEFINE f == "role_templates"
             own == DOMAIN Items(json, f)
             texts == Texts(json, f)
  <2>1. conv.role_templates =
          [role \in {"user", "assistant", "tool"} \cup own |->
             IF role \in own THEN texts[role] ELSE <<Placeholder[role]>>]
    BY DEF Conversation
  <2>2. \A role \in own : texts[role] \in Seq(W)
    <3>1. texts = [i \in own |-> json.of[f].of[i].of]
      BY DEF Texts
    <3>2. CASE Absent(json, f)
      <4>1. own = {}
        BY <3>2 DEF Items
      <4> QED BY <4>1
    <3>3. CASE Has(json, f, "object") /\ AllOf(json, f, "string")
      <4>1. /\ \A i \in DOMAIN json.of[f].of : json.of[f].of[i].of \in Seq(W)
            /\ own = DOMAIN json.of[f].of
        BY <3>3, TextsType
      <4> QED BY <3>1, <4>1
    <3> QED BY <1>1, <3>2, <3>3 DEF TemplateChecked, IfThere
  <2>3. \A role \in {"user", "assistant", "tool"} : <<Placeholder[role]>> \in Seq(W)
    <3>1. \A role \in {"user", "assistant", "tool"} : Placeholder[role] \in W
      BY DEF Placeholder
    <3> QED BY <3>1
  <2> HIDE DEF conv, own, texts
  <2> QED BY <2>1, <2>2, <2>3
<1>7. conv.seps \in Seq(Seq(W))
  <2> DEFINE of == json.of["seps"].of
  <2>1. conv.seps = [i \in DOMAIN Items(json, "seps") |-> json.of["seps"].of[i].of]
    BY DEF Conversation, Texts
  <2>2. /\ \A i \in DOMAIN of : of[i].of \in Seq(W)
        /\ DOMAIN Items(json, "seps") = DOMAIN of
    BY <1>1, TextsType DEF TemplateChecked
  <2>3. IsSequence(of)
    BY <1>1 DEF TemplateChecked, Has, IsTemplate, IsArray
  <2>4. Len(of) \in Nat /\ DOMAIN of = 1..Len(of)
    BY <2>3 DEF IsSequence
  <2>5. conv.seps = [i \in 1..Len(of) |-> of[i].of]
    BY <2>1, <2>2, <2>4
  <2> HIDE DEF conv, of
  <2> QED BY <2>2, <2>4, <2>5
<1>8. IsMessages(conv.messages, W)
  BY <1>1, TemplateMessagesType DEF TemplateChecked
<1> HIDE DEF conv
<1>9. IsConv(conv, W)
  BY <1>3, <1>4, <1>5, <1>6, <1>7, <1>8 DEF IsConv
<1> QED BY <1>9 DEF conv

-----------------------------------------------------------------------------
(* Requests.                                                               *)

(* An array of objects that are parsed one by one: all have been parsed.   *)
LEMMA EachMessage ==
  ASSUME NEW json, Has(json, "messages", "array"), IsSequence(json.of.messages.of)
  PROVE  EachObject(json, "messages", ChatCompletionMessage) = "ok"
         <=> \A i \in DOMAIN json.of.messages.of :
               /\ json.of.messages.of[i].type = "object"
               /\ ChatCompletionMessage(json.of.messages.of[i]) = "ok"
<1> DEFINE of == json.of.messages.of
           check(i) == IF of[i].type = "object" THEN ChatCompletionMessage(of[i]) ELSE "error"
           checks == [i \in DOMAIN of |-> check(i)]
<1>1. Items(json, "messages") = of /\ DOMAIN of \subseteq Nat
  <2>1. "messages" \in DOMAIN json.of
    BY DEF Has
  <2>2. Items(json, "messages") = of
    BY <2>1, Zenon DEF Items, Absent
  <2>3. DOMAIN of = 1..Len(of) /\ Len(of) \in Nat
    BY DEF IsSequence
  <2> QED BY <2>2, <2>3
<1>2. EachObject(json, "messages", ChatCompletionMessage)
        = InTurn([i \in DOMAIN Items(json, "messages") |-> check(i)])
  BY DEF EachObject
<1>3. EachObject(json, "messages", ChatCompletionMessage) = InTurn(checks)
  BY <1>1, <1>2
<1> HIDE DEF of
<1>4. DOMAIN checks \subseteq Nat
  BY <1>1
<1> HIDE DEF checks
<1>5. InTurn(checks) = "ok" <=> \A i \in DOMAIN checks : checks[i] = "ok"
  BY <1>4, InTurnPassed
<1>6. (\A i \in DOMAIN checks : checks[i] = "ok") <=> \A i \in DOMAIN of : check(i) = "ok"
  BY DEF checks
<1>7. \A i \in DOMAIN of :
        check(i) = "ok" <=> of[i].type = "object" /\ ChatCompletionMessage(of[i]) = "ok"
  OBVIOUS
<1> HIDE DEF check
<1>8. EachObject(json, "messages", ChatCompletionMessage) = "ok"
        <=> \A i \in DOMAIN of : of[i].type = "object" /\ ChatCompletionMessage(of[i]) = "ok"
  BY <1>3, <1>5, <1>6, <1>7
<1> QED BY <1>8 DEF of

LEMMA EachTool ==
  ASSUME NEW json, Has(json, "tools", "array"), IsSequence(json.of.tools.of)
  PROVE  EachObject(json, "tools", ChatTool) = "ok"
         <=> \A i \in DOMAIN json.of.tools.of :
               /\ json.of.tools.of[i].type = "object"
               /\ ChatTool(json.of.tools.of[i]) = "ok"
<1> DEFINE of == json.of.tools.of
           check(i) == IF of[i].type = "object" THEN ChatTool(of[i]) ELSE "error"
           checks == [i \in DOMAIN of |-> check(i)]
<1>1. Items(json, "tools") = of /\ DOMAIN of \subseteq Nat
  <2>1. "tools" \in DOMAIN json.of
    BY DEF Has
  <2>2. Items(json, "tools") = of
    BY <2>1, Zenon DEF Items, Absent
  <2>3. DOMAIN of = 1..Len(of) /\ Len(of) \in Nat
    BY DEF IsSequence
  <2> QED BY <2>2, <2>3
<1>2. EachObject(json, "tools", ChatTool)
        = InTurn([i \in DOMAIN Items(json, "tools") |-> check(i)])
  BY DEF EachObject
<1>3. EachObject(json, "tools", ChatTool) = InTurn(checks)
  BY <1>1, <1>2
<1> HIDE DEF of
<1>4. DOMAIN checks \subseteq Nat
  BY <1>1
<1> HIDE DEF checks
<1>5. InTurn(checks) = "ok" <=> \A i \in DOMAIN checks : checks[i] = "ok"
  BY <1>4, InTurnPassed
<1>6. (\A i \in DOMAIN checks : checks[i] = "ok") <=> \A i \in DOMAIN of : check(i) = "ok"
  BY DEF checks
<1>7. \A i \in DOMAIN of :
        check(i) = "ok" <=> of[i].type = "object" /\ ChatTool(of[i]) = "ok"
  OBVIOUS
<1> HIDE DEF check
<1>8. EachObject(json, "tools", ChatTool) = "ok"
        <=> \A i \in DOMAIN of : of[i].type = "object" /\ ChatTool(of[i]) = "ok"
  BY <1>3, <1>5, <1>6, <1>7
<1> QED BY <1>8 DEF of

(* No call of a tool is parsed.                                            *)
LEMMA CallRefused ==
  ASSUME NEW json
  PROVE  ChatToolCall(json) # "ok"
<1> DEFINE f == json.of["function"]
           s == <<Required(f, "name", "string"), Optional(f, "arguments", "object")>>
           a == IF Has(json, "function", "object") THEN InTurn(s) ELSE "error"
           b == Optional(json, "id", "string")
<1>1. a \in Outcomes /\ b \in Outcomes /\ "exception" \in Outcomes
  <2>1. DOMAIN s \subseteq Nat /\ \A i \in DOMAIN s : s[i] \in Outcomes
    BY DEF Optional, Required, ErrorUnless, Outcomes
  <2> HIDE DEF s
  <2>2. InTurn(s) \in Outcomes
    BY <2>1, InTurnOutcome
  <2> QED BY <2>2 DEF Optional, ErrorUnless, Outcomes
<1>2. ChatToolCall(json) = InTurn(<<a, b, "exception">>)
  BY DEF ChatToolCall, Nested, ChatFunctionCall
<1> HIDE DEF a, b
<1> QED BY <1>1, <1>2, InTurnThree

LEMMA EachCall ==
  ASSUME NEW json, Has(json, "tool_calls", "array"), IsSequence(json.of.tool_calls.of)
  PROVE  EachObject(json, "tool_calls", ChatToolCall) = "ok"
         <=> \A i \in DOMAIN json.of.tool_calls.of :
               /\ json.of.tool_calls.of[i].type = "object"
               /\ ChatToolCall(json.of.tool_calls.of[i]) = "ok"
<1> DEFINE of == json.of.tool_calls.of
           check(i) == IF of[i].type = "object" THEN ChatToolCall(of[i]) ELSE "error"
           checks == [i \in DOMAIN of |-> check(i)]
<1>1. Items(json, "tool_calls") = of /\ DOMAIN of \subseteq Nat
  <2>1. "tool_calls" \in DOMAIN json.of
    BY DEF Has
  <2>2. Items(json, "tool_calls") = of
    BY <2>1, Zenon DEF Items, Absent
  <2>3. DOMAIN of = 1..Len(of) /\ Len(of) \in Nat
    BY DEF IsSequence
  <2> QED BY <2>2, <2>3
<1>2. EachObject(json, "tool_calls", ChatToolCall)
        = InTurn([i \in DOMAIN Items(json, "tool_calls") |-> check(i)])
  BY DEF EachObject
<1>3. EachObject(json, "tool_calls", ChatToolCall) = InTurn(checks)
  BY <1>1, <1>2
<1> HIDE DEF of
<1>4. DOMAIN checks \subseteq Nat
  BY <1>1
<1> HIDE DEF checks
<1>5. InTurn(checks) = "ok" <=> \A i \in DOMAIN checks : checks[i] = "ok"
  BY <1>4, InTurnPassed
<1>6. (\A i \in DOMAIN checks : checks[i] = "ok") <=> \A i \in DOMAIN of : check(i) = "ok"
  BY DEF checks
<1>7. \A i \in DOMAIN of :
        check(i) = "ok" <=> of[i].type = "object" /\ ChatToolCall(of[i]) = "ok"
  OBVIOUS
<1> HIDE DEF check
<1>8. EachObject(json, "tool_calls", ChatToolCall) = "ok"
        <=> \A i \in DOMAIN of : of[i].type = "object" /\ ChatToolCall(of[i]) = "ok"
  BY <1>3, <1>5, <1>6, <1>7
<1> QED BY <1>8 DEF of

(* The calls of tools pass if there are none.                              *)
LEMMA CallsParsed ==
  ASSUME NEW json, IfThere(json, "tool_calls", "array"),
         "tool_calls" \in DOMAIN json.of => IsArray(json.of.tool_calls)
  PROVE  (IF Has(json, "tool_calls", "array")
          THEN EachObject(json, "tool_calls", ChatToolCall) ELSE "ok") = "ok"
         <=> Items(json, "tool_calls") = <<>>
<1> DEFINE of == json.of.tool_calls.of
<1>1. CASE Absent(json, "tool_calls")
  <2>1. ~Has(json, "tool_calls", "array") /\ Items(json, "tool_calls") = <<>>
    BY <1>1 DEF Absent, Has, Items
  <2> QED BY <2>1
<1>2. CASE Has(json, "tool_calls", "array")
  <2>1. "tool_calls" \in DOMAIN json.of /\ json.of["tool_calls"].type = "array"
    BY <1>2 DEF Has
  <2>2. Items(json, "tool_calls") = of
    BY <2>1, Zenon DEF Items, Absent
  <2>3. IsSequence(of)
    BY <2>1 DEF IsArray
  <2>4. EachObject(json, "tool_calls", ChatToolCall) = "ok"
          <=> \A i \in DOMAIN of : of[i].type = "object" /\ ChatToolCall(of[i]) = "ok"
    BY <1>2, <2>3, EachCall
  <2> HIDE DEF of
  <2>5. EachObject(json, "tool_calls", ChatToolCall) = "ok" <=> DOMAIN of = {}
    BY <2>4, CallRefused
  <2>6. DOMAIN of = {} <=> of = <<>>
    <3>1. DOMAIN of = 1..Len(of) /\ Len(of) \in Nat /\ of \in Seq(ToSet(of))
      BY <2>3, SequenceSet DEF IsSequence
    <3>2. DOMAIN of = {} => Len(of) = 0
      BY <3>1
    <3> QED BY <3>1, <3>2
  <2> QED BY <1>2, <2>2, <2>5, <2>6, Zenon
<1> QED BY <1>1, <1>2 DEF IfThere

(* What the checks of each parser establish.                               *)
FunctionChecked(json) ==
  IfThere(json, "description", "string") /\ Has(json, "name", "string")
    /\ Has(json, "parameters", "object")
LEMMA FunctionParsed ==
  ASSUME NEW json
  PROVE  ChatTool(json) = "ok"
         <=> Has(json, "function", "object") /\ FunctionChecked(json.of.function)
<1> DEFINE f == json.of["function"]
           a == Optional(f, "description", "string")
           b == Required(f, "name", "string")
           c == Required(f, "parameters", "object")
<1>1. ChatTool(json) = IF Has(json, "function", "object") THEN InTurn(<<a, b, c>>) ELSE "error"
  BY DEF ChatTool, Nested, ChatFunction
<1>2. a \in Outcomes /\ b \in Outcomes /\ c \in Outcomes
  BY DEF Optional, Required, ErrorUnless, Outcomes
<1>3. /\ a = "ok" <=> IfThere(f, "description", "string")
      /\ b = "ok" <=> Has(f, "name", "string")
      /\ c = "ok" <=> Has(f, "parameters", "object")
  BY LookupPassed
<1> HIDE DEF a, b, c, f
<1>4. InTurn(<<a, b, c>>) = "ok" <=> a = "ok" /\ b = "ok" /\ c = "ok"
  BY <1>2, InTurnThree
<1>5. FunctionChecked(f) <=> InTurn(<<a, b, c>>) = "ok"
  BY <1>3, <1>4 DEF FunctionChecked
<1>6. ChatTool(json) = "ok" <=> Has(json, "function", "object") /\ FunctionChecked(f)
  BY <1>1, <1>5
<1> QED BY <1>6 DEF f

MessageChecked(json) ==
  /\ "content" \in DOMAIN json.of
  /\ \/ json.of.content.type \in {"string", "null"}
     \/ json.of.content.type = "array" /\ AllOf(json, "content", "object")
  /\ Has(json, "role", "string") /\ json.of.role.of \in {"system", "user", "assistant", "tool"}
  /\ IfThere(json, "name", "string") /\ IfThere(json, "tool_calls", "array")
  /\ Items(json, "tool_calls") = <<>> /\ IfThere(json, "tool_call_id", "string")
LEMMA MessageParsed ==
  ASSUME NEW json, "tool_calls" \in DOMAIN json.of => IsArray(json.of.tool_calls)
  PROVE  ChatCompletionMessage(json) = "ok" <=> MessageChecked(json)
<1> DEFINE named == /\ Has(json, "role", "string")
                    /\ json.of.role.of \in {"system", "user", "assistant", "tool"}
           calls == IF Has(json, "tool_calls", "array")
                    THEN EachObject(json, "tool_calls", ChatToolCall) ELSE "ok"
           s == <<ParsedContent(json), ErrorUnless(named), Optional(json, "name", "string"),
                  Optional(json, "tool_calls", "array"), calls,
                  Optional(json, "tool_call_id", "string")>>
<1>1. ChatCompletionMessage(json) = InTurn(s)
  BY DEF ChatCompletionMessage
<1>2. IfThere(json, "tool_calls", "array") =>
        (calls = "ok" <=> Items(json, "tool_calls") = <<>>)
  BY CallsParsed
<1>3. ParsedContent(json) = "ok"
        <=> /\ "content" \in DOMAIN json.of
            /\ \/ json.of.content.type \in {"string", "null"}
               \/ json.of.content.type = "array" /\ AllOf(json, "content", "object")
  BY DEF ParsedContent, ErrorUnless, Absent, Has
<1>4. ErrorUnless(named) = "ok" <=> named
  BY DEF ErrorUnless
<1> HIDE DEF calls, named
<1>5. /\ DOMAIN s = 1..6 /\ s[1] = ParsedContent(json) /\ s[2] = ErrorUnless(named)
      /\ s[3] = Optional(json, "name", "string") /\ s[4] = Optional(json, "tool_calls", "array")
      /\ s[5] = calls /\ s[6] = Optional(json, "tool_call_id", "string")
  OBVIOUS
<1> HIDE DEF s
<1>6. InTurn(s) = "ok" <=> \A i \in 1..6 : s[i] = "ok"
  <2>1. DOMAIN s \subseteq Nat
    BY <1>5
  <2> QED BY <1>5, <2>1, InTurnPassed
<1>7. (\A i \in 1..6 : s[i] = "ok")
        <=> /\ s[1] = "ok" /\ s[2] = "ok" /\ s[3] = "ok" /\ s[4] = "ok" /\ s[5] = "ok"
            /\ s[6] = "ok"
  OBVIOUS
<1>8. /\ s[3] = "ok" <=> IfThere(json, "name", "string")
      /\ s[4] = "ok" <=> IfThere(json, "tool_calls", "array")
      /\ s[6] = "ok" <=> IfThere(json, "tool_call_id", "string")
  BY <1>5, LookupPassed
<1> QED BY <1>1, <1>2, <1>3, <1>4, <1>5, <1>6, <1>7, <1>8 DEF MessageChecked, named

RequestChecked(json) ==
  /\ Has(json, "messages", "array")
  /\ \A i \in DOMAIN json.of.messages.of :
       json.of.messages.of[i].type = "object" /\ MessageChecked(json.of.messages.of[i])
  /\ IfThere(json, "model", "string") /\ \A f \in Numbers : IfThere(json, f, "number")
  /\ IfThere(json, "stop", "array") /\ AllOf(json, "stop", "string")
  /\ IfThere(json, "tool_choice", "string") /\ IfThere(json, "tools", "array")
  /\ Has(json, "tools", "array") => \A i \in DOMAIN json.of.tools.of :
       json.of.tools.of[i].type = "object" /\ ChatTool(json.of.tools.of[i]) = "ok"
  /\ IfThere(json, "response_format", "object") /\ IfThere(json, "debug_config", "object")
LEMMA RequestParsed ==
  ASSUME NEW W, NEW json, IsRequest(json, W)
  PROVE  ChatCompletionRequest(json) = "ok" <=> RequestChecked(json)
<1> DEFINE messages == IF Has(json, "messages", "array")
                       THEN EachObject(json, "messages", ChatCompletionMessage) ELSE "ok"
           tools == IF Has(json, "tools", "array") THEN EachObject(json, "tools", ChatTool) ELSE "ok"
           numbers == \A f \in Numbers : Optional(json, f, "number") = "ok"
           stop == /\ Optional(json, "stop", "array") = "ok"
                   /\ Has(json, "stop", "array") => AllOf(json, "stop", "string")
           typed == IF Optional(json, "tools", "array") = "ok" THEN "ok" ELSE "exception"
           format == IF Optional(json, "response_format", "object") = "ok" THEN "ok"
                     ELSE "exception"
           s == <<Required(json, "messages", "array"), messages, Optional(json, "model", "string"),
                  ErrorUnless(numbers), ErrorUnless(stop), Optional(json, "tool_choice", "string"),
                  typed, tools, format, Optional(json, "debug_config", "object")>>
           all == \A i \in DOMAIN json.of.messages.of :
                    /\ json.of.messages.of[i].type = "object"
                    /\ MessageChecked(json.of.messages.of[i])
           each == \A i \in DOMAIN json.of.tools.of :
                     json.of.tools.of[i].type = "object" /\ ChatTool(json.of.tools.of[i]) = "ok"
<1>1. ChatCompletionRequest(json) = InTurn(s)
  BY DEF ChatCompletionRequest
<1>2. Has(json, "messages", "array") => (messages = "ok" <=> all)
  <2> SUFFICES ASSUME Has(json, "messages", "array") PROVE messages = "ok" <=> all
    OBVIOUS
  <2> DEFINE of == json.of.messages.of
  <2>1. IsSequence(of)
    BY DEF IsRequest, IsArray, Has
  <2>2. messages = "ok"
          <=> \A i \in DOMAIN of : of[i].type = "object" /\ ChatCompletionMessage(of[i]) = "ok"
    BY <2>1, EachMessage
  <2>3. \A i \in DOMAIN of : of[i].type = "object" =>
          ("tool_calls" \in DOMAIN of[i].of => IsArray(of[i].of.tool_calls))
    BY DEF IsRequest
  <2>4. \A i \in DOMAIN of : of[i].type = "object" =>
          (ChatCompletionMessage(of[i]) = "ok" <=> MessageChecked(of[i]))
    BY <2>3, MessageParsed
  <2> HIDE DEF messages
  <2> QED BY <2>2, <2>4
<1>3. Has(json, "tools", "array") => (tools = "ok" <=> each)
  <2> SUFFICES ASSUME Has(json, "tools", "array") PROVE tools = "ok" <=> each
    OBVIOUS
  <2>1. IsSequence(json.of.tools.of)
    BY DEF IsRequest, IsArray, Has
  <2> QED BY <2>1, EachTool
<1>4. ~Has(json, "tools", "array") => tools = "ok"
  OBVIOUS
<1>5. ErrorUnless(numbers) = "ok" <=> \A f \in Numbers : IfThere(json, f, "number")
  <2>1. ErrorUnless(numbers) = "ok" <=> numbers
    BY DEF ErrorUnless
  <2> QED BY <2>1, LookupPassed
<1>6. ErrorUnless(stop) = "ok" <=> IfThere(json, "stop", "array") /\ AllOf(json, "stop", "string")
  <2>1. ErrorUnless(stop) = "ok" <=> stop
    BY DEF ErrorUnless
  <2>2. stop <=> IfThere(json, "stop", "array") /\ AllOf(json, "stop", "string")
    BY LookupPassed, AbsentAll DEF IfThere
  <2> QED BY <2>1, <2>2
<1>7. /\ typed = "ok" <=> IfThere(json, "tools", "array")
      /\ format = "ok" <=> IfThere(json, "response_format", "object")
  BY LookupPassed
<1> HIDE DEF messages, tools, numbers, stop, typed, format, all, each
<1>8. /\ DOMAIN s = 1..10 /\ s[1] = Required(json, "messages", "array") /\ s[2] = messages
      /\ s[3] = Optional(json, "model", "string") /\ s[4] = ErrorUnless(numbers)
      /\ s[5] = ErrorUnless(stop) /\ s[6] = Optional(json, "tool_choice", "string")
      /\ s[7] = typed /\ s[8] = tools /\ s[9] = format
      /\ s[10] = Optional(json, "debug_config", "object")
  OBVIOUS
<1> HIDE DEF s
<1>9. InTurn(s) = "ok" <=> \A i \in 1..10 : s[i] = "ok"
  <2>1. DOMAIN s \subseteq Nat
    BY <1>8
  <2> QED BY <1>8, <2>1, InTurnPassed
<1>10. (\A i \in 1..10 : s[i] = "ok")
         <=> /\ s[1] = "ok" /\ s[2] = "ok" /\ s[3] = "ok" /\ s[4] = "ok" /\ s[5] = "ok"
             /\ s[6] = "ok" /\ s[7] = "ok" /\ s[8] = "ok" /\ s[9] = "ok" /\ s[10] = "ok"
  OBVIOUS
<1>11. /\ s[1] = "ok" <=> Has(json, "messages", "array")
       /\ s[3] = "ok" <=> IfThere(json, "model", "string")
       /\ s[6] = "ok" <=> IfThere(json, "tool_choice", "string")
       /\ s[10] = "ok" <=> IfThere(json, "debug_config", "object")
  BY <1>8, LookupPassed
<1>12. RequestChecked(json)
         <=> /\ Has(json, "messages", "array") /\ all
             /\ IfThere(json, "model", "string") /\ \A f \in Numbers : IfThere(json, f, "number")
             /\ IfThere(json, "stop", "array") /\ AllOf(json, "stop", "string")
             /\ IfThere(json, "tool_choice", "string") /\ IfThere(json, "tools", "array")
             /\ Has(json, "tools", "array") => each
             /\ IfThere(json, "response_format", "object")
             /\ IfThere(json, "debug_config", "object")
  BY DEF RequestChecked, all, each
<1> QED BY <1>1, <1>2, <1>3, <1>4, <1>5, <1>6, <1>7, <1>8, <1>9, <1>10, <1>11, <1>12

(* A parser has one of the outcomes.                                       *)
LEMMA ErrorOutcome ==
  ASSUME NEW condition
  PROVE  ErrorUnless(condition) \in Outcomes
BY DEF ErrorUnless, Outcomes

LEMMA FunctionOutcome ==
  ASSUME NEW json
  PROVE  ChatTool(json) \in Outcomes
<1> DEFINE f == json.of["function"]
           a == Optional(f, "description", "string")
           b == Required(f, "name", "string")
           c == Required(f, "parameters", "object")
<1>1. a \in Outcomes /\ b \in Outcomes /\ c \in Outcomes
  BY ErrorOutcome DEF Optional, Required
<1> HIDE DEF a, b, c
<1>2. InTurn(<<a, b, c>>) \in Outcomes
  BY <1>1, InTurnThree
<1>3. ChatTool(json) = IF Has(json, "function", "object") THEN InTurn(<<a, b, c>>) ELSE "error"
  BY DEF ChatTool, Nested, ChatFunction, a, b, c
<1> QED BY <1>2, <1>3 DEF Outcomes

LEMMA ToolCallOutcome ==
  ASSUME NEW json
  PROVE  ChatToolCall(json) \in Outcomes
<1> DEFINE f == json.of["function"]
           s == <<Required(f, "name", "string"), Optional(f, "arguments", "object")>>
           a == IF Has(json, "function", "object") THEN InTurn(s) ELSE "error"
           b == Optional(json, "id", "string")
<1>1. InTurn(s) \in Outcomes
  <2>1. DOMAIN s \subseteq Nat /\ \A i \in DOMAIN s : s[i] \in Outcomes
    BY ErrorOutcome DEF Optional, Required
  <2> HIDE DEF s
  <2> QED BY <2>1, InTurnOutcome
<1> HIDE DEF s
<1>2. a \in Outcomes /\ b \in Outcomes /\ "exception" \in Outcomes
  BY <1>1, ErrorOutcome DEF Outcomes, Optional
<1>3. ChatToolCall(json) = InTurn(<<a, b, "exception">>)
  BY DEF ChatToolCall, Nested, ChatFunctionCall, s
<1> HIDE DEF a, b
<1> QED BY <1>2, <1>3, InTurnThree

LEMMA MessageOutcome ==
  ASSUME NEW json, "tool_calls" \in DOMAIN json.of => IsArray(json.of.tool_calls)
  PROVE  ChatCompletionMessage(json) \in Outcomes
<1> DEFINE f == "tool_calls"
           of == json.of[f].of
           calls == IF Has(json, f, "array") THEN EachObject(json, f, ChatToolCall) ELSE "ok"
           role == ErrorUnless(/\ Has(json, "role", "string")
                               /\ json.of.role.of \in {"system", "user", "assistant", "tool"})
           s == <<ParsedContent(json), role, Optional(json, "name", "string"),
                  Optional(json, f, "array"), calls, Optional(json, "tool_call_id", "string")>>
<1>1. calls \in Outcomes
  <2>1. CASE Has(json, f, "array")
    <3> DEFINE check(i) == IF of[i].type = "object" THEN ChatToolCall(of[i]) ELSE "error"
               checks == [i \in DOMAIN of |-> check(i)]
    <3>1. Items(json, f) = of /\ DOMAIN of \subseteq Nat
      <4>1. f \in DOMAIN json.of /\ json.of[f].type = "array"
        BY <2>1 DEF Has
      <4>2. Items(json, f) = of
        BY <4>1, Zenon DEF Items, Absent
      <4>3. IsSequence(of)
        BY <4>1 DEF IsArray
      <4> QED BY <4>2, <4>3 DEF IsSequence
    <3>2. EachObject(json, f, ChatToolCall) = InTurn([i \in DOMAIN Items(json, f) |-> check(i)])
      BY DEF EachObject
    <3> HIDE DEF of
    <3>3. DOMAIN checks \subseteq Nat /\ \A i \in DOMAIN checks : checks[i] \in Outcomes
      BY <3>1, ToolCallOutcome DEF Outcomes
    <3>4. EachObject(json, f, ChatToolCall) = InTurn(checks)
      BY <3>1, <3>2
    <3> HIDE DEF checks
    <3>5. InTurn(checks) \in Outcomes
      BY <3>3, InTurnOutcome
    <3> QED BY <2>1, <3>4, <3>5
  <2>2. CASE ~Has(json, f, "array")
    BY <2>2 DEF Outcomes
  <2> QED BY <2>1, <2>2
<1>2. ParsedContent(json) \in Outcomes
  <2>1. "error" \in Outcomes
    BY DEF Outcomes
  <2> QED BY <2>1, ErrorOutcome DEF ParsedContent
<1> HIDE DEF calls
<1>3. /\ role \in Outcomes /\ Optional(json, "name", "string") \in Outcomes
      /\ Optional(json, f, "array") \in Outcomes
      /\ Optional(json, "tool_call_id", "string") \in Outcomes
  BY ErrorOutcome DEF Optional
<1> HIDE DEF role
<1>4. DOMAIN s \subseteq Nat /\ \A i \in DOMAIN s : s[i] \in Outcomes
  <2>1. DOMAIN s = 1..6
    OBVIOUS
  <2>2. \A i \in 1..6 : i \in {1, 2, 3, 4, 5, 6}
    OBVIOUS
  <2>3. \A i \in {1, 2, 3, 4, 5, 6} : s[i] \in Outcomes
    BY <1>1, <1>2, <1>3
  <2> HIDE DEF s
  <2> QED BY <2>1, <2>2, <2>3
<1>5. ChatCompletionMessage(json) = InTurn(s)
  BY DEF ChatCompletionMessage, calls, role
<1> HIDE DEF s
<1> QED BY <1>4, <1>5, InTurnOutcome

LEMMA RequestOutcome ==
  ASSUME NEW W, NEW json, IsRequest(json, W)
  PROVE  ChatCompletionRequest(json) \in Outcomes
<1> DEFINE messages == IF Has(json, "messages", "array")
                       THEN EachObject(json, "messages", ChatCompletionMessage) ELSE "ok"
           tools == IF Has(json, "tools", "array") THEN EachObject(json, "tools", ChatTool) ELSE "ok"
           typed == IF Optional(json, "tools", "array") = "ok" THEN "ok" ELSE "exception"
           format == IF Optional(json, "response_format", "object") = "ok" THEN "ok"
                     ELSE "exception"
           numbers == ErrorUnless(\A f \in Numbers : Optional(json, f, "number") = "ok")
           stop == ErrorUnless(/\ Optional(json, "stop", "array") = "ok"
                               /\ Has(json, "stop", "array") => AllOf(json, "stop", "string"))
           s == <<Required(json, "messages", "array"), messages, Optional(json, "model", "string"),
                  numbers, stop, Optional(json, "tool_choice", "string"), typed, tools, format,
                  Optional(json, "debug_config", "object")>>
<1>1. messages \in Outcomes
  <2>1. CASE Has(json, "messages", "array")
    <3> DEFINE of == json.of["messages"].of
               check(i) == IF of[i].type = "object" THEN ChatCompletionMessage(of[i]) ELSE "error"
               checks == [i \in DOMAIN of |-> check(i)]
    <3>1. Items(json, "messages") = of /\ DOMAIN of \subseteq Nat
      <4>1. "messages" \in DOMAIN json.of /\ json.of["messages"].type = "array"
        BY <2>1 DEF Has
      <4>2. Items(json, "messages") = of
        BY <4>1, Zenon DEF Items, Absent
      <4>3. IsSequence(of)
        BY <4>1 DEF IsRequest, IsArray
      <4> QED BY <4>2, <4>3 DEF IsSequence
    <3>2. EachObject(json, "messages", ChatCompletionMessage)
            = InTurn([i \in DOMAIN Items(json, "messages") |-> check(i)])
      BY DEF EachObject
    <3>3. \A i \in DOMAIN of : of[i].type = "object" =>
            ("tool_calls" \in DOMAIN of[i].of => IsArray(of[i].of.tool_calls))
      BY <2>1 DEF IsRequest
    <3> HIDE DEF of
    <3>4. \A i \in DOMAIN of : check(i) \in Outcomes
      <4>1. \A i \in DOMAIN of : of[i].type = "object" => ChatCompletionMessage(of[i]) \in Outcomes
        BY <3>3, MessageOutcome
      <4> QED BY <4>1 DEF Outcomes
    <3>5. DOMAIN checks \subseteq Nat /\ \A i \in DOMAIN checks : checks[i] \in Outcomes
      BY <3>1, <3>4
    <3>6. EachObject(json, "messages", ChatCompletionMessage) = InTurn(checks)
      BY <3>1, <3>2
    <3> HIDE DEF checks
    <3>7. InTurn(checks) \in Outcomes
      BY <3>5, InTurnOutcome
    <3> QED BY <2>1, <3>6, <3>7
  <2>2. CASE ~Has(json, "messages", "array")
    BY <2>2 DEF Outcomes
  <2> QED BY <2>1, <2>2
<1>2. tools \in Outcomes
  <2>1. CASE Has(json, "tools", "array")
    <3> DEFINE of == json.of["tools"].of
               check(i) == IF of[i].type = "object" THEN ChatTool(of[i]) ELSE "error"
               checks == [i \in DOMAIN of |-> check(i)]
    <3>1. Items(json, "tools") = of /\ DOMAIN of \subseteq Nat
      <4>1. "tools" \in DOMAIN json.of /\ json.of["tools"].type = "array"
        BY <2>1 DEF Has
      <4>2. Items(json, "tools") = of
        BY <4>1, Zenon DEF Items, Absent
      <4>3. IsSequence(of)
        BY <4>1 DEF IsRequest, IsArray
      <4> QED BY <4>2, <4>3 DEF IsSequence
    <3>2. EachObject(json, "tools", ChatTool)
            = InTurn([i \in DOMAIN Items(json, "tools") |-> check(i)])
      BY DEF EachObject
    <3> HIDE DEF of
    <3>3. DOMAIN checks \subseteq Nat /\ \A i \in DOMAIN checks : checks[i] \in Outcomes
      BY <3>1, FunctionOutcome DEF Outcomes
    <3>4. EachObject(json, "tools", ChatTool) = InTurn(checks)
      BY <3>1, <3>2
    <3> HIDE DEF checks
    <3>5. InTurn(checks) \in Outcomes
      BY <3>3, InTurnOutcome
    <3> QED BY <2>1, <3>4, <3>5
  <2>2. CASE ~Has(json, "tools", "array")
    BY <2>2 DEF Outcomes
  <2> QED BY <2>1, <2>2
<1> HIDE DEF messages, tools
<1>3. typed \in Outcomes /\ format \in Outcomes
  BY DEF Outcomes
<1>4. /\ Required(json, "messages", "array") \in Outcomes
      /\ Optional(json, "model", "string") \in Outcomes
      /\ Optional(json, "tool_choice", "string") \in Outcomes
      /\ Optional(json, "debug_config", "object") \in Outcomes
  BY ErrorOutcome DEF Optional, Required
<1>5. numbers \in Outcomes /\ stop \in Outcomes
  BY ErrorOutcome
<1> HIDE DEF numbers, stop, typed, format
<1>6. DOMAIN s \subseteq Nat /\ \A i \in DOMAIN s : s[i] \in Outcomes
  <2>1. DOMAIN s = 1..10
    OBVIOUS
  <2>2. \A i \in 1..10 : i \in {1, 2, 3, 4, 5, 6, 7, 8, 9, 10}
    OBVIOUS
  <2>3. \A i \in {1, 2, 3, 4, 5, 6, 7, 8, 9, 10} : s[i] \in Outcomes
    BY <1>1, <1>2, <1>3, <1>4, <1>5
  <2> HIDE DEF s
  <2> QED BY <2>1, <2>2, <2>3
<1>7. ChatCompletionRequest(json) = InTurn(s)
  BY DEF ChatCompletionRequest, messages, tools, typed, format, numbers, stop
<1> HIDE DEF s
<1> QED BY <1>6, <1>7, InTurnOutcome

LEMMA TemplateOutcome ==
  ASSUME NEW json
  PROVE  ConversationFromJSON(json) \in Outcomes
<1> DEFINE s == <<Optional(json, "name", "string"), Required(json, "system_template", "string"),
                  Required(json, "system_message", "string"),
                  IfPresent(json, "system_prefix_token_ids",
                            ArrayOf(json, "system_prefix_token_ids", "number")),
                  Required(json, "add_role_after_system_message", "bool"),
                  ObjectOf(json, "roles", "string"),
                  IfPresent(json, "role_templates", ObjectOf(json, "role_templates", "string")),
                  TemplateMessages(json),
                  ArrayOf(json, "seps", "string"),
                  Required(json, "role_content_sep", "string"),
                  Required(json, "role_empty_sep", "string"),
                  ArrayOf(json, "stop_str", "string"), ArrayOf(json, "stop_token_ids", "number"),
                  Optional(json, "strip_reasoning_in_history", "bool")>>
<1>1. \A f, type : /\ Optional(json, f, type) \in Outcomes /\ Required(json, f, type) \in Outcomes
                   /\ ArrayOf(json, f, type) \in Outcomes /\ ObjectOf(json, f, type) \in Outcomes
  BY ErrorOutcome DEF Optional, Required, ArrayOf, ObjectOf
<1>2. TemplateMessages(json) \in Outcomes
  BY ErrorOutcome DEF TemplateMessages
<1>3. /\ IfPresent(json, "system_prefix_token_ids",
                   ArrayOf(json, "system_prefix_token_ids", "number")) \in Outcomes
      /\ IfPresent(json, "role_templates", ObjectOf(json, "role_templates", "string")) \in Outcomes
  <2>1. \A check \in Outcomes : IfPresent(json, "system_prefix_token_ids", check) \in Outcomes
    BY DEF IfPresent, Outcomes
  <2>2. \A check \in Outcomes : IfPresent(json, "role_templates", check) \in Outcomes
    BY DEF IfPresent, Outcomes
  <2> QED BY <1>1, <2>1, <2>2
<1>4. DOMAIN s = 1..14
  OBVIOUS
<1>5. \A i \in {1, 2, 3, 4, 5, 6, 7, 8, 9, 10, 11, 12, 13, 14} : s[i] \in Outcomes
  BY <1>1, <1>2, <1>3
<1>6. \A i \in 1..14 : i \in {1, 2, 3, 4, 5, 6, 7, 8, 9, 10, 11, 12, 13, 14}
  OBVIOUS
<1>7. ConversationFromJSON(json) = InTurn(s)
  BY DEF ConversationFromJSON
<1> HIDE DEF s
<1>8. DOMAIN s \subseteq Nat /\ \A i \in DOMAIN s : s[i] \in Outcomes
  BY <1>4, <1>5, <1>6
<1> QED BY <1>7, <1>8, InTurnOutcome

(* A request that is parsed.                                               *)
LEMMA ParsedMessages ==
  ASSUME NEW W, NEW json, IsRequest(json, W), RequestChecked(json)
  PROVE  IsMessages(Parsed(json).messages, W)
<1> DEFINE s == Parsed(json).messages
           of == json.of.messages.of
<1>1. /\ "messages" \in DOMAIN json.of /\ Has(json, "messages", "array")
      /\ \A i \in DOMAIN of : of[i].type = "object" /\ MessageChecked(of[i])
  BY DEF RequestChecked, Has
<1>2. IsSequence(of)
  BY <1>1 DEF IsRequest, IsArray, Has
<1>3. Len(of) \in Nat /\ DOMAIN of = 1..Len(of)
  BY <1>2 DEF IsSequence
<1>4. \A i \in DOMAIN of : of[i].type = "object" =>
        ("content" \in DOMAIN of[i].of => IsContent(of[i].of.content, W))
  BY <1>1 DEF IsRequest
<1>5. s = [i \in DOMAIN of |-> [role |-> of[i].of.role.of, content |-> of[i].of.content]]
  BY DEF Parsed
<1> HIDE DEF s, of
<1>6. IsSequence(s) /\ Len(s) = Len(of)
  BY <1>3, <1>5 DEF IsSequence
<1>7. ASSUME NEW i \in 1..Len(of) PROVE IsMessage(s[i], W)
  <2> DEFINE message == of[i]
             c == message.of["content"]
             role == message.of.role.of
  <2>1. s[i] = [role |-> role, content |-> c]
    BY <1>3, <1>5
  <2>2. MessageChecked(message)
    BY <1>1, <1>3
  <2>3. IsContent(c, W)
    BY <1>1, <1>3, <1>4, <2>2 DEF MessageChecked
  <2> HIDE DEF message
  <2>4. \/ c.type \in {"string", "null"}
        \/ c.type = "array" /\ \A k \in DOMAIN c.of : c.of[k].type = "object"
    <3>1. /\ "content" \in DOMAIN message.of
          /\ \/ c.type \in {"string", "null"}
             \/ c.type = "array" /\ AllOf(message, "content", "object")
      BY <2>2 DEF MessageChecked
    <3>2. Items(message, "content") = c.of
      BY <3>1, Zenon DEF Items, Absent
    <3> QED BY <3>1, <3>2 DEF AllOf
  <2> HIDE DEF c, role
  <2> QED BY <2>1, <2>3, <2>4 DEF IsMessage
<1>8. IsMessages(s, W)
  BY <1>6, <1>7 DEF IsMessages
<1> QED BY <1>8 DEF s

LEMMA ParsedType ==
  ASSUME NEW W, NEW json, IsRequest(json, W), RequestChecked(json)
  PROVE  /\ Parsed(json).tools # <<>> => Parsed(json).tools[1] \in Seq(W)
         /\ Parsed(json).max_tokens \in Int /\ Parsed(json).max_tokens >= -1
<1>1. Parsed(json).tools # <<>> => Parsed(json).tools[1] \in Seq(W)
  <2> DEFINE of == json.of["tools"].of
             names == [i \in DOMAIN of |-> of[i].of.function.of.name.of]
             tools == Parsed(json).tools
  <2>1. tools = IF Absent(json, "tools") THEN <<>> ELSE <<names>>
    BY DEF Parsed
  <2>2. ASSUME ~Absent(json, "tools") PROVE names \in Seq(W)
    <3>1. Has(json, "tools", "array")
      BY <2>2 DEF RequestChecked, IfThere
    <3>2. "tools" \in DOMAIN json.of /\ json.of["tools"].type = "array"
      BY <3>1 DEF Has
    <3>3. IsSequence(of)
      BY <3>2 DEF IsRequest, IsArray
    <3>4. Len(of) \in Nat /\ DOMAIN of = 1..Len(of)
      BY <3>3 DEF IsSequence
    <3>5. \A i \in DOMAIN of : of[i].of.function.of.name.of \in W
      <4>1. \A i \in DOMAIN of : ChatTool(of[i]) = "ok"
        BY <3>1 DEF RequestChecked
      <4>2. \A i \in DOMAIN of : ChatTool(of[i]) = "ok" => of[i].of.function.of.name.of \in W
        BY <3>1 DEF IsRequest
      <4> QED BY <4>1, <4>2
    <3> HIDE DEF of
    <3> QED BY <3>4, <3>5
  <2> HIDE DEF names, tools
  <2>3. CASE Absent(json, "tools")
    <3>1. tools = <<>>
      BY <2>1, <2>3, Zenon
    <3> QED BY <3>1 DEF tools
  <2>4. CASE ~Absent(json, "tools")
    <3>1. tools = <<names>>
      BY <2>1, <2>4, Zenon
    <3>2. tools[1] = names
      BY <3>1
    <3> QED BY <2>2, <2>4, <3>2 DEF tools
  <2> QED BY <2>3, <2>4
<1>2. Parsed(json).max_tokens \in Int /\ Parsed(json).max_tokens >= -1
  <2> DEFINE f == "max_tokens"
  <2>1. Parsed(json).max_tokens = IF Absent(json, f) THEN -1 ELSE json.of[f].of
    BY DEF Parsed
  <2>2. IfThere(json, f, "number")
    BY DEF RequestChecked, Numbers
  <2>3. ~Absent(json, f) => json.of[f].of \in Int /\ json.of[f].of >= -1
    BY <2>2 DEF IsRequest, IfThere
  <2> QED BY <2>1, <2>3
<1> QED BY <1>1, <1>2

-----------------------------------------------------------------------------
(* What is parsed is what is well-formed.                                  *)

LEMMA ThereType ==
  ASSUME NEW json, NEW f, NEW type
  PROVE  /\ IfThere(json, f, type) <=> (f \in DOMAIN json.of => json.of[f].type = type)
         /\ Has(json, f, type) <=> f \in DOMAIN json.of /\ json.of[f].type = type
BY DEF IfThere, Absent, Has

LEMMA MessageShape ==
  ASSUME NEW json
  PROVE  json.type = "object" /\ MessageChecked(json)
         <=> WellFormedMessage(json) /\ Items(json, "tool_calls") = <<>>
<1> DEFINE fields == [role |-> {"string"}, content |-> {"string", "null", "array"},
                      name |-> {"string"}, tool_calls |-> {"array"}, tool_call_id |-> {"string"}]
           typed(f) == f \in DOMAIN json.of => json.of[f].type \in fields[f]
<1>1. (\A f \in DOMAIN fields \cap DOMAIN json.of : json.of[f].type \in fields[f])
        <=> /\ typed("role") /\ typed("content") /\ typed("name") /\ typed("tool_calls")
            /\ typed("tool_call_id")
  BY DOMAIN fields = {"role", "content", "name", "tool_calls", "tool_call_id"}
<1>2. /\ typed("role") <=> ("role" \in DOMAIN json.of => json.of["role"].type = "string")
      /\ typed("content") <=> ("content" \in DOMAIN json.of =>
                                 json.of["content"].type \in {"string", "null", "array"})
      /\ typed("name") <=> IfThere(json, "name", "string")
      /\ typed("tool_calls") <=> IfThere(json, "tool_calls", "array")
      /\ typed("tool_call_id") <=> IfThere(json, "tool_call_id", "string")
  BY ThereType
<1> HIDE DEF typed, fields
<1>3. Shape(json, {"role", "content"}, fields)
        <=> /\ json.type = "object" /\ "role" \in DOMAIN json.of /\ "content" \in DOMAIN json.of
            /\ typed("role") /\ typed("content") /\ typed("name") /\ typed("tool_calls")
            /\ typed("tool_call_id")
  BY <1>1 DEF Shape
<1>4. WellFormedMessage(json)
        <=> /\ Shape(json, {"role", "content"}, fields)
            /\ json.of["role"].of \in {"system", "user", "assistant", "tool"}
            /\ json.of["content"].type = "array" => AllOf(json, "content", "object")
  BY DEF WellFormedMessage, fields
<1>5. MessageChecked(json)
        <=> /\ "content" \in DOMAIN json.of
            /\ \/ json.of["content"].type \in {"string", "null"}
               \/ json.of["content"].type = "array" /\ AllOf(json, "content", "object")
            /\ "role" \in DOMAIN json.of /\ json.of["role"].type = "string"
            /\ json.of["role"].of \in {"system", "user", "assistant", "tool"}
            /\ IfThere(json, "name", "string") /\ IfThere(json, "tool_calls", "array")
            /\ Items(json, "tool_calls") = <<>> /\ IfThere(json, "tool_call_id", "string")
  BY ThereType DEF MessageChecked
<1> QED BY <1>2, <1>3, <1>4, <1>5

LEMMA ToolShape ==
  ASSUME NEW json
  PROVE  json.type = "object" /\ ChatTool(json) = "ok" <=> WellFormedTool(json)
<1> DEFINE f == json.of["function"]
           fields == [name |-> {"string"}, parameters |-> {"object"}, description |-> {"string"}]
           typed(g) == g \in DOMAIN f.of => f.of[g].type \in fields[g]
<1>1. Shape(json, {"function"}, [function |-> {"object"}])
        <=> json.type = "object" /\ Has(json, "function", "object")
  BY DEF Shape, Has
<1> HIDE DEF f
<1>2. (\A g \in DOMAIN fields \cap DOMAIN f.of : f.of[g].type \in fields[g])
        <=> typed("name") /\ typed("parameters") /\ typed("description")
  BY DOMAIN fields = {"name", "parameters", "description"}
<1>3. /\ typed("name") <=> ("name" \in DOMAIN f.of => f.of["name"].type = "string")
      /\ typed("parameters") <=> ("parameters" \in DOMAIN f.of => f.of["parameters"].type = "object")
      /\ typed("description") <=> IfThere(f, "description", "string")
  BY ThereType
<1> HIDE DEF typed, fields
<1>4. Shape(f, {"name", "parameters"}, fields)
        <=> /\ f.type = "object" /\ "name" \in DOMAIN f.of /\ "parameters" \in DOMAIN f.of
            /\ typed("name") /\ typed("parameters") /\ typed("description")
  BY <1>2 DEF Shape
<1>5. FunctionChecked(f)
        <=> /\ IfThere(f, "description", "string")
            /\ "name" \in DOMAIN f.of /\ f.of["name"].type = "string"
            /\ "parameters" \in DOMAIN f.of /\ f.of["parameters"].type = "object"
  BY ThereType DEF FunctionChecked
<1>6. ChatTool(json) = "ok" <=> Has(json, "function", "object") /\ FunctionChecked(f)
  BY FunctionParsed DEF f
<1>7. Has(json, "function", "object") => f.type = "object"
  BY DEF Has, f
<1>8. WellFormedTool(json) <=> /\ Shape(json, {"function"}, [function |-> {"object"}])
                               /\ Shape(f, {"name", "parameters"}, fields)
  BY DEF WellFormedTool, f, fields
<1> QED BY <1>1, <1>3, <1>4, <1>5, <1>6, <1>7, <1>8

LEMMA RequestShape ==
  ASSUME NEW json, json.type = "object"
  PROVE  RequestChecked(json)
         <=> /\ WellFormedRequest(json)
             /\ \A i \in DOMAIN json.of.messages.of :
                  Items(json.of.messages.of[i], "tool_calls") = <<>>
<1> DEFINE fields == [messages |-> {"array"}, model |-> {"string"}, stop |-> {"array"},
                      tool_choice |-> {"string"}, tools |-> {"array"},
                      response_format |-> {"object"}, debug_config |-> {"object"}]
           typed(f) == f \in DOMAIN json.of => json.of[f].type \in fields[f]
           of == json.of.messages.of
           all == \A i \in DOMAIN of : of[i].type = "object" /\ MessageChecked(of[i])
           each == \A i \in DOMAIN json.of.tools.of :
                     json.of.tools.of[i].type = "object" /\ ChatTool(json.of.tools.of[i]) = "ok"
           plain == Shape(json, {"messages"}, fields)
           counted == Shape(json, {}, [f \in Numbers |-> {"number"}])
           written == \A i \in DOMAIN of : WellFormedMessage(of[i])
           uncalled == \A i \in DOMAIN of : Items(of[i], "tool_calls") = <<>>
           tooled == \A i \in DOMAIN Items(json, "tools") : WellFormedTool(json.of.tools.of[i])
<1>1. (\A f \in DOMAIN fields \cap DOMAIN json.of : json.of[f].type \in fields[f])
        <=> /\ typed("messages") /\ typed("model") /\ typed("stop") /\ typed("tool_choice")
            /\ typed("tools") /\ typed("response_format") /\ typed("debug_config")
  BY DOMAIN fields = {"messages", "model", "stop", "tool_choice", "tools", "response_format",
                      "debug_config"}
<1>2. /\ typed("messages") <=> IfThere(json, "messages", "array")
      /\ typed("model") <=> IfThere(json, "model", "string")
      /\ typed("stop") <=> IfThere(json, "stop", "array")
      /\ typed("tool_choice") <=> IfThere(json, "tool_choice", "string")
      /\ typed("tools") <=> IfThere(json, "tools", "array")
      /\ typed("response_format") <=> IfThere(json, "response_format", "object")
      /\ typed("debug_config") <=> IfThere(json, "debug_config", "object")
  BY ThereType
<1> HIDE DEF typed, fields
<1>3. plain <=> /\ Has(json, "messages", "array") /\ IfThere(json, "model", "string")
                /\ IfThere(json, "stop", "array") /\ IfThere(json, "tool_choice", "string")
                /\ IfThere(json, "tools", "array") /\ IfThere(json, "response_format", "object")
                /\ IfThere(json, "debug_config", "object")
  <2>1. plain <=> /\ "messages" \in DOMAIN json.of
                  /\ \A f \in DOMAIN fields \cap DOMAIN json.of : json.of[f].type \in fields[f]
    BY DEF Shape
  <2>2. Has(json, "messages", "array")
          <=> "messages" \in DOMAIN json.of /\ IfThere(json, "messages", "array")
    BY ThereType
  <2> HIDE DEF plain
  <2> QED BY <1>1, <1>2, <2>1, <2>2
<1>4. counted <=> \A f \in Numbers : IfThere(json, f, "number")
  BY ThereType DEF Shape
<1>5. all <=> written /\ uncalled
  <2>1. \A i \in DOMAIN of : of[i].type = "object" /\ MessageChecked(of[i])
                            <=> WellFormedMessage(of[i]) /\ Items(of[i], "tool_calls") = <<>>
    BY MessageShape
  <2> HIDE DEF of
  <2> QED BY <2>1
<1>6. IfThere(json, "tools", "array") => ((Has(json, "tools", "array") => each) <=> tooled)
  <2>1. CASE Absent(json, "tools")
    <3>1. ~Has(json, "tools", "array") /\ Items(json, "tools") = <<>>
      BY <2>1, Zenon DEF Absent, Has, Items
    <3>2. DOMAIN Items(json, "tools") = {}
      BY <3>1
    <3> QED BY <3>1, <3>2
  <2>2. CASE Has(json, "tools", "array")
    <3>1. "tools" \in DOMAIN json.of
      BY <2>2 DEF Has
    <3>2. Items(json, "tools") = json.of.tools.of
      BY <3>1, Zenon DEF Items, Absent
    <3>3. \A i \in DOMAIN json.of.tools.of :
            json.of.tools.of[i].type = "object" /\ ChatTool(json.of.tools.of[i]) = "ok"
              <=> WellFormedTool(json.of.tools.of[i])
      BY ToolShape
    <3> QED BY <2>2, <3>2, <3>3
  <2> QED BY <2>1, <2>2 DEF IfThere
<1>7. RequestChecked(json)
        <=> /\ Has(json, "messages", "array") /\ all
            /\ IfThere(json, "model", "string") /\ \A f \in Numbers : IfThere(json, f, "number")
            /\ IfThere(json, "stop", "array") /\ AllOf(json, "stop", "string")
            /\ IfThere(json, "tool_choice", "string") /\ IfThere(json, "tools", "array")
            /\ Has(json, "tools", "array") => each
            /\ IfThere(json, "response_format", "object")
            /\ IfThere(json, "debug_config", "object")
  BY DEF RequestChecked
<1>8. WellFormedRequest(json)
        <=> plain /\ counted /\ AllOf(json, "stop", "string") /\ written /\ tooled
  BY DEF WellFormedRequest, fields
<1> HIDE DEF all, each, plain, counted, written, tooled
<1> QED BY <1>3, <1>4, <1>5, <1>6, <1>7, <1>8

LEMMA TemplateShape ==
  ASSUME NEW json, json.type = "object"
  PROVE  TemplateChecked(json) <=> WellFormedTemplate(json)
<1> DEFINE required == {"system_template", "system_message", "add_role_after_system_message",
                        "roles", "messages", "seps", "role_content_sep", "role_empty_sep",
                        "stop_str", "stop_token_ids"}
           fields ==
             [name |-> {"string"}, system_template |-> {"string"}, system_message |-> {"string"},
              system_prefix_token_ids |-> {"array"}, add_role_after_system_message |-> {"bool"},
              roles |-> {"object"}, role_templates |-> {"object"}, messages |-> {"array"},
              seps |-> {"array"}, role_content_sep |-> {"string"}, role_empty_sep |-> {"string"},
              stop_str |-> {"array"}, stop_token_ids |-> {"array"},
              strip_reasoning_in_history |-> {"bool"}]
           typed(f) == f \in DOMAIN json.of => json.of[f].type \in fields[f]
           shape == Shape(json, required, fields)
           turns == \A i \in DOMAIN json.of.messages.of : WellFormedTurn(json.of.messages.of[i])
<1>1. (\A f \in DOMAIN fields \cap DOMAIN json.of : json.of[f].type \in fields[f])
        <=> /\ typed("name") /\ typed("system_template") /\ typed("system_message")
            /\ typed("system_prefix_token_ids") /\ typed("add_role_after_system_message")
            /\ typed("roles") /\ typed("role_templates") /\ typed("messages") /\ typed("seps")
            /\ typed("role_content_sep") /\ typed("role_empty_sep") /\ typed("stop_str")
            /\ typed("stop_token_ids") /\ typed("strip_reasoning_in_history")
  BY DOMAIN fields = {"name", "system_template", "system_message", "system_prefix_token_ids",
                      "add_role_after_system_message", "roles", "role_templates", "messages",
                      "seps", "role_content_sep", "role_empty_sep", "stop_str", "stop_token_ids",
                      "strip_reasoning_in_history"}
<1>2. /\ typed("name") <=> IfThere(json, "name", "string")
      /\ typed("system_template") <=> IfThere(json, "system_template", "string")
      /\ typed("system_message") <=> IfThere(json, "system_message", "string")
      /\ typed("system_prefix_token_ids") <=> IfThere(json, "system_prefix_token_ids", "array")
      /\ typed("add_role_after_system_message")
           <=> IfThere(json, "add_role_after_system_message", "bool")
      /\ typed("roles") <=> IfThere(json, "roles", "object")
      /\ typed("role_templates") <=> IfThere(json, "role_templates", "object")
      /\ typed("messages") <=> IfThere(json, "messages", "array")
      /\ typed("seps") <=> IfThere(json, "seps", "array")
      /\ typed("role_content_sep") <=> IfThere(json, "role_content_sep", "string")
      /\ typed("role_empty_sep") <=> IfThere(json, "role_empty_sep", "string")
      /\ typed("stop_str") <=> IfThere(json, "stop_str", "array")
      /\ typed("stop_token_ids") <=> IfThere(json, "stop_token_ids", "array")
      /\ typed("strip_reasoning_in_history") <=> IfThere(json, "strip_reasoning_in_history", "bool")
  BY ThereType
<1>3. \A f, type : Has(json, f, type) <=> f \in DOMAIN json.of /\ IfThere(json, f, type)
  BY ThereType
<1> HIDE DEF typed, fields
<1>4. shape
        <=> /\ IfThere(json, "name", "string") /\ Has(json, "system_template", "string")
            /\ Has(json, "system_message", "string")
            /\ IfThere(json, "system_prefix_token_ids", "array")
            /\ Has(json, "add_role_after_system_message", "bool") /\ Has(json, "roles", "object")
            /\ IfThere(json, "role_templates", "object") /\ Has(json, "messages", "array")
            /\ Has(json, "seps", "array") /\ Has(json, "role_content_sep", "string")
            /\ Has(json, "role_empty_sep", "string") /\ Has(json, "stop_str", "array")
            /\ Has(json, "stop_token_ids", "array")
            /\ IfThere(json, "strip_reasoning_in_history", "bool")
  <2>1. shape <=> /\ required \subseteq DOMAIN json.of
                  /\ \A f \in DOMAIN fields \cap DOMAIN json.of : json.of[f].type \in fields[f]
    BY DEF Shape
  <2>2. required \subseteq DOMAIN json.of
          <=> /\ "system_template" \in DOMAIN json.of /\ "system_message" \in DOMAIN json.of
              /\ "add_role_after_system_message" \in DOMAIN json.of
              /\ "roles" \in DOMAIN json.of /\ "messages" \in DOMAIN json.of
              /\ "seps" \in DOMAIN json.of /\ "role_content_sep" \in DOMAIN json.of
              /\ "role_empty_sep" \in DOMAIN json.of /\ "stop_str" \in DOMAIN json.of
              /\ "stop_token_ids" \in DOMAIN json.of
    OBVIOUS
  <2> HIDE DEF shape, required
  <2> QED BY <1>1, <1>2, <1>3, <2>1, <2>2
<1>5. TemplateMessages(json) = "ok" <=> Has(json, "messages", "array") /\ turns
  BY TurnsParsed
<1>6. (\A f \in TextFields : Has(json, f, "string"))
        <=> /\ Has(json, "system_template", "string") /\ Has(json, "system_message", "string")
            /\ Has(json, "role_content_sep", "string") /\ Has(json, "role_empty_sep", "string")
  BY DEF TextFields
<1>7. WellFormedTemplate(json)
        <=> /\ shape /\ turns
            /\ AllOf(json, "roles", "string") /\ AllOf(json, "role_templates", "string")
            /\ AllOf(json, "seps", "string") /\ AllOf(json, "stop_str", "string")
            /\ AllOf(json, "system_prefix_token_ids", "number")
            /\ AllOf(json, "stop_token_ids", "number")
  BY DEF WellFormedTemplate, fields
<1> HIDE DEF shape, turns
<1> QED BY <1>4, <1>5, <1>6, <1>7 DEF TemplateChecked

-----------------------------------------------------------------------------
(* What the echo engine plans to send.                                     *)

IsStream(s, W) == IsSequence(s) /\ \A i \in 1..Len(s) : s[i].ids \in Seq(W)
EchoOf(s)      == FlattenSeq([i \in DOMAIN s |-> s[i].ids])

(* One more output adds its tokens.                                        *)
LEMMA EchoAppend ==
  ASSUME NEW W, NEW s, IsStream(s, W), NEW o, o.ids \in Seq(W)
  PROVE  /\ IsStream(Append(s, o), W) /\ EchoOf(s) \in Seq(W)
         /\ EchoOf(Append(s, o)) = EchoOf(s) \o o.ids
<1> DEFINE t == Append(s, o)
           n == Len(s)
           a == [i \in DOMAIN s |-> s[i].ids]
           b == [i \in DOMAIN t |-> t[i].ids]
<1>1. n \in Nat /\ DOMAIN s = 1..n /\ s \in Seq(ToSet(s))
  BY SequenceSet DEF IsStream, IsSequence
<1>2. /\ t \in Seq(ToSet(s) \cup {o}) /\ Len(t) = n + 1 /\ DOMAIN t = 1..(n + 1)
      /\ t[n + 1] = o /\ \A i \in 1..n : t[i] = s[i]
  BY <1>1
<1> HIDE DEF t, n
<1>3. a \in Seq(Seq(W)) /\ Len(a) = n
  <2>1. \A i \in 1..n : s[i].ids \in Seq(W)
    BY DEF IsStream, n
  <2> QED BY <1>1, <2>1
<1>4. b = Append(a, o.ids)
  <2>1. \A i \in 1..n : s[i].ids \in Seq(W)
    BY DEF IsStream, n
  <2>2. \A i \in 1..(n + 1) : i \in 1..n \/ i = n + 1
    BY <1>1
  <2>3. /\ b \in Seq(Seq(W)) /\ Len(b) = n + 1 /\ \A i \in 1..n : b[i] = s[i].ids
        /\ b[n + 1] = o.ids
    BY <1>1, <1>2, <2>1, <2>2
  <2>4. /\ Append(a, o.ids) \in Seq(Seq(W)) /\ Len(Append(a, o.ids)) = n + 1
        /\ \A i \in 1..n : Append(a, o.ids)[i] = s[i].ids
        /\ Append(a, o.ids)[n + 1] = o.ids
    <3>1. \A i \in 1..n : a[i] = s[i].ids
      BY <1>1
    <3> HIDE DEF a
    <3> QED BY <1>1, <1>3, <3>1
  <2> HIDE DEF a, b
  <2>5. \A i \in 1..Len(b) : b[i] = Append(a, o.ids)[i]
    BY <2>2, <2>3, <2>4
  <2> QED BY <2>3, <2>4, <2>5, SeqEqual
<1>5. /\ FlattenSeq(a) \in Seq(W) /\ FlattenSeq(Append(a, o.ids)) = FlattenSeq(a) \o o.ids
  BY <1>3, FlattenAppend
<1> HIDE DEF a, b
<1>6. EchoOf(s) = FlattenSeq(a) /\ EchoOf(t) = FlattenSeq(b)
  BY DEF EchoOf, a, b
<1>7. IsStream(t, W)
  <2>1. IsSequence(t)
    BY <1>2, SequenceOf
  <2>2. \A i \in 1..(n + 1) : t[i].ids \in Seq(W)
    <3>1. \A i \in 1..(n + 1) : i \in 1..n \/ i = n + 1
      BY <1>1
    <3> QED BY <1>2, <3>1 DEF IsStream, n
  <2> QED BY <1>2, <2>1, <2>2 DEF IsStream
<1> QED BY <1>4, <1>5, <1>6, <1>7 DEF t

LEMMA EchoEmpty ==
  ASSUME NEW W
  PROVE  EchoOf(<<>>) = <<>> /\ IsStream(<<>>, W)
<1>1. [i \in DOMAIN <<>> |-> <<>>[i].ids] = <<>>
  OBVIOUS
<1>2. FlattenSeq(<<>>) = <<>>
  BY DEF FlattenSeq
<1>3. IsStream(<<>>, W)
  BY DEF IsStream, IsSequence
<1> QED BY <1>1, <1>2, <1>3 DEF EchoOf

(* A plan for the tokens T of which N are sent: one by one, the last with  *)
(* the finish reason, then the usage.                                      *)
Reached(T, m) == m # -1 /\ Len(T) > m
IsPlan(P, T, m, N) ==
  /\ N \in 0..Len(T) /\ N = (IF Reached(T, m) THEN m ELSE Len(T))
  /\ IsSequence(P) /\ Len(P) = (IF N = 0 THEN 2 ELSE N + 1)
  /\ \A i \in 1..(Len(P) - 2) : P[i] = Delta(<<T[i]>>, "none")
  /\ P[Len(P) - 1] = Delta(IF N = 0 THEN <<>> ELSE <<T[N]>>,
                           IF Reached(T, m) THEN "length" ELSE "stop")
  /\ \E a, b : P[Len(P)] = Usage(a, b)

LEMMA OutputsPlanned ==
  ASSUME NEW W, NEW inputs, EchoedTokens(inputs) \in Seq(W), NEW m \in Int, m >= -1, NEW n
  PROVE  LET T == EchoedTokens(inputs) IN
         IsPlan(Outputs(inputs, m, n), T, m, IF Reached(T, m) THEN m ELSE Len(T))
<1> DEFINE T == EchoedTokens(inputs)
           N == IF Reached(T, m) THEN m ELSE Len(T)
           S == Sent(T, m)
           P == Outputs(inputs, m, n)
           deltas == [i \in DOMAIN S |-> Delta(<<T[i]>>, "none")]
           last == IF deltas = <<>> THEN <<>> ELSE Last(deltas).ids
           reason == IF Reached(T, m) THEN "length" ELSE "stop"
           D == ToSet(deltas)
           first == UpTo(deltas, Len(deltas) - 1)
           x == Delta(last, reason)
           y == Usage(Len(T), Len(T) * n)
<1>1. T \in Seq(W) /\ Len(T) \in Nat
  OBVIOUS
<1>2. P = first \o <<Delta(last, FinishReason(T, m)), y>>
  BY DEF Outputs
<1>3. FinishReason(T, m) = reason
  BY DEF FinishReason, Reached
<1> HIDE DEF T, P
<1>4. N \in 0..Len(T)
  BY <1>1 DEF Reached
<1>5. S \in Seq(W) /\ Len(S) = N
  <2>1. CASE m = -1
    <3>1. S = T /\ N = Len(T)
      BY <2>1 DEF Sent, Reached
    <3> QED BY <1>1, <3>1
  <2>2. CASE m # -1
    <3> DEFINE k == Min({m, Len(T)})
    <3>1. k = N
      <4>1. {m, Len(T)} \subseteq Nat
        BY <1>1, <2>2
      <4>2. k \in {m, Len(T)} /\ \A j \in {m, Len(T)} : k <= j
        BY <4>1, MinOf
      <4> QED BY <1>1, <2>2, <4>2 DEF Reached
    <3>2. S = SubSeq(T, 1, N)
      BY <2>2, <3>1 DEF Sent
    <3> QED BY <1>1, <1>4, <3>2
  <2> QED BY <2>1, <2>2
<1> HIDE DEF S, N
<1>6. /\ deltas = [i \in 1..N |-> Delta(<<T[i]>>, "none")] /\ N \in Nat /\ Len(deltas) = N
      /\ deltas \in Seq(D)
  <2>1. DOMAIN S = 1..N /\ N \in Nat
    BY <1>1, <1>4, <1>5
  <2>2. IsSequence(deltas) /\ Len(deltas) = N
    BY <2>1 DEF IsSequence
  <2> HIDE DEF deltas
  <2>3. deltas \in Seq(D)
    BY <2>2, SequenceSet
  <2> QED BY <2>1, <2>2, <2>3 DEF deltas
<1> HIDE DEF deltas, D
<1>7. /\ first \in Seq(D) /\ Len(first) = (IF N = 0 THEN 0 ELSE N - 1)
      /\ \A i \in 1..Len(first) : first[i] = deltas[i]
  BY <1>6 DEF UpTo
<1>8. last = IF N = 0 THEN <<>> ELSE <<T[N]>>
  <2>1. CASE N = 0
    <3>1. deltas = <<>>
      BY <1>6, <2>1
    <3> QED BY <2>1, <3>1
  <2>2. CASE N # 0
    <3>1. deltas # <<>>
      BY <1>6, <2>2
    <3>2. last = deltas[N].ids
      BY <1>6, <3>1 DEF Last
    <3>3. N \in 1..N
      BY <1>6, <2>2
    <3> QED BY <1>6, <2>2, <3>2, <3>3 DEF Delta
  <2> QED BY <2>1, <2>2
<1> HIDE DEF first, last
<1>9. /\ P \in Seq(D \cup {x, y}) /\ Len(P) = Len(first) + 2
      /\ P[Len(P) - 1] = x /\ P[Len(P)] = y /\ \A i \in 1..Len(first) : P[i] = first[i]
  <2> DEFINE E == D \cup {x, y}
  <2>1. first \in Seq(E) /\ <<x, y>> \in Seq(E) /\ P = first \o <<x, y>>
    BY <1>2, <1>3, <1>7
  <2> HIDE DEF x, y, reason
  <2>2. Len(<<x, y>>) = 2 /\ <<x, y>>[1] = x /\ <<x, y>>[2] = y /\ Len(first) \in Nat
    BY <1>7
  <2>3. /\ P \in Seq(E) /\ Len(P) = Len(first) + 2
        /\ P[Len(first) + 1] = <<x, y>>[1] /\ P[Len(first) + 2] = <<x, y>>[2]
        /\ \A i \in 1..Len(first) : P[i] = first[i]
    <3> DEFINE z == <<x, y>>
    <3>1. z \in Seq(E) /\ Len(z) = 2 /\ P = first \o z
      BY <2>1, <2>2
    <3> HIDE DEF z, E
    <3>2. /\ P \in Seq(E) /\ Len(P) = Len(first) + 2
          /\ P[Len(first) + 1] = z[1] /\ P[Len(first) + 2] = z[2]
          /\ \A i \in 1..Len(first) : P[i] = first[i]
      BY <2>1, <2>2, <3>1
    <3> QED BY <3>2 DEF z
  <2>4. Len(P) - 1 = Len(first) + 1
    BY <2>2, <2>3
  <2> QED BY <2>2, <2>3, <2>4
<1>10. IsSequence(P)
  BY <1>9, SequenceOf
<1>11. Len(P) = (IF N = 0 THEN 2 ELSE N + 1) /\ Len(P) - 2 = Len(first)
  BY <1>6, <1>7, <1>9
<1>12. \A i \in 1..(Len(P) - 2) : P[i] = Delta(<<T[i]>>, "none")
  <2>1. \A i \in 1..Len(first) : i \in 1..N
    BY <1>6, <1>7
  <2> QED BY <1>6, <1>7, <1>9, <1>11, <2>1
<1>13. IsPlan(P, T, m, N)
  <2>1. N = IF Reached(T, m) THEN m ELSE Len(T)
    BY DEF N
  <2>2. \E a, b : P[Len(P)] = Usage(a, b)
    BY <1>9
  <2>3. P[Len(P) - 1] = Delta(IF N = 0 THEN <<>> ELSE <<T[N]>>, reason)
    BY <1>8, <1>9
  <2> QED BY <1>4, <1>10, <1>11, <1>12, <2>1, <2>2, <2>3 DEF IsPlan
<1> QED BY <1>13 DEF P, T, N

(* The beginning of a plan, all of it, and a beginning that is aborted.    *)
Aborted(s) == s \o <<Delta(<<>>, "abort"), Usage(0, 0)>>

LEMMA PlanBeginning ==
  ASSUME NEW W, NEW T \in Seq(W), NEW m, NEW N, NEW P, IsPlan(P, T, m, N)
  PROVE  /\ Len(P) \in Nat /\ Len(P) >= 2 /\ Len(P) - 2 <= N /\ P \in Seq(ToSet(P))
         /\ \A k \in 0..(Len(P) - 2) :
              IsStream(UpTo(P, k), W) /\ EchoOf(UpTo(P, k)) = SubSeq(T, 1, k)
<1> DEFINE Good(k) == IsStream(UpTo(P, k), W) /\ EchoOf(UpTo(P, k)) = SubSeq(T, 1, k)
           B == {k \in 0..(Len(P) - 2) : ~Good(k)}
<1>1. Len(P) \in Nat /\ Len(P) >= 2 /\ Len(P) - 2 <= N /\ N \in 0..Len(T) /\ Len(T) \in Nat
      /\ P \in Seq(ToSet(P)) /\ \A i \in 1..(Len(P) - 2) : P[i] = Delta(<<T[i]>>, "none")
  BY SequenceSet DEF IsPlan, IsSequence
<1>2. Good(0)
  <2>1. UpTo(P, 0) = <<>> /\ SubSeq(T, 1, 0) = <<>>
    BY <1>1 DEF UpTo
  <2> QED BY <2>1, EchoEmpty
<1>3. ASSUME NEW k \in 1..(Len(P) - 2), Good(k - 1) PROVE Good(k)
  <2>1. k \in 1..Len(P) /\ k \in 1..Len(T) /\ T[k] \in W
    BY <1>1
  <2>2. UpTo(P, k) = Append(UpTo(P, k - 1), P[k])
    BY <1>1, <2>1 DEF UpTo
  <2>3. P[k] = Delta(<<T[k]>>, "none") /\ <<T[k]>> \in Seq(W)
    BY <1>1, <2>1
  <2>4. P[k].ids = <<T[k]>>
    BY <2>3 DEF Delta
  <2>5. P[k].ids \in Seq(W)
    BY <2>3, <2>4
  <2>6. IsStream(UpTo(P, k - 1), W)
    BY <1>3
  <2> DEFINE s == UpTo(P, k - 1)
             o == P[k]
  <2> HIDE DEF s, o
  <2>7. IsStream(s, W) /\ o.ids \in Seq(W)
    BY <2>5, <2>6 DEF s, o
  <2>8. /\ IsStream(Append(s, o), W) /\ EchoOf(Append(s, o)) = EchoOf(s) \o o.ids
    BY <2>7, EchoAppend
  <2>9. EchoOf(s) = SubSeq(T, 1, k - 1)
    BY <1>3 DEF s
  <2>10. SubSeq(T, 1, k - 1) \o <<T[k]>> = SubSeq(T, 1, k)
    BY <1>1, <2>1
  <2>11. EchoOf(Append(s, o)) = SubSeq(T, 1, k)
    BY <2>4, <2>8, <2>9, <2>10 DEF o
  <2> QED BY <2>2, <2>8, <2>11 DEF s, o
<1> HIDE DEF Good
<1>4. B = {}
  <2> SUFFICES ASSUME B # {} PROVE FALSE
    OBVIOUS
  <2>1. PICK k \in B : \A j \in B : k <= j
    <3>1. B \subseteq Nat
      OBVIOUS
    <3> QED BY <3>1, LeastNatural
  <2>2. k \in 1..(Len(P) - 2) /\ k - 1 \in 0..(Len(P) - 2) /\ ~(k <= k - 1)
    <3>1. k # 0
      BY <1>2, <2>1
    <3> QED BY <1>1, <3>1
  <2>3. Good(k - 1)
    BY <2>1, <2>2
  <2> QED BY <1>3, <2>1, <2>2, <2>3
<1> QED BY <1>1, <1>4 DEF Good

LEMMA PlanWhole ==
  ASSUME NEW W, NEW T \in Seq(W), NEW m, NEW N, NEW P, IsPlan(P, T, m, N)
  PROVE  EchoOf(P) = SubSeq(T, 1, N)
<1> DEFINE n == Len(P) - 2
           s == UpTo(P, n)
           a == P[Len(P) - 1]
           b == P[Len(P)]
<1>1. /\ Len(P) \in Nat /\ Len(P) >= 2 /\ P \in Seq(ToSet(P))
      /\ IsStream(s, W) /\ EchoOf(s) = SubSeq(T, 1, n)
  BY PlanBeginning
<1>2. N \in 0..Len(T) /\ Len(T) \in Nat /\ n = (IF N = 0 THEN 0 ELSE N - 1)
  BY DEF IsPlan
<1>3. a.ids = (IF N = 0 THEN <<>> ELSE <<T[N]>>) /\ a.ids \in Seq(W)
  <2>1. N # 0 => <<T[N]>> \in Seq(W)
    BY <1>2
  <2>2. a.ids = (IF N = 0 THEN <<>> ELSE <<T[N]>>)
    BY DEF IsPlan, Delta
  <2> QED BY <2>1, <2>2
<1>4. b.ids = <<>> /\ b.ids \in Seq(W)
  BY DEF IsPlan, Usage
<1>5. P = Append(Append(s, a), b)
  BY <1>1 DEF UpTo
<1> HIDE DEF s, a, b, n
<1>6. IsStream(Append(s, a), W) /\ EchoOf(Append(s, a)) = EchoOf(s) \o a.ids
  BY <1>1, <1>3, EchoAppend
<1> DEFINE t == Append(s, a)
<1> HIDE DEF t
<1>7. IsStream(t, W) /\ EchoOf(t) = EchoOf(s) \o a.ids
  BY <1>6 DEF t
<1>8. EchoOf(Append(t, b)) = EchoOf(t) \o b.ids
  BY <1>4, <1>7, EchoAppend
<1>9. EchoOf(P) = (SubSeq(T, 1, n) \o a.ids) \o <<>>
  BY <1>1, <1>4, <1>5, <1>7, <1>8 DEF t
<1>10. (SubSeq(T, 1, n) \o a.ids) \o <<>> = SubSeq(T, 1, N)
  <2>1. CASE N = 0
    <3>1. n = 0 /\ a.ids = <<>> /\ SubSeq(T, 1, 0) = <<>>
      BY <1>2, <1>3, <2>1
    <3> QED BY <2>1, <3>1
  <2>2. CASE N # 0
    <3>1. n = N - 1 /\ a.ids = <<T[N]>> /\ N \in 1..Len(T)
      BY <1>2, <1>3, <2>2
    <3>2. SubSeq(T, 1, N - 1) \o <<T[N]>> = SubSeq(T, 1, N) /\ SubSeq(T, 1, N) \in Seq(W)
      BY <1>2, <3>1
    <3>3. SubSeq(T, 1, N) \o <<>> = SubSeq(T, 1, N)
      BY <3>2
    <3> QED BY <3>1, <3>2, <3>3
  <2> QED BY <2>1, <2>2
<1> QED BY <1>9, <1>10

IsAborted(t, P, T, k) ==
  /\ EchoOf(t) = SubSeq(T, 1, k) /\ Len(t) = k + 2 /\ DOMAIN t = 1..(k + 2)
  /\ \A i \in 1..k : t[i] = P[i]
  /\ t[k + 1] = Delta(<<>>, "abort") /\ t[k + 2] = Usage(0, 0)

LEMMA PlanAborted ==
  ASSUME NEW W, NEW T \in Seq(W), NEW m, NEW N, NEW P, IsPlan(P, T, m, N),
         NEW k \in 0..(Len(P) - 2)
  PROVE  IsAborted(Aborted(UpTo(P, k)), P, T, k)
<1> DEFINE s == UpTo(P, k)
           a == Delta(<<>>, "abort")
           b == Usage(0, 0)
           t == Append(s, a)
           S == ToSet(P) \cup {a, b}
<1>1. /\ Len(P) \in Nat /\ Len(P) >= 2 /\ P \in Seq(ToSet(P))
      /\ IsStream(s, W) /\ EchoOf(s) = SubSeq(T, 1, k)
  BY PlanBeginning
<1>2. a.ids = <<>> /\ b.ids = <<>> /\ a.ids \in Seq(W) /\ b.ids \in Seq(W)
  BY DEF Delta, Usage
<1>3. s \in Seq(S) /\ Len(s) = k /\ \A i \in 1..k : s[i] = P[i]
  <2>1. P \in Seq(S)
    BY <1>1
  <2> HIDE DEF S
  <2> QED BY <1>1, <2>1 DEF UpTo
<1>4. a \in S /\ b \in S
  OBVIOUS
<1>5. k \in Nat
  BY <1>1
<1> HIDE DEF s, a, b, S
<1>6. Aborted(s) = Append(t, b)
  <2>1. s \o <<a, b>> = Append(Append(s, a), b)
    BY <1>3, <1>4
  <2> QED BY <2>1 DEF Aborted, a, b
<1>7. /\ Append(t, b) \in Seq(S) /\ Len(Append(t, b)) = k + 2
      /\ \A i \in 1..k : Append(t, b)[i] = P[i]
      /\ Append(t, b)[k + 1] = a /\ Append(t, b)[k + 2] = b
  BY <1>3, <1>4, <1>5
<1>8. IsStream(t, W) /\ EchoOf(t) = EchoOf(s) \o a.ids
  BY <1>1, <1>2, EchoAppend
<1> HIDE DEF t
<1>9. EchoOf(Append(t, b)) = EchoOf(t) \o b.ids
  BY <1>2, <1>8, EchoAppend
<1>10. EchoOf(Append(t, b)) = SubSeq(T, 1, k)
  <2>1. SubSeq(T, 1, k) \in Seq(W)
    <3>1. k <= Len(T) /\ Len(T) \in Nat
      BY <1>5, PlanBeginning DEF IsPlan
    <3> QED BY <1>5, <3>1
  <2>2. SubSeq(T, 1, k) \o <<>> = SubSeq(T, 1, k)
    BY <2>1
  <2> QED BY <1>1, <1>2, <1>8, <1>9, <2>2
<1> DEFINE z == Aborted(s)
<1> HIDE DEF z
<1>11. /\ EchoOf(z) = SubSeq(T, 1, k) /\ Len(z) = k + 2 /\ DOMAIN z = 1..(k + 2)
       /\ \A i \in 1..k : z[i] = P[i]
       /\ z[k + 1] = a /\ z[k + 2] = b
  BY <1>3, <1>5, <1>6, <1>7, <1>10 DEF z
<1> QED BY <1>11 DEF z, s, a, b, IsAborted

-----------------------------------------------------------------------------
(* What a client must have got from a plan: EchoExact, of one stream.      *)
Given(stream) == {i \in DOMAIN stream : stream[i].finish_reason # "none"}
ExactStream(stream, live, T, m) ==
  /\ IsPrefix(EchoOf(stream), T)
  /\ Given(stream) = IF live THEN {} ELSE {Len(stream) - 1}
  /\ \A i \in DOMAIN stream : (stream[i].usage # <<>>) = (i - 1 \in Given(stream))
  /\ \A i \in Given(stream) :
       CASE stream[i].finish_reason = "stop"   -> EchoOf(stream) = T
         [] stream[i].finish_reason = "length" -> EchoOf(stream) # T /\ Len(EchoOf(stream)) = m
         [] OTHER -> stream[i].finish_reason = "abort"

LEMMA PrefixOf ==
  ASSUME NEW W, NEW T \in Seq(W), NEW k \in 0..Len(T)
  PROVE  /\ IsPrefix(SubSeq(T, 1, k), T) /\ Len(SubSeq(T, 1, k)) = k
         /\ (SubSeq(T, 1, k) = T) = (k = Len(T))
<1>1. Len(T) \in Nat /\ k \in Nat /\ k <= Len(T)
  OBVIOUS
<1>2. SubSeq(T, 1, k) \in Seq(W) /\ Len(SubSeq(T, 1, k)) = k
  BY <1>1
<1>3. SubSeq(SubSeq(T, 1, k), 1, k) = SubSeq(T, 1, k)
  BY <1>1
<1>4. SubSeq(T, 1, Len(T)) = T
  OBVIOUS
<1>5. IsPrefix(SubSeq(T, 1, k), T)
  BY <1>1, <1>2, <1>3 DEF IsPrefix
<1> QED BY <1>2, <1>4, <1>5

(* The beginning of a plan is sent to a live request.                      *)
LEMMA LiveExact ==
  ASSUME NEW W, NEW T \in Seq(W), NEW m, NEW N, NEW P, IsPlan(P, T, m, N),
         NEW k \in 0..(Len(P) - 2)
  PROVE  ExactStream(UpTo(P, k), TRUE, T, m)
<1> DEFINE s == UpTo(P, k)
<1>1. /\ Len(P) \in Nat /\ Len(P) - 2 <= N /\ N \in 0..Len(T) /\ P \in Seq(ToSet(P))
      /\ EchoOf(s) = SubSeq(T, 1, k)
  <2>1. /\ Len(P) \in Nat /\ Len(P) - 2 <= N /\ P \in Seq(ToSet(P))
        /\ EchoOf(s) = SubSeq(T, 1, k)
    BY PlanBeginning
  <2> QED BY <2>1 DEF IsPlan
<1>2. DOMAIN s = 1..k /\ Len(s) = k /\ \A i \in 1..k : s[i] = P[i]
  BY <1>1 DEF UpTo
<1> HIDE DEF s
<1>3. \A i \in 1..k : s[i] = Delta(<<T[i]>>, "none")
  <2>1. \A i \in 1..k : i \in 1..(Len(P) - 2)
    BY <1>1
  <2> QED BY <1>2, <2>1 DEF IsPlan
<1>4. ASSUME NEW i \in 1..k PROVE s[i].finish_reason = "none" /\ s[i].usage = <<>>
  <2>1. s[i] = Delta(<<T[i]>>, "none")
    BY <1>3
  <2> QED BY <2>1 DEF Delta
<1>5. Given(s) = {}
  BY <1>2, <1>4 DEF Given
<1>6. k \in 0..Len(T)
  BY <1>1
<1> QED BY <1>1, <1>2, <1>4, <1>5, <1>6, PrefixOf DEF ExactStream, s

(* All of a plan is sent to a request that ended.                          *)
LEMMA EndedExact ==
  ASSUME NEW W, NEW T \in Seq(W), NEW m, NEW N, NEW P, IsPlan(P, T, m, N)
  PROVE  ExactStream(P, FALSE, T, m)
<1> DEFINE n == Len(P)
<1>1. /\ n \in Nat /\ n >= 2 /\ n - 2 <= N /\ N \in 0..Len(T) /\ DOMAIN P = 1..n
      /\ EchoOf(P) = SubSeq(T, 1, N)
  <2>1. Len(P) \in Nat /\ Len(P) >= 2 /\ Len(P) - 2 <= N
    BY PlanBeginning
  <2>2. EchoOf(P) = SubSeq(T, 1, N)
    BY PlanWhole
  <2> QED BY <2>1, <2>2 DEF IsPlan, IsSequence
<1>2. /\ \A i \in 1..(n - 2) : P[i].finish_reason = "none" /\ P[i].usage = <<>>
      /\ P[n - 1].finish_reason = (IF Reached(T, m) THEN "length" ELSE "stop")
      /\ P[n - 1].usage = <<>> /\ P[n].finish_reason = "none" /\ P[n].usage # <<>>
  <2>1. ASSUME NEW i \in 1..(n - 2) PROVE P[i].finish_reason = "none" /\ P[i].usage = <<>>
    <3>1. P[i] = Delta(<<T[i]>>, "none")
      BY DEF IsPlan
    <3> QED BY <3>1 DEF Delta
  <2>2. /\ P[n - 1].finish_reason = (IF Reached(T, m) THEN "length" ELSE "stop")
        /\ P[n - 1].usage = <<>>
    BY DEF IsPlan, Delta
  <2>3. PICK a, b : P[n] = Usage(a, b)
    BY DEF IsPlan
  <2>4. P[n].finish_reason = "none" /\ P[n].usage # <<>>
    BY <2>3 DEF Usage
  <2> QED BY <2>1, <2>2, <2>4
<1> HIDE DEF n
<1>3. \A i \in 1..n : i \in 1..(n - 2) \/ i = n - 1 \/ i = n
  BY <1>1
<1>4. Given(P) = {n - 1}
  <2>1. n - 1 \in 1..n
    BY <1>1
  <2> QED BY <1>1, <1>2, <1>3, <2>1 DEF Given
<1>5. \A i \in 1..n : (P[i].usage # <<>>) = (i - 1 \in Given(P))
  <2>1. \A i \in 1..n : (i - 1 = n - 1) = (i = n)
    BY <1>1
  <2>2. ASSUME NEW i \in 1..n PROVE (P[i].usage # <<>>) = (i = n)
    <3>1. CASE i = n
      BY <1>2, <3>1
    <3>2. CASE i # n
      <4>1. P[i].usage = <<>>
        BY <1>2, <1>3, <3>2
      <4> QED BY <3>2, <4>1
    <3> QED BY <3>1, <3>2
  <2> QED BY <1>4, <2>1, <2>2
<1>6. IsPrefix(EchoOf(P), T) /\ Len(EchoOf(P)) = N /\ (EchoOf(P) = T) = (N = Len(T))
  BY <1>1, PrefixOf
<1>7. CASE Reached(T, m)
  <2>1. N = m /\ N # Len(T)
    BY <1>1, <1>7 DEF IsPlan, Reached
  <2>2. EchoOf(P) # T /\ Len(EchoOf(P)) = m /\ P[n - 1].finish_reason = "length"
    BY <1>2, <1>6, <1>7, <2>1
  <2> QED BY <1>1, <1>4, <1>5, <1>6, <2>2 DEF ExactStream, n
<1>8. CASE ~Reached(T, m)
  <2>1. N = Len(T)
    BY <1>8 DEF IsPlan
  <2>2. EchoOf(P) = T /\ P[n - 1].finish_reason = "stop"
    BY <1>2, <1>6, <1>8, <2>1
  <2> QED BY <1>1, <1>4, <1>5, <1>6, <2>2 DEF ExactStream, n
<1> QED BY <1>7, <1>8

(* The beginning of a plan, an abort and a usage to one that was aborted.  *)
LEMMA AbortedExact ==
  ASSUME NEW W, NEW T \in Seq(W), NEW m, NEW N, NEW P, IsPlan(P, T, m, N),
         NEW k \in 0..(Len(P) - 2)
  PROVE  ExactStream(Aborted(UpTo(P, k)), FALSE, T, m)
<1> DEFINE t == Aborted(UpTo(P, k))
<1>1. Len(P) \in Nat /\ Len(P) >= 2 /\ Len(P) - 2 <= N /\ N \in 0..Len(T) /\ k \in Nat
  <2>1. Len(P) \in Nat /\ Len(P) >= 2 /\ Len(P) - 2 <= N
    BY PlanBeginning
  <2> QED BY <2>1 DEF IsPlan
<1>2. /\ EchoOf(t) = SubSeq(T, 1, k) /\ Len(t) = k + 2 /\ DOMAIN t = 1..(k + 2)
      /\ \A i \in 1..k : t[i] = P[i]
      /\ t[k + 1] = Delta(<<>>, "abort") /\ t[k + 2] = Usage(0, 0)
  BY PlanAborted DEF IsAborted
<1> HIDE DEF t
<1>3. ASSUME NEW i \in 1..k PROVE t[i].finish_reason = "none" /\ t[i].usage = <<>>
  <2>1. i \in 1..(Len(P) - 2)
    BY <1>1
  <2>2. t[i] = Delta(<<T[i]>>, "none")
    BY <1>2, <2>1 DEF IsPlan
  <2> QED BY <2>2 DEF Delta
<1>4. /\ t[k + 1].finish_reason = "abort" /\ t[k + 1].usage = <<>>
      /\ t[k + 2].finish_reason = "none" /\ t[k + 2].usage # <<>>
  BY <1>2 DEF Delta, Usage
<1>5. \A i \in 1..(k + 2) : i \in 1..k \/ i = k + 1 \/ i = k + 2
  BY <1>1
<1>6. Given(t) = {k + 1}
  <2>1. k + 1 \in 1..(k + 2)
    BY <1>1
  <2> QED BY <1>2, <1>3, <1>4, <1>5, <2>1 DEF Given
<1>7. \A i \in 1..(k + 2) : (t[i].usage # <<>>) = (i - 1 \in Given(t))
  <2>1. \A i \in 1..(k + 2) : (i - 1 = k + 1) = (i = k + 2)
    BY <1>1
  <2>2. ASSUME NEW i \in 1..(k + 2) PROVE (t[i].usage # <<>>) = (i = k + 2)
    <3>1. CASE i = k + 2
      BY <1>4, <3>1
    <3>2. CASE i # k + 2
      <4>1. t[i].usage = <<>>
        BY <1>3, <1>4, <1>5, <3>2
      <4> QED BY <3>2, <4>1
    <3> QED BY <3>1, <3>2
  <2> QED BY <1>6, <2>1, <2>2
<1>8. k \in 0..Len(T) /\ Len(t) - 1 = k + 1
  BY <1>1, <1>2
<1>9. IsPrefix(EchoOf(t), T)
  BY <1>2, <1>8, PrefixOf
<1> QED BY <1>2, <1>4, <1>6, <1>7, <1>8, <1>9 DEF ExactStream, t

-----------------------------------------------------------------------------
(* A plan and what was sent of it.                                         *)

LEMMA ConcatAt ==
  ASSUME NEW S, NEW a \in Seq(S), NEW c \in Seq(S)
  PROVE  /\ a \o c \in Seq(S) /\ Len(a \o c) = Len(a) + Len(c)
         /\ \A i \in 1..Len(a) : (a \o c)[i] = a[i]
         /\ \A i \in 1..Len(c) : (a \o c)[Len(a) + i] = c[i]
OBVIOUS

LEMMA Slices ==
  ASSUME NEW S, NEW P \in Seq(S), NEW k \in Nat, NEW d \in Nat, k + d <= Len(P)
  PROVE  /\ Len(Behind(P, k)) = Len(P) - k /\ Behind(P, k) \in Seq(S) /\ UpTo(P, k) \in Seq(S)
         /\ UpTo(P, k) \o UpTo(Behind(P, k), d) = UpTo(P, k + d)
         /\ Behind(Behind(P, k), d) = Behind(P, k + d)
<1>1. Len(P) \in Nat /\ k <= Len(P)
  OBVIOUS
<1>2. /\ UpTo(P, k) \in Seq(S) /\ Len(UpTo(P, k)) = k
      /\ \A i \in 1..k : UpTo(P, k)[i] = P[i]
  BY <1>1 DEF UpTo
<1>3. /\ Behind(P, k) \in Seq(S) /\ Len(Behind(P, k)) = Len(P) - k
      /\ \A i \in 1..(Len(P) - k) : Behind(P, k)[i] = P[k + i]
  BY <1>1 DEF Behind
<1>4. /\ UpTo(P, k + d) \in Seq(S) /\ Len(UpTo(P, k + d)) = k + d
      /\ \A i \in 1..(k + d) : UpTo(P, k + d)[i] = P[i]
  BY <1>1 DEF UpTo
<1>5. /\ Behind(P, k + d) \in Seq(S) /\ Len(Behind(P, k + d)) = Len(P) - (k + d)
      /\ \A i \in 1..(Len(P) - (k + d)) : Behind(P, k + d)[i] = P[(k + d) + i]
  BY <1>1 DEF Behind
<1> DEFINE b == Behind(P, k)
           a == UpTo(P, k)
<1> HIDE DEF a, b
<1>6. /\ UpTo(b, d) \in Seq(S) /\ Len(UpTo(b, d)) = d
      /\ \A i \in 1..d : UpTo(b, d)[i] = P[k + i]
  <2>1. b \in Seq(S) /\ Len(b) = Len(P) - k /\ \A i \in 1..(Len(P) - k) : b[i] = P[k + i]
    BY <1>3 DEF b
  <2>2. d <= Len(b)
    BY <1>1, <2>1
  <2>3. UpTo(b, d) \in Seq(S) /\ Len(UpTo(b, d)) = d /\ \A i \in 1..d : UpTo(b, d)[i] = b[i]
    BY <2>1, <2>2 DEF UpTo
  <2>4. \A i \in 1..d : i \in 1..(Len(P) - k)
    BY <1>1
  <2> QED BY <2>1, <2>3, <2>4
<1>7. a \o UpTo(b, d) = UpTo(P, k + d)
  <2> DEFINE c == UpTo(b, d)
             e == UpTo(P, k + d)
  <2>1. a \in Seq(S) /\ Len(a) = k /\ \A i \in 1..k : a[i] = P[i]
    BY <1>2 DEF a
  <2>2. c \in Seq(S) /\ Len(c) = d /\ \A i \in 1..d : c[i] = P[k + i]
    BY <1>6
  <2>3. e \in Seq(S) /\ Len(e) = k + d /\ \A i \in 1..(k + d) : e[i] = P[i]
    BY <1>4
  <2> HIDE DEF c, e
  <2>4. /\ a \o c \in Seq(S) /\ Len(a \o c) = k + d
        /\ \A i \in 1..k : (a \o c)[i] = a[i]
        /\ \A i \in 1..d : (a \o c)[k + i] = c[i]
    <3>1. /\ a \o c \in Seq(S) /\ Len(a \o c) = Len(a) + Len(c)
          /\ \A i \in 1..Len(a) : (a \o c)[i] = a[i]
          /\ \A i \in 1..Len(c) : (a \o c)[Len(a) + i] = c[i]
      <4>1. a \in Seq(S) /\ c \in Seq(S)
        BY <2>1, <2>2
      <4> QED BY <4>1, ConcatAt
    <3>2. Len(a) = k /\ Len(c) = d
      BY <2>1, <2>2
    <3> QED BY <3>1, <3>2
  <2>5. ASSUME NEW i \in 1..(k + d) PROVE (a \o c)[i] = e[i]
    <3>1. CASE i \in 1..k
      BY <2>1, <2>3, <2>4, <3>1
    <3>2. CASE i \notin 1..k
      <4>1. i - k \in 1..d /\ k + (i - k) = i
        BY <3>2
      <4>2. (a \o c)[k + (i - k)] = c[i - k]
        BY <2>4, <4>1
      <4>3. c[i - k] = P[k + (i - k)]
        BY <2>2, <4>1
      <4> QED BY <2>3, <4>1, <4>2, <4>3
    <3> QED BY <3>1, <3>2
  <2>6. a \o c = e
    BY <2>3, <2>4, <2>5, SeqEqual
  <2> QED BY <2>6 DEF c, e
<1>8. Behind(b, d) = Behind(P, k + d)
  <2> DEFINE c == Behind(b, d)
             e == Behind(P, k + d)
             n == Len(P) - (k + d)
  <2>1. b \in Seq(S) /\ Len(b) = Len(P) - k /\ \A i \in 1..(Len(P) - k) : b[i] = P[k + i]
    BY <1>3 DEF b
  <2>2. d <= Len(b) /\ Len(b) - d = n /\ n \in Nat
    BY <1>1, <2>1
  <2>3. c \in Seq(S) /\ Len(c) = Len(b) - d /\ \A i \in 1..(Len(b) - d) : c[i] = b[d + i]
    BY <2>1, <2>2 DEF Behind
  <2>4. e \in Seq(S) /\ Len(e) = n /\ \A i \in 1..n : e[i] = P[(k + d) + i]
    BY <1>5
  <2> HIDE DEF c, e
  <2>5. ASSUME NEW i \in 1..n PROVE c[i] = e[i]
    <3>1. d + i \in 1..(Len(P) - k) /\ k + (d + i) = (k + d) + i
      BY <1>1, <2>2
    <3>2. b[d + i] = P[k + (d + i)]
      BY <2>1, <3>1
    <3> QED BY <2>2, <2>3, <2>4, <3>1, <3>2
  <2>6. c = e
    BY <2>2, <2>3, <2>4, <2>5, SeqEqual
  <2> QED BY <2>6 DEF c, e
<1> QED BY <1>2, <1>3, <1>7, <1>8 DEF a, b

Planned(P) == P \in Seq(ToSet(P)) /\ Len(P) >= 2
SendingPlan(P, got, left) ==
  \E k \in 0..(Len(P) - 2) : got = UpTo(P, k) /\ left = Behind(P, k)
EndedPlan(P, got) == got = P \/ \E k \in 0..(Len(P) - 2) : got = Aborted(UpTo(P, k))

LEMMA PlanBegins ==
  ASSUME NEW P, Planned(P)
  PROVE  SendingPlan(P, <<>>, P)
<1>1. Len(P) \in Nat /\ UpTo(P, 0) = <<>> /\ Behind(P, 0) = P /\ 0 \in 0..(Len(P) - 2)
  BY DEF Planned, UpTo, Behind
<1> QED BY <1>1 DEF SendingPlan

LEMMA PlanCut ==
  ASSUME NEW S, NEW P \in Seq(S), NEW k \in 0..(Len(P) - 2)
  PROVE  /\ Len(Behind(P, k)) = Len(P) - k
         /\ UpTo(P, k) \o UpTo(Behind(P, k), 1) = UpTo(P, k + 1)
         /\ Behind(Behind(P, k), 1) = Behind(P, k + 1)
         /\ k + 2 = Len(P) => UpTo(P, k) \o UpTo(Behind(P, k), 2) = P
<1>1. k \in Nat /\ 1 \in Nat /\ 2 \in Nat /\ k + 1 <= Len(P) /\ k + 2 <= Len(P)
  OBVIOUS
<1>2. UpTo(P, Len(P)) = P
  BY DEF UpTo
<1>3. /\ Len(Behind(P, k)) = Len(P) - k
      /\ UpTo(P, k) \o UpTo(Behind(P, k), 1) = UpTo(P, k + 1)
      /\ Behind(Behind(P, k), 1) = Behind(P, k + 1)
  BY <1>1, Slices
<1>4. UpTo(P, k) \o UpTo(Behind(P, k), 2) = UpTo(P, k + 2)
  BY <1>1, Slices
<1> QED BY <1>2, <1>3, <1>4

LEMMA PlanStep ==
  ASSUME NEW P, Planned(P), NEW got, NEW left, SendingPlan(P, got, left)
  PROVE  /\ Len(left) \in Nat /\ Len(left) >= 2
         /\ Len(left) > 2 => SendingPlan(P, got \o UpTo(left, Due(left)), Behind(left, Due(left)))
         /\ Len(left) = 2 => EndedPlan(P, got \o UpTo(left, Due(left)))
<1>1. PICK k \in 0..(Len(P) - 2) : got = UpTo(P, k) /\ left = Behind(P, k)
  BY DEF SendingPlan
<1>2. P \in Seq(ToSet(P))
  BY DEF Planned
<1>3. /\ Len(left) = Len(P) - k
      /\ got \o UpTo(left, 1) = UpTo(P, k + 1) /\ Behind(left, 1) = Behind(P, k + 1)
      /\ k + 2 = Len(P) => got \o UpTo(left, 2) = P
  BY <1>1, <1>2, PlanCut
<1> DEFINE n == Len(P)
<1>4. n \in Nat
  BY <1>2
<1> HIDE DEF n
<1>5. k \in 0..(n - 2) /\ Len(left) = n - k
  BY <1>3 DEF n
<1>6. Len(left) \in Nat /\ Len(left) >= 2 /\ k \in Nat
  BY <1>4, <1>5
<1>7. ASSUME Len(left) > 2
      PROVE  SendingPlan(P, got \o UpTo(left, Due(left)), Behind(left, Due(left)))
  <2>1. k + 1 \in 0..(n - 2)
    BY <1>4, <1>5, <1>7
  <2>2. Due(left) = 1
    <3>1. PICK l : l = Len(left)
      OBVIOUS
    <3>2. l # 2
      BY <1>6, <1>7, <3>1
    <3> QED BY <3>1, <3>2, Zenon DEF Due
  <2> QED BY <1>3, <2>1, <2>2 DEF SendingPlan, n
<1>8. ASSUME Len(left) = 2 PROVE EndedPlan(P, got \o UpTo(left, Due(left)))
  <2>1. k + 2 = n
    <3>1. PICK l : l = Len(left)
      OBVIOUS
    <3>2. l = 2 /\ l = n - k
      BY <1>5, <1>8, <3>1
    <3> QED BY <1>4, <1>6, <3>2
  <2>2. Due(left) = 2
    BY <1>8 DEF Due
  <2> QED BY <1>3, <2>1, <2>2 DEF EndedPlan, n
<1> QED BY <1>6, <1>7, <1>8

LEMMA PlanAbort ==
  ASSUME NEW P, NEW got, NEW left, SendingPlan(P, got, left)
  PROVE  EndedPlan(P, got \o <<Delta(<<>>, "abort"), Usage(0, 0)>>)
BY DEF SendingPlan, EndedPlan, Aborted

LEMMA PlanStays ==
  ASSUME NEW P, Planned(P), NEW got,
         EndedPlan(P, got) \/ (\E left : SendingPlan(P, got, left)) \/ got = <<>>
  PROVE  got \o <<>> = got /\ IsSequence(got)
<1> DEFINE a == Delta(<<>>, "abort")
           b == Usage(0, 0)
           S == ToSet(P) \cup {a, b}
<1>1. P \in Seq(S) /\ Len(P) \in Nat
  BY DEF Planned
<1>2. a \in S /\ b \in S
  OBVIOUS
<1> HIDE DEF a, b, S
<1>3. <<a, b>> \in Seq(S)
  BY <1>2
<1>4. \A k \in 0..(Len(P) - 2) : UpTo(P, k) \in Seq(S)
  BY <1>1 DEF UpTo
<1>5. \A k \in 0..(Len(P) - 2) : Aborted(UpTo(P, k)) \in Seq(S)
  <2>1. \A s \in Seq(S) : s \o <<a, b>> \in Seq(S)
    BY <1>3
  <2> QED BY <1>4, <2>1 DEF Aborted, a, b
<1>6. got \in Seq(S)
  <2>1. CASE EndedPlan(P, got)
    BY <1>1, <1>5, <2>1 DEF EndedPlan
  <2>2. CASE \E left : SendingPlan(P, got, left)
    <3>1. \E k \in 0..(Len(P) - 2) : got = UpTo(P, k)
      BY <2>2 DEF SendingPlan
    <3> QED BY <1>4, <3>1
  <2>3. CASE got = <<>>
    BY <2>3
  <2> QED BY <2>1, <2>2, <2>3
<1> HIDE DEF S
<1>7. IsSequence(got)
  BY <1>6, SequenceOf
<1> QED BY <1>6, <1>7

(* The plan made for a prompt and the JSON it was asked in.                *)
PlanFor(prompt, json) ==
  Outputs(FromUntokenized(prompt.inputs), Parsed(json).max_tokens, Parsed(json).n)
WordsOf(prompt) == EchoedTokens(FromUntokenized(prompt.inputs))

LEMMA WordsType ==
  ASSUME NEW W, NEW prompt, IsPrompt(prompt, W)
  PROVE  WordsOf(prompt) \in Seq(W)
<1> DEFINE inputs == prompt.inputs
           plain == FromUntokenized(inputs)
           s == [i \in DOMAIN plain |-> IF plain[i].kind = "token" THEN plain[i].ids ELSE <<>>]
<1>1. inputs \in Seq(Filled(W)) /\ Len(inputs) \in Nat /\ DOMAIN inputs = 1..Len(inputs)
  BY DEF IsPrompt
<1>2. DOMAIN plain = 1..Len(inputs)
  BY <1>1 DEF FromUntokenized
<1>3. ASSUME NEW i \in 1..Len(inputs) PROVE plain[i].ids \in Seq(W)
  <2> DEFINE datum == inputs[i]
  <2>1. datum \in Filled(W)
    BY <1>1
  <2>2. plain[i] = IF datum.kind = "text" THEN Token(datum.ids) ELSE datum
    BY <1>1 DEF FromUntokenized
  <2> HIDE DEF plain, datum
  <2>3. datum.ids \in Seq(W)
    BY <2>1 DEF Filled
  <2> QED BY <2>2, <2>3 DEF Token
<1> HIDE DEF inputs, plain
<1>4. s \in Seq(Seq(W))
  <2>1. \A i \in 1..Len(inputs) : s[i] \in Seq(W)
    BY <1>2, <1>3
  <2>2. s = [i \in 1..Len(inputs) |-> s[i]]
    BY <1>2
  <2> HIDE DEF s
  <2> QED BY <1>1, <2>1, <2>2
<1>5. WordsOf(prompt) = FlattenSeq(s)
  BY DEF WordsOf, EchoedTokens, plain, inputs
<1> HIDE DEF s
<1>6. <<>> \in Seq(W)
  OBVIOUS
<1> QED BY <1>4, <1>5, <1>6, FlattenAppend

LEMMA PlanForType ==
  ASSUME NEW W, NEW prompt, IsPrompt(prompt, W),
         NEW json, IsRequest(json, W), RequestChecked(json)
  PROVE  /\ Planned(PlanFor(prompt, json)) /\ WordsOf(prompt) \in Seq(W)
         /\ \E N : IsPlan(PlanFor(prompt, json), WordsOf(prompt), Parsed(json).max_tokens, N)
<1> DEFINE T == WordsOf(prompt)
           m == Parsed(json).max_tokens
           P == PlanFor(prompt, json)
           N == IF Reached(T, m) THEN m ELSE Len(T)
<1>1. T \in Seq(W)
  BY WordsType
<1>2. m \in Int /\ m >= -1
  BY ParsedType
<1>3. IsPlan(P, T, m, N)
  <2> DEFINE inputs == FromUntokenized(prompt.inputs)
             n == Parsed(json).n
  <2>1. EchoedTokens(inputs) = T /\ P = Outputs(inputs, m, n)
    BY DEF WordsOf, PlanFor
  <2> HIDE DEF inputs, n, T, P, m
  <2>2. IsPlan(Outputs(inputs, m, n), EchoedTokens(inputs), m,
               IF Reached(EchoedTokens(inputs), m) THEN m ELSE Len(EchoedTokens(inputs)))
    BY <1>1, <1>2, <2>1, OutputsPlanned
  <2> QED BY <2>1, <2>2
<1> HIDE DEF T, m, P, N
<1>4. Planned(P)
  BY <1>1, <1>3, PlanBeginning DEF Planned
<1> QED BY <1>1, <1>3, <1>4 DEF T, m, P

-----------------------------------------------------------------------------
(* What is preserved.                                                      *)

Loaded ==
  \/ template = [outcome |-> "none", json |-> <<>>]
  \/ \E i \in DOMAIN Templates :
       template = [outcome |-> ConversationFromJSON(Templates[i]), json |-> Templates[i]]
AnswersMade ==
  /\ DOMAIN asked \subseteq RequestId /\ DOMAIN answer = DOMAIN asked
  /\ \A r \in DOMAIN asked :
       /\ template.outcome = "ok" /\ answer[r] = PromptFor(asked[r])
       /\ \E i \in DOMAIN Requests[r] : asked[r] = Requests[r][i]
Plan(r) == PlanFor(answer[r], asked[r])
StreamsKept ==
  /\ DOMAIN request_map \subseteq Served
  /\ \A r \in RequestId :
       /\ r \notin Served => received[r] = <<>>
       /\ r \in DOMAIN request_map => SendingPlan(Plan(r), received[r], request_map[r])
       /\ r \in Served /\ r \notin DOMAIN request_map => EndedPlan(Plan(r), received[r])
ChatInductive == Loaded /\ AnswersMade /\ StreamsKept

(* A template that was loaded was parsed, as every one that is well-formed.*)
LEMMA LoadedType ==
  ASSUME NEW W, IsJSON(W), Loaded
  PROVE  /\ template.outcome \in {"none"} \cup Outcomes
         /\ template.outcome = "ok" => IsConv(Conv, W)
         /\ template.outcome # "none" =>
              (template.outcome = "ok" <=> WellFormedTemplate(template.json))
<1>1. CASE template = [outcome |-> "none", json |-> <<>>]
  BY <1>1
<1>2. CASE \E i \in DOMAIN Templates :
             template = [outcome |-> ConversationFromJSON(Templates[i]), json |-> Templates[i]]
  <2>1. PICK i \in DOMAIN Templates :
             template = [outcome |-> ConversationFromJSON(Templates[i]), json |-> Templates[i]]
    BY <1>2
  <2> DEFINE json == Templates[i]
  <2>2. IsTemplate(json, W) /\ \A role \in DOMAIN Placeholder : Placeholder[role] \in W
    BY DEF IsJSON
  <2>3. template.outcome = ConversationFromJSON(json) /\ template.json = json
    BY <2>1
  <2> HIDE DEF json
  <2>4. ConversationFromJSON(json) \in Outcomes
    BY TemplateOutcome
  <2>5. ConversationFromJSON(json) = "ok" => IsConv(Conversation(json), W)
    BY <2>2, ConversationType
  <2>6. ConversationFromJSON(json) = "ok" <=> WellFormedTemplate(json)
    <3>1. json.type = "object"
      BY <2>2 DEF IsTemplate
    <3> QED BY <3>1, TemplateParsed, TemplateShape
  <2> QED BY <2>3, <2>4, <2>5, <2>6 DEF Conv
<1> QED BY <1>1, <1>2 DEF Loaded

(* A request is made a prompt of exactly if it can be served.              *)
LEMMA PromptForType ==
  ASSUME NEW W, IsJSON(W), Loaded, template.outcome = "ok", NEW json, IsRequest(json, W)
  PROVE  /\ IsPrompt(PromptFor(json), W)
         /\ PromptFor(json).outcome = "ok" <=> Servable(json)
         /\ PromptFor(json).outcome = "ok" => RequestChecked(json)
<1>1. IsConv(Conv, W) /\ {"[", "]"} \subseteq W
  BY LoadedType DEF IsJSON
<1>2. ChatCompletionRequest(json) \in Outcomes
  BY RequestOutcome
<1>3. RequestChecked(json)
        <=> /\ WellFormedRequest(json)
            /\ \A i \in DOMAIN json.of.messages.of :
                 Items(json.of.messages.of[i], "tool_calls") = <<>>
  BY RequestShape DEF IsRequest
<1>4. ChatCompletionRequest(json) = "ok" <=> RequestChecked(json)
  BY RequestParsed
<1> DEFINE request == Parsed(json)
           messages == Conv.messages \o request.messages
           has == request.tools # <<>> =>
                    request.tool_choice \in {"none", "auto"} \cup ToSet(request.tools[1])
           says == \A m \in ToSet(messages) : Sayable(Conv, Vision, m)
<1>5. Servable(json) <=> RequestChecked(json) /\ has /\ "assistant" \in DOMAIN Conv.roles /\ says
  BY <1>3 DEF Servable
<1>6. CASE ChatCompletionRequest(json) # "ok"
  <2>1. PromptFor(json) = [outcome |-> ChatCompletionRequest(json), inputs |-> <<>>]
    BY <1>6 DEF PromptFor
  <2>2. IsPrompt(PromptFor(json), W)
    BY <1>2, <2>1 DEF IsPrompt
  <2>3. PromptFor(json).outcome # "ok"
    BY <1>6, <2>1
  <2> HIDE DEF has, says
  <2> QED BY <1>4, <1>5, <1>6, <2>2, <2>3
<1>7. CASE ChatCompletionRequest(json) = "ok"
  <2> DEFINE prompt == CreatePrompt(Conv, request, Vision)
  <2>1. PromptFor(json) = prompt
    BY <1>7 DEF PromptFor, Conv
  <2>2. RequestChecked(json)
    BY <1>4, <1>7
  <2>3. /\ IsMessages(request.messages, W)
        /\ request.tools # <<>> => request.tools[1] \in Seq(W)
    BY <2>2, ParsedMessages, ParsedType
  <2> HIDE DEF request
  <2>4. /\ IsPrompt(prompt, W) /\ IsMessages(messages, W)
        /\ prompt.outcome = "ok" <=>
             /\ ~InvalidToolChoice(request) /\ "assistant" \in DOMAIN Conv.roles
             /\ \A i \in 1..Len(messages) : Sayable(Conv, Vision, messages[i])
    BY <1>1, <2>3, PromptType
  <2>5. has <=> ~InvalidToolChoice(request)
    BY DEF InvalidToolChoice
  <2> HIDE DEF prompt, messages
  <2>6. (\A m \in ToSet(messages) : Sayable(Conv, Vision, m))
          <=> \A i \in 1..Len(messages) : Sayable(Conv, Vision, messages[i])
    <3>1. DOMAIN messages = 1..Len(messages)
      BY <2>4, MessagesSet
    <3> QED BY <3>1 DEF ToSet
  <2> HIDE DEF has
  <2> QED BY <1>5, <2>1, <2>2, <2>4, <2>5, <2>6
<1> QED BY <1>6, <1>7

(* What is known of a request that was made.                               *)
LEMMA MadeType ==
  ASSUME NEW W, IsJSON(W), Loaded, AnswersMade, NEW r \in DOMAIN asked
  PROVE  /\ r \in RequestId /\ template.outcome = "ok" /\ IsRequest(asked[r], W)
         /\ IsPrompt(answer[r], W) /\ (r \in Served <=> Servable(asked[r]))
         /\ r \in Served => RequestChecked(asked[r])
<1>1. /\ r \in RequestId /\ template.outcome = "ok" /\ answer[r] = PromptFor(asked[r])
      /\ \E i \in DOMAIN Requests[r] : asked[r] = Requests[r][i]
  BY DEF AnswersMade
<1>2. IsRequest(asked[r], W)
  BY <1>1 DEF IsJSON
<1>3. PICK json : json = asked[r]
  OBVIOUS
<1>4. IsRequest(json, W) /\ answer[r] = PromptFor(json)
  BY <1>1, <1>2, <1>3
<1>5. /\ IsPrompt(PromptFor(json), W)
      /\ PromptFor(json).outcome = "ok" <=> Servable(json)
      /\ PromptFor(json).outcome = "ok" => RequestChecked(json)
  BY <1>1, <1>4, PromptForType
<1>6. r \in Served <=> PromptFor(json).outcome = "ok"
  BY <1>4 DEF Served, AnswersMade
<1> QED BY <1>1, <1>2, <1>3, <1>4, <1>5, <1>6

LEMMA ServedPlan ==
  ASSUME NEW W, IsJSON(W), Loaded, AnswersMade, NEW r \in Served
  PROVE  /\ r \in RequestId /\ Planned(Plan(r)) /\ WordsOf(answer[r]) \in Seq(W)
         /\ \E N : IsPlan(Plan(r), WordsOf(answer[r]), Parsed(asked[r]).max_tokens, N)
<1>1. r \in DOMAIN asked
  BY DEF Served, AnswersMade
<1>2. /\ r \in RequestId /\ IsRequest(asked[r], W) /\ IsPrompt(answer[r], W)
      /\ RequestChecked(asked[r])
  BY <1>1, MadeType
<1> QED BY <1>2, PlanForType DEF Plan

(* The initial state.                                                      *)
LEMMA ChatStart ==
  ASSUME ChatInit
  PROVE  ChatInductive
<1>1. /\ request_map = <<>> /\ received = [r \in RequestId |-> <<>>]
      /\ template = [outcome |-> "none", json |-> <<>>] /\ asked = <<>> /\ answer = <<>>
  BY DEF ChatInit, EngineInit
<1>2. Loaded
  BY <1>1 DEF Loaded
<1>3. DOMAIN asked = {} /\ DOMAIN answer = {} /\ DOMAIN request_map = {}
  BY <1>1
<1>4. AnswersMade
  BY <1>3 DEF AnswersMade
<1>5. StreamsKept
  BY <1>1, <1>3 DEF StreamsKept, Served
<1> QED BY <1>2, <1>4, <1>5 DEF ChatInductive

(* A template is loaded before any request is made.                        *)
LEMMA LoadKeeps ==
  ASSUME ChatInductive, LoadConversation
  PROVE  ChatInductive'
<1>1. /\ template.outcome = "none" /\ asked' = asked /\ answer' = answer
      /\ request_map' = request_map /\ received' = received
      /\ \E i \in DOMAIN Templates :
           template' = [outcome |-> ConversationFromJSON(Templates[i]), json |-> Templates[i]]
  BY DEF LoadConversation, engineVars
<1>2. Loaded'
  BY <1>1 DEF Loaded
<1>3. DOMAIN asked = {}
  BY <1>1 DEF ChatInductive, AnswersMade
<1>4. AnswersMade'
  BY <1>1, <1>3 DEF ChatInductive, AnswersMade
<1>5. StreamsKept'
  BY <1>1 DEF ChatInductive, StreamsKept, Served, Plan
<1> QED BY <1>2, <1>4, <1>5 DEF ChatInductive

Extends(g, f, x, value) ==
  /\ DOMAIN g = DOMAIN f \cup {x} /\ g[x] = value
  /\ \A y \in DOMAIN f : g[y] = f[y]
LEMMA WithFacts ==
  ASSUME NEW f, NEW x, NEW value, x \notin DOMAIN f
  PROVE  Extends(With(f, x, value), f, x, value)
BY DEF With, Extends

(* A request that is made is answered, and served if its prompt is made.   *)
LEMMA CompletionKeeps ==
  ASSUME NEW W, IsJSON(W), ChatInductive, NEW r \in RequestId, ChatCompletion(r)
  PROVE  ChatInductive'
<1>1. /\ template.outcome = "ok" /\ r \notin DOMAIN asked /\ template' = template
  BY DEF ChatCompletion
<1>2. PICK i \in DOMAIN Requests[r] :
        /\ asked' = With(asked, r, Requests[r][i])
        /\ answer' = With(answer, r, PromptFor(Requests[r][i]))
        /\ \/ /\ PromptFor(Requests[r][i]).outcome = "ok"
              /\ EchoAddRequest(r, PromptFor(Requests[r][i]).inputs,
                                Parsed(Requests[r][i]).max_tokens, Parsed(Requests[r][i]).n)
           \/ PromptFor(Requests[r][i]).outcome # "ok" /\ UNCHANGED engineVars
  BY DEF ChatCompletion
<1>3. PICK json : json = Requests[r][i]
  OBVIOUS
<1>4. PICK prompt : prompt = PromptFor(json)
  OBVIOUS
<1>5. IsRequest(json, W)
  BY <1>3 DEF IsJSON
<1>6. /\ IsPrompt(prompt, W) /\ (prompt.outcome = "ok" => RequestChecked(json))
  BY <1>1, <1>4, <1>5, PromptForType DEF ChatInductive
<1>7. asked' = With(asked, r, json) /\ answer' = With(answer, r, prompt)
  BY <1>2, <1>3, <1>4
<1>8. /\ DOMAIN asked' = DOMAIN asked \cup {r} /\ asked'[r] = json
      /\ \A s \in DOMAIN asked : asked'[s] = asked[s]
  <2>1. Extends(With(asked, r, json), asked, r, json)
    BY <1>1, WithFacts
  <2> QED BY <1>7, <2>1 DEF Extends
<1>9. r \notin DOMAIN answer /\ DOMAIN answer = DOMAIN asked
  BY <1>1 DEF ChatInductive, AnswersMade
<1>10. /\ DOMAIN answer' = DOMAIN answer \cup {r} /\ answer'[r] = prompt
       /\ \A s \in DOMAIN answer : answer'[s] = answer[s]
  <2>1. Extends(With(answer, r, prompt), answer, r, prompt)
    BY <1>9, WithFacts
  <2> QED BY <1>7, <2>1 DEF Extends
<1>11. Loaded'
  BY <1>1 DEF ChatInductive, Loaded
<1>12. AnswersMade'
  <2>1. DOMAIN asked' \subseteq RequestId /\ DOMAIN answer' = DOMAIN asked'
    BY <1>8, <1>9, <1>10 DEF ChatInductive, AnswersMade
  <2>2. ASSUME NEW s \in DOMAIN asked'
        PROVE  /\ template'.outcome = "ok" /\ answer'[s] = PromptFor(asked'[s])
               /\ \E k \in DOMAIN Requests[s] : asked'[s] = Requests[s][k]
    <3>1. CASE s = r
      BY <1>1, <1>3, <1>4, <1>8, <1>10, <3>1
    <3>2. CASE s # r
      <4>1. s \in DOMAIN asked /\ s \in DOMAIN answer
        BY <1>8, <1>9, <3>2
      <4>2. asked'[s] = asked[s] /\ answer'[s] = answer[s]
        BY <1>8, <1>10, <4>1
      <4> QED BY <1>1, <4>1, <4>2 DEF ChatInductive, AnswersMade
    <3> QED BY <3>1, <3>2
  <2>3. \A json1 : PromptFor(json1)' = PromptFor(json1)
    BY <1>1 DEF PromptFor
  <2> QED BY <2>1, <2>2, <2>3, <1>1 DEF AnswersMade
<1>13. \A s : s # r => (s \in Served') = (s \in Served)
  BY <1>10 DEF Served
<1>14. r \notin Served /\ received[r] = <<>> /\ r \notin DOMAIN request_map
  BY <1>9 DEF Served, ChatInductive, StreamsKept
<1>15. \A s \in Served : Plan(s)' = Plan(s)
  BY <1>8, <1>9, <1>10 DEF Plan, Served
<1>16. StreamsKept'
  <2>1. CASE prompt.outcome = "ok"
    <3> DEFINE P == PlanFor(prompt, json)
    <3>1. request_map' = With(request_map, r, P) /\ received' = received
      BY <1>2, <1>3, <1>4, <2>1 DEF EchoAddRequest, PlanFor
    <3>2. Planned(P)
      BY <1>5, <1>6, <2>1, PlanForType
    <3>3. Plan(r)' = P
      BY <1>8, <1>10 DEF Plan
    <3> HIDE DEF P
    <3>4. /\ DOMAIN request_map' = DOMAIN request_map \cup {r} /\ request_map'[r] = P
          /\ \A s \in DOMAIN request_map : request_map'[s] = request_map[s]
      <4>1. Extends(With(request_map, r, P), request_map, r, P)
        BY <1>14, WithFacts
      <4> QED BY <3>1, <4>1 DEF Extends
    <3>5. r \in Served'
      BY <1>10, <2>1 DEF Served
    <3>6. DOMAIN request_map' \subseteq Served'
      BY <1>13, <3>4, <3>5 DEF ChatInductive, StreamsKept
    <3>7. ASSUME NEW s \in RequestId
          PROVE  /\ s \notin Served' => received'[s] = <<>>
                 /\ s \in DOMAIN request_map' =>
                      SendingPlan(Plan(s)', received'[s], request_map'[s])
                 /\ s \in Served' /\ s \notin DOMAIN request_map' =>
                      EndedPlan(Plan(s)', received'[s])
      <4>1. CASE s = r
        <5>1. SendingPlan(P, <<>>, P)
          BY <3>2, PlanBegins
        <5>2. SendingPlan(Plan(s)', received'[s], request_map'[s])
          BY <1>14, <3>1, <3>3, <3>4, <4>1, <5>1
        <5> QED BY <3>4, <3>5, <4>1, <5>2
      <4>2. CASE s # r
        <5>1. (s \in Served') = (s \in Served) /\ received'[s] = received[s]
          BY <1>13, <3>1, <4>2
        <5>2. (s \in DOMAIN request_map') = (s \in DOMAIN request_map)
          BY <3>4, <4>2
        <5>3. s \in DOMAIN request_map => s \in Served /\ request_map'[s] = request_map[s]
          BY <3>4 DEF ChatInductive, StreamsKept
        <5>4. /\ s \notin Served => received[s] = <<>>
              /\ s \in DOMAIN request_map => SendingPlan(Plan(s), received[s], request_map[s])
              /\ s \in Served /\ s \notin DOMAIN request_map => EndedPlan(Plan(s), received[s])
          BY DEF ChatInductive, StreamsKept
        <5> QED BY <1>15, <5>1, <5>2, <5>3, <5>4
      <4> QED BY <4>1, <4>2
    <3> QED BY <3>6, <3>7 DEF StreamsKept
  <2>2. CASE prompt.outcome # "ok"
    <3>1. request_map' = request_map /\ received' = received
      BY <1>2, <1>3, <1>4, <2>2 DEF engineVars
    <3>2. r \notin Served'
      BY <1>10, <2>2 DEF Served
    <3>3. \A s : (s \in Served') = (s \in Served)
      BY <1>13, <1>14, <3>2
    <3>4. Served' = Served
      BY <3>3
    <3> QED BY <1>15, <3>1, <3>4 DEF ChatInductive, StreamsKept
  <2> QED BY <2>1, <2>2
<1> QED BY <1>11, <1>12, <1>16 DEF ChatInductive

(* What a request that is served has got, or one that is not.              *)
LEMMA StreamAt ==
  ASSUME ChatInductive, NEW r \in RequestId
  PROVE  /\ r \notin Served => received[r] = <<>>
         /\ r \in DOMAIN request_map =>
              r \in Served /\ SendingPlan(Plan(r), received[r], request_map[r])
         /\ r \in Served /\ r \notin DOMAIN request_map => EndedPlan(Plan(r), received[r])
BY DEF ChatInductive, StreamsKept

LEMMA StreamStays ==
  ASSUME NEW W, IsJSON(W), ChatInductive, NEW r \in RequestId
  PROVE  received[r] \o <<>> = received[r] /\ IsSequence(received[r])
<1>1. CASE r \notin Served
  <2>1. received[r] = <<>>
    BY <1>1, StreamAt
  <2> QED BY <2>1 DEF IsSequence
<1>2. CASE r \in Served
  <2>1. Planned(Plan(r))
    BY <1>2, ServedPlan DEF ChatInductive
  <2>2. \/ SendingPlan(Plan(r), received[r], request_map[r])
        \/ EndedPlan(Plan(r), received[r])
    BY <1>2, StreamAt
  <2> QED BY <2>1, <2>2, PlanStays
<1> QED BY <1>1, <1>2

(* Only the streams change when the engine aborts or steps.                *)
EngineOnly == template' = template /\ asked' = asked /\ answer' = answer
LEMMA EngineOnlyKeeps ==
  ASSUME ChatInductive, EngineOnly
  PROVE  /\ Loaded' /\ AnswersMade' /\ Served' = Served
         /\ \A r : Plan(r)' = Plan(r)
<1>1. template' = template /\ asked' = asked /\ answer' = answer
  BY DEF EngineOnly
<1>2. Loaded'
  BY <1>1 DEF ChatInductive, Loaded
<1>3. \A json : PromptFor(json)' = PromptFor(json)
  BY <1>1 DEF PromptFor
<1>4. AnswersMade'
  BY <1>1, <1>3 DEF ChatInductive, AnswersMade
<1> QED BY <1>1, <1>2, <1>4 DEF Served, Plan

(* A request that is aborted is sent the abort and a usage, no other.      *)
LEMMA AbortKeeps ==
  ASSUME NEW W, IsJSON(W), ChatInductive, EngineOnly,
         NEW R \in SUBSET DOMAIN request_map, AbortAll(R)
  PROVE  ChatInductive'
<1> DEFINE last == <<Delta(<<>>, "abort"), Usage(0, 0)>>
<1>1. Loaded' /\ AnswersMade' /\ Served' = Served /\ \A r : Plan(r)' = Plan(r)
  BY EngineOnlyKeeps
<1>2. /\ DOMAIN request_map' = DOMAIN request_map \ R
      /\ \A s \in DOMAIN request_map \ R : request_map'[s] = request_map[s]
  <2>1. request_map' = Restrict(request_map, DOMAIN request_map \ R)
    BY DEF AbortAll
  <2>2. request_map' = [s \in DOMAIN request_map \ R |-> request_map[s]]
    BY <2>1 DEF Restrict
  <2> QED BY <2>2
<1>3. \A s \in RequestId : received'[s] = received[s] \o (IF s \in R THEN last ELSE <<>>)
  BY DEF AbortAll
<1> HIDE DEF last
<1>4. DOMAIN request_map \subseteq Served
  BY DEF ChatInductive, StreamsKept
<1>5. ASSUME NEW s \in RequestId
      PROVE  /\ s \notin Served' => received'[s] = <<>>
             /\ s \in DOMAIN request_map' => SendingPlan(Plan(s)', received'[s], request_map'[s])
             /\ s \in Served' /\ s \notin DOMAIN request_map' => EndedPlan(Plan(s)', received'[s])
  <2>1. CASE s \in R
    <3>1. received'[s] = received[s] \o last
      BY <1>3, <2>1
    <3>2. SendingPlan(Plan(s), received[s], request_map[s]) /\ s \in Served
      BY <2>1, StreamAt
    <3>3. EndedPlan(Plan(s), received[s] \o last)
      BY <3>2, PlanAbort DEF last
    <3> QED BY <1>1, <1>2, <2>1, <3>1, <3>2, <3>3
  <2>2. CASE s \notin R
    <3>1. received'[s] = received[s]
      BY <1>3, <2>2, StreamStays
    <3>2. (s \in DOMAIN request_map') = (s \in DOMAIN request_map)
      BY <1>2, <2>2
    <3>3. s \in DOMAIN request_map => request_map'[s] = request_map[s]
      BY <1>2, <2>2
    <3> QED BY <1>1, <3>1, <3>2, <3>3, StreamAt
  <2> QED BY <2>1, <2>2
<1>6. StreamsKept'
  BY <1>1, <1>2, <1>4, <1>5 DEF StreamsKept
<1> QED BY <1>1, <1>6 DEF ChatInductive

(* A step sends one output of every plan, and the usage with the last.     *)
LEMMA StepKeeps ==
  ASSUME NEW W, IsJSON(W), ChatInductive, EngineOnly, Step
  PROVE  ChatInductive'
<1>1. Loaded' /\ AnswersMade' /\ Served' = Served /\ \A r : Plan(r)' = Plan(r)
  BY EngineOnlyKeeps
<1> DEFINE live == {s \in DOMAIN request_map : Len(request_map[s]) > 2}
<1>2. /\ DOMAIN request_map' = live
      /\ \A s \in live : request_map'[s] = Behind(request_map[s], Due(request_map[s]))
  BY DEF Step
<1>3. \A s \in RequestId :
        received'[s] = received[s] \o (IF s \in DOMAIN request_map
                                       THEN UpTo(request_map[s], Due(request_map[s])) ELSE <<>>)
  BY DEF Step
<1>4. DOMAIN request_map \subseteq Served /\ live \subseteq DOMAIN request_map
  BY DEF ChatInductive, StreamsKept
<1>5. \A s : s \in live <=> s \in DOMAIN request_map /\ Len(request_map[s]) > 2
  OBVIOUS
<1> HIDE DEF live
<1>6. ASSUME NEW s \in RequestId
      PROVE  /\ s \notin Served' => received'[s] = <<>>
             /\ s \in DOMAIN request_map' => SendingPlan(Plan(s)', received'[s], request_map'[s])
             /\ s \in Served' /\ s \notin DOMAIN request_map' => EndedPlan(Plan(s)', received'[s])
  <2>1. CASE s \in DOMAIN request_map
    <3> DEFINE left == request_map[s]
               got == received[s]
    <3>1. received'[s] = got \o UpTo(left, Due(left))
      BY <1>3, <2>1
    <3>2. s \in Served /\ SendingPlan(Plan(s), got, left)
      BY <2>1, StreamAt
    <3>3. Planned(Plan(s))
      BY <3>2, ServedPlan DEF ChatInductive
    <3>4. s \in live => request_map'[s] = Behind(left, Due(left))
      BY <1>2
    <3>5. s \in live <=> Len(left) > 2
      BY <1>5, <2>1
    <3> HIDE DEF left, got
    <3>6. /\ Len(left) \in Nat /\ Len(left) >= 2
          /\ Len(left) > 2 => SendingPlan(Plan(s), got \o UpTo(left, Due(left)), Behind(left, Due(left)))
          /\ Len(left) = 2 => EndedPlan(Plan(s), got \o UpTo(left, Due(left)))
      BY <3>2, <3>3, PlanStep
    <3>7. Len(left) > 2 \/ Len(left) = 2
      <4>1. PICK n : n = Len(left)
        OBVIOUS
      <4> QED BY <3>6, <4>1
    <3>8. CASE Len(left) > 2
      BY <1>1, <1>2, <3>1, <3>2, <3>4, <3>5, <3>6, <3>8
    <3>9. CASE Len(left) = 2
      <4>1. s \notin live
        BY <3>5, <3>9
      <4> QED BY <1>1, <1>2, <3>1, <3>2, <3>6, <3>9, <4>1
    <3> QED BY <3>7, <3>8, <3>9
  <2>2. CASE s \notin DOMAIN request_map
    <3>1. received'[s] = received[s]
      BY <1>3, <2>2, StreamStays
    <3>2. s \notin DOMAIN request_map'
      BY <1>2, <1>4, <2>2
    <3> QED BY <1>1, <2>2, <3>1, <3>2, StreamAt
  <2> QED BY <2>1, <2>2
<1>7. StreamsKept'
  BY <1>1, <1>2, <1>4, <1>6 DEF StreamsKept
<1> QED BY <1>1, <1>7 DEF ChatInductive

(* The streams of a chat service whose JSON is well typed follow the plans *)
(* made for the prompts of the requests.                                   *)
THEOREM ChatInvariance ==
  ASSUME NEW CONSTANT W, IsJSON(W)
  PROVE  ChatSpec => []ChatInductive
<1>1. ChatInit => ChatInductive
  BY ChatStart
<1>2. ChatInductive /\ [ChatNext]_chatVars => ChatInductive'
  <2> SUFFICES ASSUME ChatInductive, [ChatNext]_chatVars
               PROVE  ChatInductive'
    OBVIOUS
  <2>1. CASE LoadConversation
    BY <2>1, LoadKeeps
  <2>2. ASSUME NEW r \in RequestId, ChatCompletion(r)
        PROVE  ChatInductive'
    BY <2>2, CompletionKeeps
  <2>3. ASSUME NEW r \in RequestId, EchoAbortRequest(r), UNCHANGED <<template, asked, answer>>
        PROVE  ChatInductive'
    <3>1. EngineOnly
      BY <2>3 DEF EngineOnly
    <3>2. AbortAll({r}) /\ {r} \in SUBSET DOMAIN request_map
      BY <2>3 DEF EchoAbortRequest
    <3> QED BY <3>1, <3>2, AbortKeeps
  <2>4. ASSUME EchoAbortAllRequests, UNCHANGED <<template, asked, answer>>
        PROVE  ChatInductive'
    <3>1. EngineOnly
      BY <2>4 DEF EngineOnly
    <3>2. AbortAll(DOMAIN request_map)
      BY <2>4 DEF EchoAbortAllRequests
    <3> QED BY <3>1, <3>2, AbortKeeps
  <2>5. CASE ChatStep
    <3>1. Step /\ EngineOnly
      BY <2>5 DEF ChatStep, EngineOnly
    <3> QED BY <3>1, StepKeeps
  <2>6. CASE UNCHANGED chatVars
    <3>1. EngineOnly /\ request_map' = request_map /\ received' = received
      BY <2>6 DEF chatVars, EngineOnly
    <3>2. Loaded' /\ AnswersMade' /\ Served' = Served /\ \A r : Plan(r)' = Plan(r)
      BY <3>1, EngineOnlyKeeps
    <3>3. StreamsKept'
      BY <3>1, <3>2 DEF ChatInductive, StreamsKept
    <3> QED BY <3>2, <3>3 DEF ChatInductive
  <2> QED BY <2>1, <2>2, <2>3, <2>4, <2>5, <2>6 DEF ChatNext
<1> QED BY <1>1, <1>2, PTL DEF ChatSpec

LEMMA ServedExact ==
  ASSUME NEW W, IsJSON(W), ChatInductive, NEW r \in Served
  PROVE  ExactStream(received[r], r \in DOMAIN request_map, WordsOf(answer[r]),
                     Parsed(asked[r]).max_tokens)
<1> DEFINE T == WordsOf(answer[r])
           m == Parsed(asked[r]).max_tokens
           P == Plan(r)
           got == received[r]
<1>1. r \in RequestId /\ Planned(P) /\ T \in Seq(W) /\ \E N : IsPlan(P, T, m, N)
  BY ServedPlan DEF ChatInductive
<1>2. PICK N : IsPlan(P, T, m, N)
  BY <1>1
<1>3. /\ r \in DOMAIN request_map => SendingPlan(P, got, request_map[r])
      /\ r \notin DOMAIN request_map => EndedPlan(P, got)
  BY <1>1, StreamAt
<1> SUFFICES ExactStream(got, r \in DOMAIN request_map, T, m)
  OBVIOUS
<1> HIDE DEF T, m, P, got
<1>4. CASE r \in DOMAIN request_map
  <2>1. PICK k \in 0..(Len(P) - 2) : got = UpTo(P, k)
    BY <1>3, <1>4 DEF SendingPlan
  <2>2. ExactStream(UpTo(P, k), TRUE, T, m)
    BY <1>1, <1>2, LiveExact
  <2>3. (r \in DOMAIN request_map) = TRUE
    BY <1>4
  <2> QED BY <2>1, <2>2, <2>3
<1>5. CASE r \notin DOMAIN request_map
  <2>1. (r \in DOMAIN request_map) = FALSE
    BY <1>5
  <2>2. CASE got = P
    <3>1. ExactStream(P, FALSE, T, m)
      BY <1>1, <1>2, EndedExact
    <3> QED BY <2>1, <2>2, <3>1
  <2>3. CASE \E k \in 0..(Len(P) - 2) : got = Aborted(UpTo(P, k))
    <3>1. PICK k \in 0..(Len(P) - 2) : got = Aborted(UpTo(P, k))
      BY <2>3
    <3>2. ExactStream(Aborted(UpTo(P, k)), FALSE, T, m)
      BY <1>1, <1>2, AbortedExact
    <3> QED BY <2>1, <3>1, <3>2
  <2> QED BY <1>3, <1>5, <2>2, <2>3 DEF EndedPlan
<1> QED BY <1>4, <1>5

(* A client gets the words of its prompt, each once and in order, and one  *)
(* finish reason, which tells whether and why words are missing, before    *)
(* the usage that ends the stream.                                         *)
THEOREM ChatEchoExact ==
  ASSUME NEW CONSTANT W, IsJSON(W)
  PROVE  ChatSpec => []EchoExact
<1>1. ChatInductive => EchoExact
  <2> SUFFICES ASSUME ChatInductive PROVE EchoExact
    OBVIOUS
  <2>1. ASSUME NEW r \in Served
        PROVE  LET words  == EchoedTokens(FromUntokenized(answer[r].inputs))
                   stream == received[r]
                   given  == {i \in DOMAIN stream : stream[i].finish_reason # "none"}
               IN
               /\ IsPrefix(Echoed(r), words)
               /\ given = IF r \in DOMAIN request_map THEN {} ELSE {Len(stream) - 1}
               /\ \A i \in DOMAIN stream : (stream[i].usage # <<>>) = (i - 1 \in given)
               /\ \A i \in given :
                    CASE stream[i].finish_reason = "stop"   -> Echoed(r) = words
                      [] stream[i].finish_reason = "length" ->
                           Echoed(r) # words /\ Len(Echoed(r)) = Parsed(asked[r]).max_tokens
                      [] OTHER -> stream[i].finish_reason = "abort"
    <3>1. ExactStream(received[r], r \in DOMAIN request_map, WordsOf(answer[r]),
                      Parsed(asked[r]).max_tokens)
      BY ServedExact
    <3>2. Echoed(r) = EchoOf(received[r])
      BY DEF Echoed, EchoOf
    <3> QED BY <3>1, <3>2 DEF ExactStream, Given, WordsOf
  <2> QED BY <2>1 DEF EchoExact
<1> QED BY <1>1, ChatInvariance, PTL

(* Requests are served exactly when they can be: a template is loaded      *)
(* exactly if it is well-formed, and a request reaches the engine exactly  *)
(* if it is well-formed, without tool calls, chooses a tool it has and the *)
(* template can say every message, the assistant's answer included.        *)
THEOREM ChatServedExactly ==
  ASSUME NEW CONSTANT W, IsJSON(W)
  PROVE  ChatSpec => []ServedExactly
<1>1. ChatInductive => ServedExactly
  <2> SUFFICES ASSUME ChatInductive PROVE ServedExactly
    OBVIOUS
  <2>1. Loaded /\ AnswersMade
    BY DEF ChatInductive
  <2>2. template.outcome # "none" =>
          (template.outcome = "ok" <=> WellFormedTemplate(template.json))
    BY <2>1, LoadedType
  <2>3. \A r \in DOMAIN asked : r \in Served <=> Servable(asked[r])
    BY <2>1, MadeType
  <2>4. WellFormedTemplate(template.json) \in BOOLEAN /\ \A json : Servable(json) \in BOOLEAN
    BY DEF WellFormedTemplate, Servable
  <2> QED BY <2>2, <2>3, <2>4 DEF ServedExactly
<1> QED BY <1>1, ChatInvariance, PTL

(* Every request made has an outcome, no text and no image of its prompt   *)
(* is empty, and a request the engine holds still has its last output and the *)
(* usage to be sent.                                                       *)
THEOREM ChatTypeInvariance ==
  ASSUME NEW CONSTANT W, IsJSON(W)
  PROVE  ChatSpec => []ChatTypeOK
<1>1. ChatInductive => ChatTypeOK
  <2> SUFFICES ASSUME ChatInductive PROVE ChatTypeOK
    OBVIOUS
  <2>1. Loaded /\ AnswersMade
    BY DEF ChatInductive
  <2>2. template.outcome \in {"none"} \cup Outcomes
    BY <2>1, LoadedType
  <2>3. DOMAIN asked \subseteq RequestId /\ DOMAIN answer = DOMAIN asked
    BY <2>1 DEF AnswersMade
  <2>4. ASSUME NEW r \in DOMAIN answer
        PROVE  /\ answer[r].outcome \in Outcomes
               /\ \A i \in DOMAIN answer[r].inputs : IsData(answer[r].inputs[i])
    <3>1. answer[r].outcome \in Outcomes /\ answer[r].inputs \in Seq(Filled(W))
      BY <2>1, <2>3, MadeType DEF IsPrompt
    <3> DEFINE inputs == answer[r].inputs
    <3>2. ASSUME NEW i \in DOMAIN inputs PROVE IsData(inputs[i])
      <4> DEFINE datum == inputs[i]
      <4>1. datum \in Filled(W)
        BY <3>1
      <4> HIDE DEF datum
      <4>2. /\ datum.kind \in {"text", "token", "image"} /\ datum.ids \in Seq(W)
            /\ datum.kind # "token" => datum.ids # <<>>
        BY <4>1 DEF Filled
      <4>3. datum.kind # "token" => Len(datum.ids) > 0
        BY <4>2
      <4> QED BY <4>2, <4>3 DEF IsData, datum
    <3> QED BY <3>1, <3>2
  <2>5. DOMAIN request_map \subseteq Served
    BY DEF ChatInductive, StreamsKept
  <2>6. ASSUME NEW r \in DOMAIN request_map PROVE Len(request_map[r]) >= 2
    <3>1. r \in Served
      BY <2>5
    <3>2. r \in RequestId /\ Planned(Plan(r))
      BY <2>1, <3>1, ServedPlan
    <3>3. SendingPlan(Plan(r), received[r], request_map[r])
      BY <3>2, StreamAt
    <3> QED BY <3>2, <3>3, PlanStep
  <2> QED BY <2>2, <2>3, <2>4, <2>5, <2>6 DEF ChatTypeOK
<1> QED BY <1>1, ChatInvariance, PTL
=============================================================================
