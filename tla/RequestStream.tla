----------------------------- MODULE RequestStream -----------------------------
(***************************************************************************)
(* What every engine promises to those who read its stream: a request that *)
(* was accepted is sent tokens, then its final usage as it leaves, once,   *)
(* and nothing before it is accepted or after it has left.  A request may  *)
(* be refused, with its final usage only.                                  *)
(***************************************************************************)
EXTENDS Naturals, Sequences, SequencesExt

CONSTANT Request
VARIABLES live,       \* requests the engine has accepted and not ended
          delivered,  \* [Request -> Seq]: tokens sent
          usages      \* [Request -> Nat]: final usages sent

Init == /\ live = {}
        /\ delivered = [r \in Request |-> <<>>]
        /\ usages = [r \in Request |-> 0]

Idle(r)   == /\ (r \in live') = (r \in live)
             /\ delivered'[r] = delivered[r]
             /\ usages'[r] = usages[r]
Accept(r) == /\ r \notin live /\ r \in live'
             /\ usages[r] = 0 /\ usages'[r] = 0
             /\ delivered'[r] = delivered[r]
Refuse(r) == /\ r \notin live /\ r \notin live'
             /\ usages[r] = 0 /\ usages'[r] = 1
             /\ delivered'[r] = delivered[r]
Stream(r) == /\ r \in live /\ r \in live'
             /\ usages'[r] = usages[r]
             /\ IsStrictPrefix(delivered[r], delivered'[r])
Finish(r) == /\ r \in live /\ r \notin live'
             /\ usages'[r] = usages[r] + 1
             /\ IsPrefix(delivered[r], delivered'[r])

Next == \A r \in Request : Idle(r) \/ Accept(r) \/ Refuse(r) \/ Stream(r) \/ Finish(r)

Spec == Init /\ [][Next]_<<live, delivered, usages>>
=============================================================================
