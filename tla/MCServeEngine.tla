----------------------------- MODULE MCServeEngine -----------------------------
(***************************************************************************)
(* Instances of ServeEngine for TLC: text requests t1, t2, t3 and external *)
(* ones e1, e2, of which each configuration submits some, with five        *)
(* choices of sizes.                                                       *)
(***************************************************************************)
EXTENDS ServeEngine

CONSTANTS t1, t2, t3, e1, e2

External == {e1, e2} \cap Request

(* Around a page of 8 tokens and a prefill chunk of 6: t2 is chunked       *)
(* behind t1, and two requests that grow past a page fill the cache.       *)
SmallPrompt == [r \in Request |-> CASE r = t1 -> 4 [] r = t2 -> 6 [] r = t3 -> 1 [] OTHER -> 5]
SmallSeeds  == [r \in Request |-> IF r \in External THEN 2 ELSE 0]
SmallMaxTokens ==
  [r \in Request |-> CASE r = t1 -> 7 [] r = e1 -> 5 [] r = t3 -> 1 [] OTHER -> NoLimit]

(* With pages of 4 and a capacity of 32, that is 8 pages and a spare one:  *)
(* two text requests of the same length reach a page boundary together     *)
(* when one page is left, three would fit at once, and the prefix and the  *)
(* seeds of e1 take all 9 pages.                                           *)
TightPrompt    == [r \in Request |-> CASE r = t3 -> 1 [] r \in External -> 29 [] OTHER -> 2]
TightSeeds     == SmallSeeds
TightMaxTokens == [r \in Request |-> IF r = t3 THEN 2 ELSE 16]

(* More seed tokens than a prefill chunk takes.                            *)
LongPrompt    == SmallPrompt
LongSeeds     == [r \in Request |-> IF r \in External THEN 7 ELSE 0]
LongMaxTokens == SmallMaxTokens

(* With pages of 32: a replay of four pages and a token behind a prefix of *)
(* one page, and one-token prompts.                                        *)
ReplayPrompt    == [r \in Request |-> IF r \in External THEN 32 ELSE 1]
ReplaySeeds     == [r \in Request |-> IF r \in External THEN 129 ELSE 0]
ReplayMaxTokens == [r \in Request |-> 4]

(* t1 has a legal prompt within Watermark of the capacity.                 *)
NearPrompt    == [r \in Request |-> IF r = t1 THEN 28 ELSE 2]
NearSeeds     == [r \in Request |-> 0]
NearMaxTokens == [r \in Request |-> 2]
=============================================================================
