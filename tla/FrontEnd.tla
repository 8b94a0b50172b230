------------------------------- MODULE FrontEnd --------------------------------
(***************************************************************************)
(* Engine::Create makes the echo engine for the model library              *)
(* "mock://echo" and the real one for others, in disaggregation mode if    *)
(* the model was compiled for it.  Whichever it is, the requests of the    *)
(* front end are served by it alone.                                       *)
(***************************************************************************)
EXTENDS DisaggEngine, ChatService

VARIABLE engine

frontEndVars == <<engine, chatVars, vars>>

(* No request is sent to both.                                             *)
ASSUME ClientsApart == RequestId \cap Request = {}

FrontEndInit == engine \in {"mock://echo", "disaggregation"} /\ ChatInit /\ Init
FrontEndNext ==
  \/ engine = "mock://echo" /\ ChatNext /\ UNCHANGED <<engine, vars>>
  \/ engine = "disaggregation" /\ Next /\ UNCHANGED <<engine, chatVars>>
EchoStep == engine = "mock://echo" /\ ChatStep /\ UNCHANGED <<engine, vars>>

(* The background loop steps whichever engine there is.                    *)
FrontEndSpec == FrontEndInit /\ [][FrontEndNext]_frontEndVars /\ WF_frontEndVars(EchoStep) /\ Fairness

(* The types of both engines' variables and of the prompts, with what Step *)
(* of the echo engine checks: a request it holds still has two outputs     *)
(* (engine.cc, ICHECK_GE).                                                 *)
FrontEndTypeOK == ChatTypeOK /\ TypeOK

(* Both engines implement RequestStream for their clients, through refused *)
(* requests, aborts, preemptions, resets, hand-overs and limits: tokens    *)
(* only while a request is live, and its final usage once, as it leaves    *)
(* (StreamBackErrorImpl: "always stream back final usage").                *)
Stream == INSTANCE RequestStream WITH
  Request   <- RequestId \cup Request,
  live      <- DOMAIN request_map \cup DOMAIN entry,
  delivered <- [r \in RequestId \cup Request |->
                  IF r \in RequestId THEN Echoed(r) ELSE streamed[r]],
  usages    <- [r \in RequestId \cup Request |->
                  IF r \in RequestId
                  THEN Cardinality({i \in DOMAIN received[r] : received[r][i].usage # <<>>})
                  ELSE Len(ended[r])]
EngineStream == Stream!Spec

(* Every request an engine holds ends with one final usage, while the      *)
(* engine is stepped; one that awaits K/V from another engine waits for    *)
(* its client (no scheduling starves a request behind others of its own    *)
(* or another kind).                                                       *)
EveryRequestEnds ==
  /\ \A r \in RequestId : r \in DOMAIN request_map ~> r \notin DOMAIN request_map
  /\ \A r \in Request :
       r \in DOMAIN entry /\ entry[r].kind # "prepare_receive" ~> Len(ended[r]) = 1
=============================================================================
