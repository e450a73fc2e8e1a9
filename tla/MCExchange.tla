----------------------------- MODULE MCExchange -----------------------------
(* What rtjam-box and rtjam-sound exchange, for TLC: the configuration the *)
(* viewers see and the queue of parameters.  The two share no state, so    *)
(* one of them runs in a behaviour, which one being chosen at the start,   *)
(* and the other stays as it is initialized.                               *)
EXTENDS ConfigSync, ParamChannel

VARIABLE part   \* the part that runs

EachOwn == [v \in Viewer |-> v]

ExchangeInit == part \in {"config", "params"} /\ Init /\ ParamInit

ExchangeNext ==
  \/ part = "config" /\ Next /\ UNCHANGED <<paramVars, part>>
  \/ part = "params" /\ ParamNext /\ UNCHANGED <<vars, part>>

(* The fairness of FairSpec and of FairParamSpec, for the part that runs   *)
ExchangeSpec ==
  /\ ExchangeInit /\ [][ExchangeNext]_<<vars, paramVars, part>>
  /\ WF_vars(part = "config" /\ Engine) /\ WF_vars(part = "config" /\ Publish)
  /\ \A v \in Viewer : WF_vars(part = "config" /\ View(v))
  /\ \A b \in Browser : WF_paramVars(part = "params" /\ Flush(b))
  /\ \A s \in Sender : WF_paramVars(part = "params" /\ Send(s))
  /\ WF_paramVars(part = "params" /\ Receive)
  /\ WF_paramVars(part = "params" /\ Apply)
  /\ WF_paramVars(part = "params" /\ SoundRestarts)
=============================================================================
