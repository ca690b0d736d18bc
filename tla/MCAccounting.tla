---------------------------- MODULE MCAccounting ----------------------------
(***************************************************************************)
(* What accounts for something scarce: the kernel, for the cash and the    *)
(* shares of the agents, the model calls, for the money of the budget,     *)
(* with one call's requests and the streams of their answers, and the      *)
(* prepared path, which is to pay for nothing twice.  They share no state, *)
(* so a behaviour exercises one of them.                                   *)
(***************************************************************************)
EXTENDS MarketKernel, ModelCalls, ProviderStream, GatewayCalls, PreparedPath, TLC

CONSTANTS t1, m1, sys, c1, c2, k1, k2, fits, misfit, glm, gpt

\* a cent is two ticks, so that both the notional and the fee are rounded
WithMaker == {t1, m1, sys}
Cash == [a \in Agents |-> CASE a = sys -> 2 [] a = m1 -> 4 [] OTHER -> 3]
Long == [a \in Agents |-> CASE a = sys -> 2 [] a = m1 -> 1 [] OTHER -> 0]
Limits == [a \in Agents |-> CASE a = sys -> 4 [] a = m1 -> 2 [] OTHER -> 1]
AllIds == 1..MaxOrders

\* the calls are interchangeable
CallSymmetry == Permutations(Requests)

VARIABLE part

\* the stream of a behaviour that reads none
NoStream ==
    /\ stream = [dialect |-> "google", events |-> <<"text", "error">>, delimiter |-> <<LF>>,
                 split |-> FALSE]
    /\ received = 0 /\ pending = <<>> /\ reader = NewReader /\ reply = Unanswered

\* the call of a behaviour that makes none
NoRequest ==
    /\ asked = [provider |-> "zhipu", workflow |-> "guided", stored |-> "none"]
    /\ call = Unposted /\ wire = NewWire /\ plan = NotPlanned
    /\ receipt = "none" /\ told = NotTold

AccountingInit ==
    /\ part \in {"market", "calls", "gateway", "stream", "prepared"}
    /\ Init /\ ModelInit /\ PreparedInit
    /\ IF part = "stream" THEN StreamInit ELSE NoStream
    /\ IF part = "gateway" THEN GatewayInit ELSE NoRequest
    /\ route = glm  \* the routes are interchangeable

Market == part = "market" /\ Next
    /\ UNCHANGED <<part, modelVars, gatewayVars, streamVars, preparedVars>>
Calls == part = "calls" /\ ModelNext
    /\ UNCHANGED <<part, vars, gatewayVars, streamVars, preparedVars>>
Gateway == part = "gateway" /\ GatewayNext
    /\ UNCHANGED <<part, vars, modelVars, streamVars, preparedVars>>
Stream == part = "stream" /\ StreamNext
    /\ UNCHANGED <<part, vars, modelVars, gatewayVars, preparedVars>>
Prepared == part = "prepared" /\ PreparedNext
    /\ UNCHANGED <<part, vars, modelVars, gatewayVars, streamVars>>

AccountingNext == Market \/ Calls \/ Gateway \/ Stream \/ Prepared

AccountingSpec ==
    AccountingInit /\ [][AccountingNext]_<<part, vars, modelVars, gatewayVars, streamVars, preparedVars>>

\* Every value of the kernel, the calls, the streams and the prepared path has its type, and the
\* kernel raises no error but those its callers expect (MarketSimulation,
\* CognitionService, prepared_guided_path_cli.py).
AccountingTypeOK ==
    OnlyKnownErrors /\ ModelTypeOK /\ GatewayTypeOK /\ StreamTypeOK /\ PreparedTypeOK

\* What is paid for is used and told: an answer of a provider is put together whole or not
\* at all, wherever the network cuts it (ProviderStreamAccumulator); a call tells what went
\* over its wire, and sends nothing again without a reason (the gateways); and a step of the
\* prepared path starts no second worker on an experiment, grants no run that was never
\* interpreted, and pays for nothing that is already there (prepared_guided_path_cli.py).
StreamsAndPathAreSound ==
    [][StreamIsWhole' /\ GatewayStep /\ PathStep]_<<streamVars, gatewayVars, preparedVars>>
=============================================================================
