------------------------------ MODULE MCLiveness ------------------------------
(***************************************************************************)
(* The parts of the server that must get work done whatever its clients    *)
(* and providers do: the experiment service with its worker, the flights   *)
(* of the paid requests, and the model calls.  They share no state, so a   *)
(* behaviour exercises one of them.                                        *)
(***************************************************************************)
EXTENDS ExperimentLifecycle, SingleFlight, ModelCalls, TLC

CONSTANTS e1, e2, u1, s1, p1, p2, k1, k2, k3, h1, c1, c2, d1, fits

OneOwner == [e \in {e1, e2} |-> u1]
StopAtOnce == s1 :> 1
\* k1 and k2 belong to one account, k3 to another
TwoAccounts == (k1 :> p1 @@ k2 :> p1 @@ k3 :> p2)

VARIABLE part
serverVars == <<part, vars, flightVars, modelVars>>

Experimenting(A) == part = "experiments" /\ A /\ UNCHANGED <<part, flightVars, modelVars>>
Flying(A) == part = "flights" /\ A /\ UNCHANGED <<part, vars, modelVars>>
Calling(A) == part = "calls" /\ A /\ UNCHANGED <<part, vars, flightVars>>

ServerInit == part \in {"experiments", "flights", "calls"} /\ Init /\ FlightInit /\ ModelInit
ServerNext == Experimenting(Next) \/ Flying(FlightNext) \/ Calling(ModelNext)

\* Fairness, FlightFairness and that of ModelSpec, each in the behaviours of its part
ServerFairness ==
    /\ WF_serverVars(Experimenting(WorkerStep)) /\ WF_serverVars(Experimenting(HandlerStep))
    /\ WF_serverVars(Experimenting(~accepting /\ Restart))
    /\ \A c \in Callers : WF_serverVars(Flying(ResumeCaller(c)))
    /\ \A t \in Tasks :
        /\ WF_serverVars(Flying(StartCall(t)))
        /\ WF_serverVars(Flying(EndCall(t)))
        /\ WF_serverVars(Flying(RunCleanup(t)))
    /\ \A c \in Requests : WF_serverVars(Calling(Proceed(c)))

ServerSpec == ServerInit /\ [][ServerNext]_serverVars /\ ServerFairness

\* The worker gets to every run it is handed and a cancelled run stops
\* (_workerLoop, _runExperiment).
RunsSettle == ActiveRunSettles /\ CancelStopsRun

\* Every flight lands and leaves its table, and a caller that stays is answered
\* whoever else disconnects (_runForPrincipal, _scheduleCleanup, execute).
FlightsLand == FlightsDrain /\ StayingCallerAnswered
=============================================================================
