----------------------------- MODULE MCControl -----------------------------
(***************************************************************************)
(* A program under control, on Windows: the manager of its processes, the  *)
(* controller of the API with the callers that command it, and the         *)
(* dispatch of events to their callbacks.  They share no state: a command  *)
(* is one step of the controller, and Subscription takes an offered event  *)
(* at any time.  `part` says which of them a behaviour is of.              *)
(***************************************************************************)
EXTENDS MCProcessControl, ApiSession, Subscription

CONSTANTS c1, c2, s1, s2, w1, w2

VARIABLE part

TwoCmds == {c1, c2}
OneSub == {s1}
TwoSubscriptions == {s1, s2}
TwoWorkers == {w1, w2}

ControlInit == part \in {"processes", "commands", "events"} /\ Init /\ ApiInit /\ DispatchInit

Processes == part = "processes" /\ Next /\ UNCHANGED <<part, apiVars, dispatchVars>>
Commands == part = "commands" /\ ApiNext /\ UNCHANGED <<part, vars, dispatchVars>>
Events == part = "events" /\ DispatchNext /\ UNCHANGED <<part, vars, apiVars>>

\* The fairness of the machines of the API, while it is the one that runs.
ControlFairness ==
    /\ WF_apiVars(part = "commands" /\ Controller)
    /\ \A c \in Cmds : WF_apiVars(part = "commands" /\ CallerWork(c))
    /\ \A w \in Workers :
           /\ WF_dispatchVars(part = "events" /\ Take(w))
           /\ WF_dispatchVars(part = "events" /\ SkipTurn(w))
           /\ WF_dispatchVars(part = "events" /\ BeginCall(w))
           /\ WF_dispatchVars(part = "events" /\ holds[w] \notin Hanging /\ EndCall(w))
           /\ WF_dispatchVars(part = "events" /\ at[w] = "raised" /\ EndCall(w))

ControlSpec ==
    /\ ControlInit /\ [][Processes \/ Commands \/ Events]_<<part, vars, apiVars, dispatchVars>>
    /\ ControlFairness

-----------------------------------------------------------------------------
(* Every command that was accepted is answered, a session that is          *)
(* cancelled ends, and a callback that never returns stops no other        *)
(* subscription; and what a subscriber is served loses events only by      *)
(* count, and none twice or out of order (see                              *)
(* ApiSession.EveryCommandAnswered and CancelEnds,                         *)
(* Subscription.OthersDrain and ImplementsLossyQueue).                     *)
EverybodyIsServed ==
    /\ ImplementsLossyQueue
    /\ part = "commands" => EveryCommandAnswered
    /\ part = "commands" => CancelEnds
    /\ part = "events" => OthersDrain
=============================================================================
