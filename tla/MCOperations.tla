---------------------------- MODULE MCOperations ----------------------------
(***************************************************************************)
(* What surrounds a session, side by side: the agent's files and its pipe, *)
(* a checkpoint, a workload and its captured output, and the keyboard.     *)
(* They share no state: `part` says which of them a behaviour is of, and   *)
(* the others rest.                                                        *)
(***************************************************************************)
EXTENDS AgentRemoval, AgentExchange, Checkpoint, Workload, TargetLog, Keyboard

CONSTANTS
    a1, a2, r1, r2, k1, k2, c1, c2, c3, c4, w1, w2

VARIABLE part

MCAgents == {a1, a2}
MCRemovers == {r1, r2}
MCKids == {k1, k2}
Prompt == {c3, c4}

\* Two secrets in lines of their own and split by a line end, a line and a
\* file that are too long, and a last line with no end.
MCOutputs ==
    {<<"x", "s1", "s2", "nl", "x", "nl", "x">>, <<"s1", "nl", "s2", "s1", "s2", "x">>,
     <<"x", "x", "x", "x", "s1", "s2", "nl", "x", "nl", "x">>, <<"x", "nl", "s1", "s2", "nl", "s1", "s2", "nl">>}

MCCalls == Prompt \cup {c1, c2}
MCSlow == {c1, c2}
MCWriters == {w1, w2}

operationsVars == <<part, removalVars, exchangeVars, checkpointVars, workloadVars, targetLogVars,
                    keyboardVars>>

OperationsInit ==
    /\ part \in {"removal", "exchange", "checkpoint", "workload", "log", "keyboard"}
    /\ RemovalInit /\ ExchangeInit /\ CheckpointInit /\ WorkloadInit
    /\ TargetLogInit /\ KeyboardInit
    /\ part # "workload" => waits /\ evidence = 0
    /\ part # "log" => output = CHOOSE o \in MCOutputs : TRUE
    /\ part # "keyboard" => windows

Only(p) ==
    /\ part = p /\ UNCHANGED part
    /\ p # "removal" => UNCHANGED removalVars
    /\ p # "exchange" => UNCHANGED exchangeVars
    /\ p # "checkpoint" => UNCHANGED checkpointVars
    /\ p # "workload" => UNCHANGED workloadVars
    /\ p # "log" => UNCHANGED targetLogVars
    /\ p # "keyboard" => UNCHANGED keyboardVars

OperationsNext ==
    \/ Only("removal") /\ RemovalNext
    \/ Only("exchange") /\ ExchangeNext
    \/ Only("checkpoint") /\ CheckpointNext
    \/ Only("workload") /\ WorkloadNext
    \/ Only("log") /\ TargetLogNext
    \/ Only("keyboard") /\ KeyboardNext

\* The fairness of each machine, while it is the one that runs.
OperationsFairness ==
    /\ \A a \in Agents : WF_removalVars(part = "removal" /\ ~MayStart /\ at[a] = "fenced" /\ AgentEnds(a))
    /\ \A r \in Removers :
           /\ WF_removalVars(part = "removal" /\ Works(r)) /\ WF_removalVars(part = "removal" /\ Ends(r))
           /\ SF_removalVars(part = "removal" /\ Begin(r, TRUE))
    /\ WF_exchangeVars(part = "exchange" /\ ServerStep)
    /\ WF_exchangeVars(part = "exchange" /\ GivesUp)
    /\ \A c \in Prompt :
           /\ WF_exchangeVars(part = "exchange" /\ ClientStep(c))
           /\ SF_exchangeVars(part = "exchange" /\ Connect(c))
    /\ WF_targetLogVars(part = "log" /\ LogReader)

OperationsSpec == OperationsInit /\ [][OperationsNext]_operationsVars /\ OperationsFairness

-----------------------------------------------------------------------------
(* A client that works is told its reply (AgentExchange.PromptIsAnswered). *)
ReplyArrives == part = "exchange" => PromptIsAnswered
=============================================================================
