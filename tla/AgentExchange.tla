---------------------------- MODULE AgentExchange ----------------------------
(***************************************************************************)
(* One request to the agent and its reply over the named pipe              *)
(* (src/src/agent_transport.py; the loop of AgentServer.serve and          *)
(* AgentClient.request in agent_command.py).  There is a single instance   *)
(* of the pipe, both ends poll it without blocking, and a peer may stall   *)
(* or leave at any point of the exchange.                                  *)
(*                                                                         *)
(* A frame stands for its kind; nonces and proofs are right.  What the     *)
(* operating system does with a pipe in nonblocking mode is part of the    *)
(* model: the first ConnectNamedPipe after a disconnection succeeds with   *)
(* nobody there, and one on a pipe whose client has left fails until it is *)
(* disconnected.                                                           *)
(***************************************************************************)
EXTENDS Naturals, Sequences

CONSTANTS
    Calls,  \* clients, each making one request
    Slow,   \* ... those that may stall or leave at any point
    NoCall

ASSUME ExchangeAssumption == Slow \subseteq Calls /\ NoCall \notin Calls

VARIABLES
    pipe,      \* "listening", "connected", "closing" or "disconnected"
    peer,      \* the client at the other end, or the last one
    toServer,  \* frames not yet read
    toClient,
    server,    \* what the serving loop waits for
    client     \* ... and each client

exchangeVars == <<pipe, peer, toServer, toClient, server, client>>

ExchangeInit ==
    /\ pipe = "listening" /\ peer = NoCall
    /\ toServer = <<>> /\ toClient = <<>>
    /\ server = "polling" /\ client = [c \in Calls |-> "idle"]

Moves(c, state) == client' = [client EXCEPT ![c] = state]
Serving == {"challenge", "proof", "proven", "request", "reply", "ack"}
Waiting == {"challenge", "proof", "reply"}

-----------------------------------------------------------------------------
(* The server *)

\* PipeListener.accept: no client yet, or one that has left, is "no".
Accept ==
    /\ server = "polling" /\ pipe \in {"connected", "disconnected"}
    /\ pipe' = IF pipe = "disconnected" THEN "listening" ELSE pipe
    /\ server' = "challenge"
    /\ UNCHANGED <<peer, toServer, toClient, client>>

\* Mutation: what the last client left unread stays in the pipe.
Discards_Nothing == UNCHANGED <<toServer, toClient>>
Discards == toServer' = <<>> /\ toClient' = <<>>

Disconnects ==
    /\ pipe' = "disconnected" /\ peer' = NoCall /\ server' = "polling"
    /\ Discards

WritesFrame(frame, next) ==
    /\ pipe = "connected"
    /\ toClient' = Append(toClient, frame) /\ server' = next
    /\ UNCHANGED <<pipe, peer, toServer, client>>

\* A frame already written can be read after its writer has left; one out
\* of place ends the exchange.
Receives(frame, next) ==
    /\ toServer # <<>>
    /\ IF Head(toServer) = frame
       THEN server' = next /\ toServer' = Tail(toServer) /\ UNCHANGED <<pipe, peer, toClient>>
       ELSE Disconnects
    /\ UNCHANGED client

\* The reply is not complete until it is acknowledged.
Acknowledged ==
    /\ server = "ack" /\ toServer # <<>>
    /\ Disconnects
    /\ UNCHANGED client

\* The server waits three seconds for each frame, long enough for a client
\* that works.  Its challenge waits as long for somebody to come, and may
\* then give up on a client that just did.
GivesUp ==
    /\ server \in Serving
    /\ (pipe = "connected" /\ server # "challenge") => peer \in Slow
    /\ Disconnects
    /\ UNCHANGED client

ServerStep ==
    \/ Accept
    \/ server = "challenge" /\ WritesFrame("challenge", "proof")
    \/ server = "proof" /\ Receives("proof", "proven")
    \/ server = "proven" /\ WritesFrame("proof", "request")
    \/ server = "request" /\ Receives("request", "reply")
    \/ server = "reply" /\ WritesFrame("reply", "ack")
    \/ Acknowledged

-----------------------------------------------------------------------------
(* A client *)

\* A busy pipe is tried again every ten milliseconds.
Connect(c) ==
    /\ client[c] = "idle" /\ pipe = "listening"
    /\ pipe' = "connected" /\ peer' = c /\ Moves(c, "challenge")
    /\ UNCHANGED <<toServer, toClient, server>>

Answers(c, frame, answer, next) ==
    /\ client[c] = frame /\ peer = c /\ toClient # <<>>
    /\ toClient' = Tail(toClient)
    /\ IF Head(toClient) = frame
       THEN toServer' = Append(toServer, answer) /\ Moves(c, next) /\ pipe' = (IF next = "told" THEN "closing" ELSE pipe)
       ELSE pipe' = "closing" /\ Moves(c, "failed") /\ UNCHANGED toServer
    /\ UNCHANGED <<peer, server>>

\* The pipe was disconnected under the client.
Broken(c) ==
    /\ client[c] \in Waiting /\ peer # c
    /\ Moves(c, IF client[c] = "challenge" THEN "refused" ELSE "failed")
    /\ UNCHANGED <<pipe, peer, toServer, toClient, server>>

\* A deadline of its own, Ctrl+C, or the end of the process.
Leave(c) ==
    /\ c \in Slow /\ client[c] \in Waiting /\ peer = c
    /\ pipe' = "closing" /\ toClient' = <<>> /\ Moves(c, "failed")
    /\ UNCHANGED <<peer, toServer, server>>

ClientStep(c) ==
    \/ Connect(c) \/ Broken(c)
    \/ Answers(c, "challenge", "proof", "proof")
    \/ Answers(c, "proof", "request", "reply")
    \/ Answers(c, "reply", "ack", "told")

ExchangeNext ==
    \/ ServerStep \/ GivesUp
    \/ \E c \in Calls : ClientStep(c) \/ Leave(c)

\* A client looks for the pipe every ten milliseconds, and a pipe that
\* listens does so for up to three seconds.
ExchangeFairness ==
    /\ WF_exchangeVars(ServerStep) /\ WF_exchangeVars(GivesUp)
    /\ \A c \in Calls \ Slow : WF_exchangeVars(ClientStep(c)) /\ SF_exchangeVars(Connect(c))

ExchangeSpec == ExchangeInit /\ [][ExchangeNext]_exchangeVars /\ ExchangeFairness

-----------------------------------------------------------------------------
\* The very first client left before the server looked at the pipe.
Wedged == server = "polling" /\ pipe = "closing"

(* A client that works is told its reply in the end, whoever stalls with   *)
(* the pipe open, leaves in the middle or vanishes after its reply: the    *)
(* server takes every other peer off the pipe (Pipe, AgentServer.serve).   *)
(* It may be refused only before it has sent anything; and the one         *)
(* endpoint that never serves again is the one Wedged describes.           *)
PromptIsAnswered ==
    \A c \in Calls \ Slow : client[c] = "idle" ~> (client[c] \in {"told", "refused"} \/ Wedged)
=============================================================================
