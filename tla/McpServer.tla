----------------------------- MODULE McpServer -----------------------------
(***************************************************************************)
(* What the MCP control promises to the clients, without saying how: there *)
(* is one server at a time, it asks for one token from its start to its    *)
(* end, and when it is told to stop it finishes its requests before the    *)
(* next one is there.                                                      *)
(***************************************************************************)
CONSTANT Token   \* the tokens a server may ask for

VARIABLES
    serving,     \* the token of the server that takes requests, if there is one
    finishing    \* that of the server that was told to stop

serverVars == <<serving, finishing>>

ServerInit == serving = {} /\ finishing = {}

Start(k) ==
    /\ serving = {} /\ finishing = {}
    /\ serving' = {k}
    /\ UNCHANGED finishing

Cancel ==
    /\ serving # {} /\ finishing = {}
    /\ finishing' = serving
    /\ serving' = {}

Finish == finishing # {} /\ finishing' = {} /\ UNCHANGED serving

\* The task ends by itself.
Die == serving # {} /\ serving' = {} /\ UNCHANGED finishing

ServerNext == Cancel \/ Finish \/ Die \/ \E k \in Token : Start(k)

ServerSpec == ServerInit /\ [][ServerNext]_serverVars

\* With the promise that a server that was told to stop stops.
FairServerSpec == ServerSpec /\ WF_serverVars(Finish)
=============================================================================
