--------------------------- MODULE MCDelegation ---------------------------
(***************************************************************************)
(* Instances of Delegation for TLC.                                        *)
(***************************************************************************)
EXTENDS Delegation, TLC

CONSTANTS d1, d2, coder, critic

Query(agent) ==
    [tool |-> "query", async |-> FALSE, agent |-> agent, fallback |-> None,
     retries |-> 0]

Review(agent) == [Query(agent) EXCEPT !.tool = "verify"]

(* In the background with a fallback, or in the foreground with a retry. *)
Background(agent, fallback) ==
    [tool |-> "delegate", async |-> TRUE, agent |-> agent,
     fallback |-> fallback, retries |-> 0]

Foreground(agent) ==
    [tool |-> "delegate", async |-> FALSE, agent |-> agent,
     fallback |-> None, retries |-> MaxRetries]

AllRequests ==
    {Background(coder, critic), Foreground(coder), Query(critic), Review(coder)}
=============================================================================
