---------------------------- MODULE SessionStore ----------------------------
(***************************************************************************)
(* The store of conversations, used by the chat handlers, the channels and *)
(* the voice connection: what a load and a save do.  A conversation is the *)
(* sequence of the names of its turns.                                     *)
(***************************************************************************)
EXTENDS Sequences

CONSTANTS
    Sids,    \* ids of sessions
    Turns,   \* names of turns
    None

Talks == Seq(Turns)

VARIABLES
    saved,   \* the conversation under each id
    stale    \* ids of sessions older than session_max_age_hours

StoreTypeOK ==
    /\ saved \in [Sids -> Talks \union {None}]
    /\ stale \subseteq Sids

StoreInit ==
    /\ saved = [s \in Sids |-> None]
    /\ stale = {}

Listed == {s \in Sids : saved[s] # None}

(* What a load gives the agent: nothing when there is no session or it is  *)
(* too old.                                                                *)
Loaded(s) == IF saved[s] = None \/ s \in stale THEN <<>> ELSE saved[s]

Save(s, talk) ==
    /\ saved' = [saved EXCEPT ![s] = talk]
    /\ stale' = stale \ {s}

(* The result of a save is only logged. *)
SaveOrNot(s, talk) == Save(s, talk) \/ UNCHANGED <<saved, stale>>

Forgotten(s) ==
    /\ saved' = [saved EXCEPT ![s] = None]
    /\ stale' = stale \ {s}
=============================================================================
