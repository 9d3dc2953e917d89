------------------------------ MODULE Sessions ------------------------------
(***************************************************************************)
(* Conversations that are kept between requests: the session store and the *)
(* chat handlers of aivyx-server (routes/chat.rs, routes/sessions.rs).     *)
(*                                                                         *)
(* A handler makes an agent, gives it the conversation the client names,   *)
(* runs one turn and saves the conversation.  The turn is awaited, so the  *)
(* steps of requests interleave between the load and the save.  The agent  *)
(* has an id of its own and its conversation is saved under that id: the   *)
(* id of a request's session is the request.  A turn is named by the       *)
(* request that asks for it; projects, memory and prices are left out.     *)
(***************************************************************************)
EXTENDS SessionStore

CONSTANTS
    Requests,   \* chat requests, each with a fresh id for its session
    Users       \* people who write over a channel, each with a session there

ChatSteps == {"idle", "prepare", "create", "restore", "turn", "done", "error", "cut"}

ASSUME RequestAssumption == Requests \subseteq Turns
ASSUME SidsAssumption == Sids = Requests \union Users
ASSUME NoneAssumption == None \notin Sids

VARIABLES
    step,    \* where each request is
    kind,    \* the handler that serves it
    resumed, \* the session it names, if any
    heard    \* the conversation of its agent

chats == <<step, kind, resumed, heard>>

SessionsTypeOK ==
    /\ StoreTypeOK
    /\ step \in [Requests -> ChatSteps]
    /\ kind \in [Requests -> {"chat", "stream", "audio", "image"}]
    /\ resumed \in [Requests -> Sids \union {None}]
    /\ heard \in [Requests -> Talks]

SessionsInit ==
    /\ StoreInit
    /\ step = [r \in Requests |-> "idle"]
    /\ kind = [r \in Requests |-> "chat"]
    /\ resumed = [r \in Requests |-> None]
    /\ heard = [r \in Requests |-> <<>>]

-----------------------------------------------------------------------------
(* The session store *)

DeleteSession ==
    /\ \E s \in Listed : Forgotten(s)
    /\ UNCHANGED chats

GrowsOld ==
    /\ \E s \in Listed \ stale : stale' = stale \union {s}
    /\ UNCHANGED <<saved, chats>>

-----------------------------------------------------------------------------
(* One turn of a conversation *)

Goes(r, where) == step' = [step EXCEPT ![r] = where]

(* The request is over, and with it what its handler holds. *)
Ends(r, how) ==
    /\ Goes(r, how)
    /\ kind' = [kind EXCEPT ![r] = "chat"]
    /\ resumed' = [resumed EXCEPT ![r] = None]
    /\ heard' = [heard EXCEPT ![r] = <<>>]

Fails(r) == Ends(r, "error") /\ UNCHANGED <<saved, stale>>

(* A client asks for a turn, of a session it was told of or of a new one.  *)
Ask(r, how) ==
    /\ step[r] = "idle"
    /\ kind' = [kind EXCEPT ![r] = how]
    /\ \E s \in Listed \union {None} : resumed' = [resumed EXCEPT ![r] = s]
    /\ Goes(r, IF how \in {"audio", "image"} THEN "prepare" ELSE "create")
    /\ UNCHANGED <<saved, stale, heard>>

(* There is no such agent, or its tier needs a person to approve its tools. *)
CreateAgent(r) ==
    /\ step[r] = "create"
    /\ \/ /\ Goes(r, "restore")
          /\ UNCHANGED <<saved, stale, kind, resumed, heard>>
       \/ Fails(r)

(* A session that cannot be read fails the request. *)
Restore(r) ==
    /\ step[r] = "restore"
    /\ \/ /\ heard' = [heard EXCEPT ![r] = IF resumed[r] = None THEN <<>>
                                           ELSE Loaded(resumed[r])]
          /\ Goes(r, "turn")
          /\ UNCHANGED <<saved, stale, kind, resumed>>
       \/ resumed[r] # None /\ Fails(r)

(* The turn ends and its conversation is saved under the agent's own id,   *)
(* with no await between.  A turn that fails saves nothing.                *)
RunTurn(r) ==
    /\ step[r] = "turn"
    /\ \/ SaveOrNot(r, Append(heard[r], r)) /\ Ends(r, "done")
       \/ Fails(r)

(* Speech is not configured, or the audio cannot be transcribed; an upload *)
(* lacks its message or its images, or an image has another type.          *)
Prepare(r) ==
    /\ step[r] = "prepare"
    /\ \/ /\ Goes(r, "create")
          /\ UNCHANGED <<saved, stale, kind, resumed, heard>>
       \/ Fails(r)

(* The client goes away and the handler is dropped where it waits. *)
CutOff(r) ==
    /\ step[r] \in {"prepare", "create", "restore", "turn"}
    /\ Ends(r, "cut")
    /\ UNCHANGED <<saved, stale>>

-----------------------------------------------------------------------------
(* The handlers *)

Chat(r) ==
    \/ Ask(r, "chat")
    \/ kind[r] = "chat" /\ (CreateAgent(r) \/ Restore(r) \/ RunTurn(r) \/ CutOff(r))

AudioChat(r) ==
    \/ Ask(r, "audio")
    \/ /\ kind[r] = "audio"
       /\ Prepare(r) \/ CreateAgent(r) \/ Restore(r) \/ RunTurn(r) \/ CutOff(r)

ImageChat(r) ==
    \/ Ask(r, "image")
    \/ /\ kind[r] = "image"
       /\ Prepare(r) \/ CreateAgent(r) \/ Restore(r) \/ RunTurn(r) \/ CutOff(r)

(* The turn runs in a task of its own: once it has begun, a client that    *)
(* goes away only misses the events.                                       *)
StreamChat(r) ==
    \/ Ask(r, "stream")
    \/ /\ kind[r] = "stream"
       /\ \/ CreateAgent(r) \/ Restore(r) \/ RunTurn(r)
          \/ step[r] # "turn" /\ CutOff(r)

(* The server stops. *)
ChatsCut ==
    /\ step' = [r \in Requests |-> IF step[r] \in {"idle", "done", "error"}
                                   THEN step[r] ELSE "cut"]
    /\ kind' = [r \in Requests |-> "chat"]
    /\ resumed' = [r \in Requests |-> None]
    /\ heard' = [r \in Requests |-> <<>>]

ChatNext ==
    \/ \E r \in Requests : Chat(r) \/ AudioChat(r) \/ ImageChat(r) \/ StreamChat(r)
    \/ DeleteSession
    \/ GrowsOld
=============================================================================
