---------------------------- MODULE WsConnection ----------------------------
(***************************************************************************)
(* One WebSocket connection (aivyx-server/src/routes/ws.rs): the reader    *)
(* loop of handle_connection, the writer task, and the agent turns it      *)
(* spawns, each with a task that forwards its tokens.  They share the      *)
(* channel of outgoing messages, the channel of approval answers and the   *)
(* cancellation tokens.                                                    *)
(*                                                                         *)
(* The agent that runs a turn is not in this repository.  While it runs it *)
(* may emit tokens, ask for the approval of a tool, and return; once its   *)
(* token is cancelled it may also give up the answer it waits for.  Texts, *)
(* images, projects and the audit log are left out, and so is the session  *)
(* saved after a response, under the new id of the turn's agent: no other  *)
(* step of the connection reads it.                                        *)
(***************************************************************************)
EXTENDS Integers, Sequences

CONSTANTS
    MaxTurns,     \* bound on the messages the client sends
    MaxRequests,  \* bound on the approvals one turn asks for
    MaxTokens,    \* bound on the tokens one turn emits
    OutCap,       \* capacity of the channel of outgoing messages
    AnswerCap,    \* capacity of the channel of approval answers
    WireCap       \* bound on the frames in flight from the client

ASSUME BoundsAssumption ==
    /\ MaxTurns \in Nat /\ MaxRequests \in Nat /\ MaxTokens \in Nat
    /\ OutCap \in Nat \ {0} /\ AnswerCap \in Nat \ {0} /\ WireCap \in Nat \ {0}

Turns == 1 .. MaxTurns

(* A request is named by its turn and its number in the turn, an answer by *)
(* the request it is meant for.                                            *)
RequestIds == Turns \X (1 .. MaxRequests)

ReaderPCs == {"auth", "read", "closing", "rejected", "done"}

TurnPCs == {"none", "run", "lock", "receive", "report", "ended"}

(* A frame of the client; to is the request an answer is meant for, if it  *)
(* is one the client was shown.                                            *)
NoRequest == <<0, 0>>
AnswerIds == RequestIds \union {NoRequest}
Frame(kind) == [kind |-> kind, to |-> NoRequest]
Answer(r) == [kind |-> "answer", to |-> r]
FrameKinds == {"message", "cancel", "other", "answer"}

(* A message of the server; turn 0 stands for the reader itself, number is *)
(* the number of a request in its turn.                                    *)
Msg(kind, t) == [kind |-> kind, turn |-> t, number |-> 0]
Token(t) == Msg("token", t)
Request(t, n) == [Msg("request", t) EXCEPT !.number = n]
Report(t) == Msg("report", t)
Reply == Msg("reply", 0)

Frames == [kind : FrameKinds, to : AnswerIds]
Messages == [kind : {"token", "request", "report", "reply"},
             turn : 0 .. MaxTurns,
             number : 0 .. MaxRequests]

VARIABLES
    open,       \* the connection exists
    wire,       \* frames sent by the client, not yet read
    reader,     \* what handle_connection does next
    writer,     \* the writer task runs
    outgoing,   \* the channel of outgoing messages
    answers,    \* the channel of approval answers: the requests they name
    holder,     \* the turn holding the receiver of answers, 0 if none
    pc,         \* what each turn does next
    tokens,     \* its tokens waiting for its forwarder
    emitted,    \* how many tokens it has emitted
    asked,      \* how many approvals it has asked for
    cancelled,  \* the turns whose token is cancelled
    shown,      \* the requests the client has seen and not yet answered
    strayed     \* history: some answer has no request that waits for it

client   == <<open, wire, shown>>
channels == <<outgoing, answers, holder>>
turns    == <<pc, tokens, emitted, asked, cancelled>>
vars == <<client, reader, writer, channels, turns, strayed>>

TypeOK ==
    /\ open \in BOOLEAN
    /\ wire \in Seq(Frames)
    /\ Len(wire) <= WireCap
    /\ reader \in ReaderPCs
    /\ writer \in BOOLEAN
    /\ outgoing \in Seq(Messages)
    /\ Len(outgoing) <= OutCap
    /\ answers \in Seq(AnswerIds)
    /\ Len(answers) <= AnswerCap
    /\ holder \in 0 .. MaxTurns
    /\ pc \in [Turns -> TurnPCs]
    /\ tokens \in [Turns -> 0 .. MaxTokens]
    /\ emitted \in [Turns -> 0 .. MaxTokens]
    /\ asked \in [Turns -> 0 .. MaxRequests]
    /\ cancelled \subseteq Turns
    /\ shown \subseteq RequestIds
    /\ strayed \in BOOLEAN

Init ==
    /\ open = TRUE
    /\ wire = <<>>
    /\ reader = "auth"
    /\ writer = TRUE
    /\ outgoing = <<>>
    /\ answers = <<>>
    /\ holder = 0
    /\ pc = [t \in Turns |-> "none"]
    /\ tokens = [t \in Turns |-> 0]
    /\ emitted = [t \in Turns |-> 0]
    /\ asked = [t \in Turns |-> 0]
    /\ cancelled = {}
    /\ shown = {}
    /\ strayed = FALSE

-----------------------------------------------------------------------------
(* Helpers *)

Started == {t \in Turns : pc[t] # "none"}
Live == {t \in Turns : pc[t] \notin {"none", "ended"}}

(* The turns that await an answer. *)
Awaiting == {t \in Turns : pc[t] \in {"lock", "receive"}}

Goto(t, label) == pc' = [pc EXCEPT ![t] = label]

(* A send on the channel of outgoing messages waits for room; once the     *)
(* writer has gone the channel is closed and the send returns an error.    *)
CanSend == ~writer \/ Len(outgoing) < OutCap
Send(m) == outgoing' = IF writer THEN Append(outgoing, m) ELSE outgoing

(* The connection keeps the token of its newest turn only.  If that turn   *)
(* awaits an answer, the answer may come when it no longer does.           *)
CancelNewest ==
    LET newest == {t \in Started : \A u \in Started : u <= t}
    IN  /\ cancelled' = cancelled \union newest
        /\ strayed' = (strayed \/ newest \cap Awaiting # {})

-----------------------------------------------------------------------------
(* The client, and the connection *)

ClientSends(frame) ==
    /\ open
    /\ Len(wire) < WireCap
    /\ wire' = Append(wire, frame)
    /\ UNCHANGED <<open, reader, writer, channels, turns>>

(* The client answers a request it has been shown. *)
ClientAnswers(r) ==
    /\ r \in shown
    /\ ClientSends(Answer(r))
    /\ shown' = shown \ {r}
    /\ UNCHANGED strayed

(* A second answer to a request, one to a request it was never shown, or   *)
(* one that is meant for a task (TaskApprovalResponse).                    *)
ClientAnswersUnasked ==
    /\ ClientSends(Answer(NoRequest))
    /\ strayed' = TRUE
    /\ UNCHANGED shown

ClientSpeaks(kind) ==
    /\ ClientSends(Frame(kind))
    /\ UNCHANGED <<shown, strayed>>

(* The client goes away, or its connection is lost. *)
Disconnect ==
    /\ open
    /\ open' = FALSE
    /\ shown' = {}
    /\ UNCHANGED <<wire, reader, writer, channels, turns, strayed>>

-----------------------------------------------------------------------------
(* handle_connection *)

(* authenticate: the first frame holds the right token. *)
AuthOk ==
    /\ reader = "auth"
    /\ open
    /\ Send(Reply)
    /\ reader' = "read"
    /\ UNCHANGED <<client, writer, answers, holder, turns, strayed>>

(* A wrong or malformed first frame, none within five seconds, or no       *)
(* connection: the handler waits for the writer and returns.               *)
AuthFails ==
    /\ reader = "auth"
    /\ Send(Reply)
    /\ reader' = "rejected"
    /\ UNCHANGED <<client, writer, answers, holder, turns, strayed>>

Reading(kind) ==
    /\ reader = "read"
    /\ wire # <<>>
    /\ Head(wire).kind = kind
    /\ wire' = Tail(wire)
    /\ UNCHANGED <<open, shown, reader, writer>>

StartBesideOthers ==
    /\ Reading("message")
    /\ \E t \in Turns \ Started :
          /\ \A u \in Turns \ Started : t <= u
          /\ Goto(t, "run")
    /\ UNCHANGED <<channels, tokens, emitted, asked, cancelled, strayed>>

(* A message cancels the turn in flight and starts a new one. *)
StartTurn ==
    /\ Reading("message")
    /\ CancelNewest
    /\ \E t \in Turns \ Started :
          /\ \A u \in Turns \ Started : t <= u
          /\ Goto(t, "run")
    /\ UNCHANGED <<channels, tokens, emitted, asked>>

CancelTurn ==
    /\ Reading("cancel")
    /\ CancelNewest
    /\ UNCHANGED <<channels, pc, tokens, emitted, asked>>

PushOverCapacity ==
    /\ Reading("answer")
    /\ answers' = Append(answers, Head(wire).to)
    /\ UNCHANGED <<outgoing, holder, turns, strayed>>

(* An answer goes into the channel, whether or not a request waits for it; *)
(* the reader waits while the channel is full.                             *)
PushAnswer ==
    /\ Reading("answer")
    /\ Len(answers) < AnswerCap
    /\ answers' = Append(answers, Head(wire).to)
    /\ UNCHANGED <<outgoing, holder, turns, strayed>>

(* A ping, a second auth, a malformed or an oversized frame has a reply. *)
ReplyOther ==
    /\ Reading("other")
    /\ CanSend
    /\ Send(Reply)
    /\ UNCHANGED <<answers, holder, turns, strayed>>

(* The stream ends or fails: drop the handler's sender, await the writer. *)
StopReading ==
    /\ reader = "read"
    /\ ~open
    /\ reader' = "closing"
    /\ UNCHANGED <<client, writer, channels, turns, strayed>>

(* handle_connection returns; with it goes the sender of the answers. *)
ReturnHandler ==
    /\ reader \in {"closing", "rejected"}
    /\ ~writer
    /\ reader' = "done"
    /\ UNCHANGED <<client, writer, channels, turns, strayed>>

-----------------------------------------------------------------------------
(* The writer task *)

(* A write that succeeds; it may do so although the client has gone. *)
Deliver ==
    /\ writer /\ outgoing # <<>>
    /\ outgoing' = Tail(outgoing)
    /\ LET m == Head(outgoing)
       IN  shown' = IF open /\ m.kind = "request"
                    THEN shown \union {<<m.turn, m.number>>} ELSE shown
    /\ UNCHANGED <<open, wire, reader, writer, answers, holder, turns, strayed>>

(* A write fails: the writer ends and the channel closes. *)
WriterFails ==
    /\ writer /\ ~open /\ outgoing # <<>>
    /\ writer' = FALSE
    /\ outgoing' = <<>>
    /\ UNCHANGED <<client, reader, answers, holder, turns, strayed>>

SenderDroppedNever == FALSE

(* handle_connection has dropped its sender. *)
SenderDropped == reader \in {"closing", "done"}

(* All senders are dropped: the handler's and those of every turn. *)
WriterEnds ==
    /\ writer /\ outgoing = <<>>
    /\ SenderDropped /\ Live = {}
    /\ writer' = FALSE
    /\ UNCHANGED <<client, reader, channels, turns, strayed>>

-----------------------------------------------------------------------------
(* run_agent_turn *)

EmitToken(t) ==
    /\ pc[t] = "run"
    /\ emitted[t] < MaxTokens
    /\ emitted' = [emitted EXCEPT ![t] = @ + 1]
    /\ tokens' = [tokens EXCEPT ![t] = @ + 1]
    /\ UNCHANGED <<client, reader, writer, channels, pc, asked, cancelled,
                   strayed>>

RetryForever(t) ==
    /\ tokens[t] > 0
    /\ CanSend
    /\ Send(Token(t))
    /\ tokens' = [tokens EXCEPT ![t] = IF writer THEN @ - 1 ELSE @]
    /\ UNCHANGED <<client, reader, writer, answers, holder, pc, emitted,
                   asked, cancelled, strayed>>

(* The forwarder of turn t; it stops when the channel is closed. *)
Forward(t) ==
    /\ tokens[t] > 0
    /\ CanSend
    /\ Send(Token(t))
    /\ tokens' = [tokens EXCEPT ![t] = IF writer THEN @ - 1 ELSE 0]
    /\ UNCHANGED <<client, reader, writer, answers, holder, pc, emitted,
                   asked, cancelled, strayed>>

(* WsChannelAdapter::send: the request goes out; an error ends the turn. *)
Ask(t) ==
    /\ pc[t] = "run"
    /\ asked[t] < MaxRequests
    /\ CanSend
    /\ Send(Request(t, asked[t] + 1))
    /\ asked' = [asked EXCEPT ![t] = @ + 1]
    /\ Goto(t, IF writer THEN "lock" ELSE "report")
    /\ strayed' = (strayed \/ t \in cancelled)
    /\ UNCHANGED <<client, reader, writer, answers, holder, tokens,
                   emitted, cancelled>>

(* WsChannelAdapter::receive: lock the receiver of the answers, ... *)
LockAnswers(t) ==
    /\ pc[t] = "lock"
    /\ holder = 0
    /\ holder' = t
    /\ Goto(t, "receive")
    /\ UNCHANGED <<client, reader, writer, outgoing, answers, tokens,
                   emitted, asked, cancelled, strayed>>

(* ... take the first answer, whichever request it names, and unlock. *)
TakeAnswer(t) ==
    /\ pc[t] = "receive"
    /\ answers # <<>>
    /\ answers' = Tail(answers)
    /\ holder' = 0
    /\ Goto(t, "run")
    /\ UNCHANGED <<client, reader, writer, outgoing, tokens, emitted,
                   asked, cancelled, strayed>>

Unlock(t) == holder' = IF holder = t THEN 0 ELSE holder

(* The sender of the answers is gone: an error ends the turn. *)
AnswersClosed(t) ==
    /\ pc[t] = "receive"
    /\ answers = <<>> /\ reader = "done"
    /\ Unlock(t)
    /\ Goto(t, "report")
    /\ UNCHANGED <<client, reader, writer, outgoing, answers, tokens,
                   emitted, asked, cancelled, strayed>>

(* The agent returns, with a response or with an error; or it could not be *)
(* created, or is a Locked one.                                            *)
AgentReturns(t) ==
    /\ pc[t] = "run"
    /\ Goto(t, "report")
    /\ UNCHANGED <<client, reader, writer, channels, tokens, emitted, asked,
                   cancelled, strayed>>

(* A cancelled agent gives up the answer it waits for. *)
GiveUp(t) ==
    /\ t \in cancelled /\ t \in Awaiting
    /\ Unlock(t)
    /\ Goto(t, "report")
    /\ UNCHANGED <<client, reader, writer, outgoing, answers, tokens, emitted,
                   asked, cancelled, strayed>>

ReportWithoutWaiting(t) ==
    /\ pc[t] = "report"
    /\ CanSend
    /\ Send(Report(t))
    /\ Goto(t, "ended")
    /\ UNCHANGED <<client, reader, writer, answers, holder, tokens, emitted,
                   asked, cancelled, strayed>>

(* The forwarder is awaited, the session of a response saved, and Done or  *)
(* Error sent; where the set-up failed there was no token to wait for.     *)
ReportEnd(t) ==
    /\ pc[t] = "report"
    /\ tokens[t] = 0
    /\ CanSend
    /\ Send(Report(t))
    /\ Goto(t, "ended")
    /\ UNCHANGED <<client, reader, writer, answers, holder, tokens, emitted,
                   asked, cancelled, strayed>>

-----------------------------------------------------------------------------
Client ==
    \/ \E kind \in {"message", "cancel", "other"} : ClientSpeaks(kind)
    \/ \E r \in shown : ClientAnswers(r)
    \/ ClientAnswersUnasked
    \/ Disconnect

Handler ==
    \/ AuthOk
    \/ AuthFails
    \/ StartTurn
    \/ CancelTurn
    \/ PushAnswer
    \/ ReplyOther
    \/ StopReading
    \/ ReturnHandler

Writer == Deliver \/ WriterFails \/ WriterEnds

Turn(t) ==
    \/ EmitToken(t)
    \/ Ask(t)
    \/ LockAnswers(t)
    \/ TakeAnswer(t)
    \/ AnswersClosed(t)
    \/ AgentReturns(t)
    \/ ReportEnd(t)

Next ==
    \/ Client
    \/ Handler
    \/ Writer
    \/ \E t \in Turns : Turn(t) \/ Forward(t) \/ GiveUp(t)

Spec == Init /\ [][Next]_vars

(* The runtime polls every task, the agent of a turn goes on and returns,  *)
(* and the client reads what it is sent while it is connected.  Nothing is *)
(* assumed of what it sends, answers included, nor of an agent whose token *)
(* is cancelled while it waits for one.  Senders waiting for room in a     *)
(* channel are served in their order, so a send is strongly fair.          *)
FairSpec ==
    /\ Spec
    /\ WF_vars(Handler)
    /\ WF_vars(Writer)
    /\ \A t \in Turns : SF_vars(Turn(t)) /\ SF_vars(Forward(t))

-----------------------------------------------------------------------------
(* Properties *)

(* At most one turn of a connection goes on uncancelled, the newest.       *)
NewestTurnOnly ==
    \A t, u \in Started : t < u => t \in cancelled

(* Every request is resolved by the answer the client gave to it, as long  *)
(* as the client answers each request once and nothing else, and no turn   *)
(* was cancelled while it awaited its answer.  Only the client's restraint *)
(* and the order of turns keep receive() from taking another's answer:     *)
(* nothing compares the request_id (AnswersMatch, without them, is false). *)
AnswersMatchUnlessStrayed ==
    \A t \in Turns :
        pc[t] = "receive" /\ answers # <<>> =>
            Head(answers) = <<t, asked[t]>> \/ strayed

(* Done or Error is the last message of its turn: when it is sent no token *)
(* is left with the forwarder, and the channel keeps the order.            *)
ReportIsLast ==
    \A t \in Turns : pc[t] = "ended" => tokens[t] = 0

(* A turn that has started ends, unless it awaits an answer: neither the   *)
(* channels nor a lost connection can stop it (run_agent_turn).  As no     *)
(* turn is unstarted again, []<> says of it what ~> would.                 *)
TurnsEndUnlessAwaiting ==
    \A t \in Turns :
        []<>(t \in Started => pc[t] = "ended" \/ t \in Awaiting)

(* The reader waits for room for one more answer. *)
ReaderWaits ==
    /\ reader = "read"
    /\ wire # <<>> /\ Head(wire).kind = "answer"
    /\ Len(answers) = AnswerCap

(* After the connection is lost the handler of an authenticated client     *)
(* returns, unless a turn awaits an answer or the reader waits for room in *)
(* a channel full of answers that no turn takes.                           *)
ReleasedUnlessAwaited ==
    []<>(~open => \/ reader \in {"rejected", "done"}
                  \/ Awaiting # {}
                  \/ ReaderWaits)

(* A turn waiting for an answer is told that the connection is closed      *)
(* (the error of WsChannelAdapter::receive).                               *)
ClosedEndsWaiting ==
    \A t \in Turns : (~open /\ pc[t] = "receive") ~> (pc[t] # "receive")

(* Every request is resolved by the answer the client gave to it, as only  *)
(* one turn of a connection is active at a time.                           *)
AnswersMatch ==
    \A t \in Turns :
        pc[t] = "receive" /\ answers # <<>> =>
            Head(answers) = <<t, asked[t]>>
=============================================================================
