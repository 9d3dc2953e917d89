------------------------- MODULE WsConnectionProofs -------------------------
(***************************************************************************)
(* Theorems about WsConnection, for any number of turns, requests and      *)
(* tokens and any capacity of the channels: the type invariant, that every *)
(* turn but the newest is cancelled, that an answer resolves its own       *)
(* request as long as no turn is cancelled while it awaits one and the     *)
(* client answers what it was asked, and that the report of a turn comes   *)
(* last.                                                                   *)
(***************************************************************************)
EXTENDS WsConnection, TLAPS

(* A request on its way to the client is one of a turn. *)
RequestsNamed ==
    \A i \in 1 .. Len(outgoing) :
        outgoing[i].kind = "request" =>
            <<outgoing[i].turn, outgoing[i].number>> \in RequestIds

(* A forwarder holds no more tokens than its turn has emitted. *)
TokensEmitted == \A t \in Turns : tokens[t] <= emitted[t]

(* Nobody sends before the client is authenticated: the reply to the first *)
(* frame always finds room.                                                *)
QuietBeforeAuth ==
    reader = "auth" =>
        /\ outgoing = <<>>
        /\ \A t \in Turns : pc[t] = "none" /\ tokens[t] = 0

(* The types alone are not inductive: what the client is shown and what    *)
(* the channel of answers takes in come out of messages and frames.        *)
TypeInv ==
    /\ TypeOK
    /\ RequestsNamed
    /\ TokensEmitted
    /\ QuietBeforeAuth

LEMMA TailElements ==
  ASSUME NEW S, NEW s \in Seq(S), s # <<>>
  PROVE  /\ Tail(s) \in Seq(S)
         /\ Len(Tail(s)) \in Nat /\ Len(Tail(s)) = Len(s) - 1
         /\ \A i \in 1 .. Len(Tail(s)) :
               i + 1 \in 1 .. Len(s) /\ Tail(s)[i] = s[i + 1]
<1>1. Len(s) \in Nat \ {0}
  OBVIOUS
<1>2. Tail(s) \in Seq(S) /\ Len(Tail(s)) = Len(s) - 1
  OBVIOUS
<1>3. ASSUME NEW i \in 1 .. Len(Tail(s))
      PROVE  i + 1 \in 1 .. Len(s) /\ Tail(s)[i] = s[i + 1]
  <2>1. i \in Nat /\ 1 <= i /\ i <= Len(s) - 1
    BY <1>2, <1>3
  <2>2. i + 1 \in 1 .. Len(s)
    BY <1>1, <2>1
  <2> QED
    BY <2>1, <2>2
<1> QED
  BY <1>1, <1>2, <1>3

LEMMA MessagesTyped ==
  ASSUME BoundsAssumption
  PROVE  /\ Reply \in Messages /\ Reply.kind # "request"
         /\ \A t \in Turns :
               /\ Token(t) \in Messages /\ Token(t).kind # "request"
               /\ Report(t) \in Messages /\ Report(t).kind # "request"
               /\ \A n \in 1 .. MaxRequests :
                     /\ Request(t, n) \in Messages
                     /\ Request(t, n).kind = "request"
                     /\ Request(t, n).turn = t
                     /\ Request(t, n).number = n
BY DEF BoundsAssumption, Messages, Reply, Token, Report, Request, Msg, Turns

(* A send keeps the channel of outgoing messages typed. *)
LEMMA SendTyped ==
  ASSUME TypeInv, NEW m \in Messages, CanSend, Send(m),
         m.kind = "request" => <<m.turn, m.number>> \in RequestIds
  PROVE  /\ outgoing' \in Seq(Messages)
         /\ Len(outgoing') <= OutCap
         /\ RequestsNamed'
<1>1. outgoing \in Seq(Messages) /\ Len(outgoing) <= OutCap
  BY DEF TypeInv, TypeOK
<1>2. CASE ~writer
  BY <1>1, <1>2 DEF Send, TypeInv, RequestsNamed
<1>3. CASE writer
  <2>1. outgoing' = Append(outgoing, m) /\ Len(outgoing) < OutCap
    BY <1>3 DEF Send, CanSend
  <2>2. outgoing' \in Seq(Messages) /\ Len(outgoing') <= OutCap
    BY <1>1, <2>1, BoundsAssumption DEF BoundsAssumption
  <2>3. \A i \in 1 .. Len(outgoing') :
           \/ outgoing'[i] = m
           \/ i \in 1 .. Len(outgoing) /\ outgoing'[i] = outgoing[i]
    BY <1>1, <2>1
  <2> QED
    BY <2>2, <2>3 DEF TypeInv, RequestsNamed
<1> QED
  BY <1>2, <1>3

(***************************************************************************)
(* The type invariant, a group of variables at a time.                     *)
(***************************************************************************)
USE DEF vars, client, channels, turns

LEMMA TypeInit == BoundsAssumption /\ Init => TypeInv
<1> SUFFICES ASSUME BoundsAssumption, Init PROVE TypeInv
  OBVIOUS
<1>1. RequestsNamed /\ TokensEmitted /\ QuietBeforeAuth
  BY DEF Init, RequestsNamed, TokensEmitted, QuietBeforeAuth
<1>2. /\ open \in BOOLEAN /\ writer \in BOOLEAN
      /\ strayed \in BOOLEAN
  BY DEF Init
<1>3. /\ reader \in ReaderPCs /\ holder \in 0 .. MaxTurns
      /\ pc \in [Turns -> TurnPCs]
      /\ tokens \in [Turns -> 0 .. MaxTokens]
      /\ emitted \in [Turns -> 0 .. MaxTokens]
      /\ asked \in [Turns -> 0 .. MaxRequests]
      /\ cancelled \subseteq Turns /\ shown \subseteq RequestIds
  BY DEF BoundsAssumption, Init, ReaderPCs, TurnPCs
<1>4. /\ wire \in Seq(Frames) /\ Len(wire) <= WireCap
      /\ outgoing \in Seq(Messages) /\ Len(outgoing) <= OutCap
      /\ answers \in Seq(AnswerIds) /\ Len(answers) <= AnswerCap
  BY DEF BoundsAssumption, Init
<1> QED
  BY <1>1, <1>2, <1>3, <1>4 DEF TypeInv, TypeOK

LEMMA WireTyped ==
  ASSUME TypeInv, [Next]_vars
  PROVE  wire' \in Seq(Frames) /\ Len(wire') <= WireCap
<1>1. /\ wire \in Seq(Frames) /\ Len(wire) <= WireCap
      /\ shown \subseteq RequestIds
  BY DEF TypeInv, TypeOK
<1>2. ASSUME NEW f \in Frames, ClientSends(f)
      PROVE  wire' \in Seq(Frames) /\ Len(wire') <= WireCap
  <2>1. Len(wire) < WireCap /\ wire' = Append(wire, f)
    BY <1>2 DEF ClientSends
  <2> QED
    BY <1>1, <2>1, BoundsAssumption DEF BoundsAssumption
<1>3. ASSUME NEW kind \in {"message", "cancel", "other"}, ClientSpeaks(kind)
      PROVE  wire' \in Seq(Frames) /\ Len(wire') <= WireCap
  <2>1. Frame(kind) \in Frames
    BY <1>3 DEF Frame, Frames, FrameKinds, AnswerIds
  <2> QED
    BY <1>2, <1>3, <2>1 DEF ClientSpeaks
<1>4. ASSUME NEW r \in AnswerIds, ClientSends(Answer(r))
      PROVE  wire' \in Seq(Frames) /\ Len(wire') <= WireCap
  <2>1. Answer(r) \in Frames
    BY <1>4 DEF Answer, Frames, FrameKinds
  <2> QED
    BY <1>2, <1>4, <2>1
<1>5. CASE wire # <<>> /\ wire' = Tail(wire)
  <2>1. wire' \in Seq(Frames) /\ Len(wire') = Len(wire) - 1
    BY <1>1, <1>5, TailElements
  <2> QED
    BY <1>1, <2>1, BoundsAssumption DEF BoundsAssumption
<1>6. CASE UNCHANGED wire
  BY <1>1, <1>6
<1>7. CASE ClientAnswersUnasked \/ \E r \in shown : ClientAnswers(r)
  BY <1>1, <1>4, <1>7 DEF ClientAnswers, ClientAnswersUnasked, AnswerIds
<1> QED
  BY <1>3, <1>5, <1>6, <1>7
     DEF Next, Client, Handler, Writer, Turn, Disconnect, AuthOk, AuthFails,
         Reading, StartTurn, CancelTurn, PushAnswer, ReplyOther, StopReading,
         ReturnHandler, Deliver, WriterFails, WriterEnds, EmitToken, Forward,
         Ask, LockAnswers, TakeAnswer, AnswersClosed, AgentReturns, GiveUp,
         ReportEnd

LEMMA OutgoingTyped ==
  ASSUME TypeInv, [Next]_vars
  PROVE  outgoing' \in Seq(Messages) /\ Len(outgoing') <= OutCap /\ RequestsNamed'
<1>1. outgoing \in Seq(Messages) /\ Len(outgoing) <= OutCap /\ RequestsNamed
  BY DEF TypeInv, TypeOK
<1>2. ASSUME NEW t \in Turns, Ask(t)
      PROVE  outgoing' \in Seq(Messages) /\ Len(outgoing') <= OutCap
             /\ RequestsNamed'
  <2>1. asked[t] + 1 \in 1 .. MaxRequests
    BY <1>2, BoundsAssumption DEF Ask, TypeInv, TypeOK, BoundsAssumption
  <2>2. <<t, asked[t] + 1>> \in RequestIds
    BY <2>1 DEF RequestIds
  <2> QED
    BY <1>2, <2>1, <2>2, MessagesTyped, SendTyped, BoundsAssumption DEF Ask
<1>3. CASE AuthOk \/ AuthFails
  <2>1. CanSend /\ Send(Reply)
    BY <1>1, <1>3, BoundsAssumption
       DEF AuthOk, AuthFails, CanSend, TypeInv, QuietBeforeAuth, BoundsAssumption
  <2> QED
    BY <2>1, MessagesTyped, SendTyped, BoundsAssumption
<1>4. CASE ReplyOther \/ \E t \in Turns : Forward(t) \/ ReportEnd(t)
  BY <1>4, MessagesTyped, SendTyped, BoundsAssumption
     DEF ReplyOther, Forward, ReportEnd
<1>5. CASE outgoing # <<>> /\ outgoing' = Tail(outgoing)
  <2>1. outgoing' \in Seq(Messages) /\ Len(outgoing') = Len(outgoing) - 1
    BY <1>1, <1>5, TailElements
  <2>2. \A i \in 1 .. Len(outgoing') :
           i + 1 \in 1 .. Len(outgoing) /\ outgoing'[i] = outgoing[i + 1]
    BY <1>1, <1>5, TailElements
  <2>3. Len(outgoing') <= OutCap
    BY <1>1, <2>1, BoundsAssumption DEF BoundsAssumption
  <2>4. RequestsNamed'
    BY <1>1, <2>2 DEF RequestsNamed
  <2> QED
    BY <2>1, <2>3, <2>4
<1>6. CASE outgoing' = <<>>
  BY <1>6, BoundsAssumption DEF RequestsNamed, BoundsAssumption
<1>7. CASE UNCHANGED outgoing
  BY <1>1, <1>7 DEF RequestsNamed
<1> QED
  BY <1>2, <1>3, <1>4, <1>5, <1>6, <1>7
     DEF Next, Client, Handler, Writer, Turn, ClientSpeaks, ClientAnswers,
         ClientAnswersUnasked, ClientSends, Disconnect, StartTurn, CancelTurn,
         PushAnswer, StopReading, ReturnHandler, Deliver, WriterFails, WriterEnds,
         EmitToken, LockAnswers, TakeAnswer, AnswersClosed, AgentReturns,
         GiveUp

LEMMA AnswersTyped ==
  ASSUME TypeInv, [Next]_vars
  PROVE  /\ answers' \in Seq(AnswerIds) /\ Len(answers') <= AnswerCap
         /\ shown' \subseteq RequestIds
<1>1. /\ answers \in Seq(AnswerIds) /\ Len(answers) <= AnswerCap
      /\ shown \subseteq RequestIds
      /\ wire \in Seq(Frames) /\ outgoing \in Seq(Messages)
      /\ RequestsNamed
  BY DEF TypeInv, TypeOK
<1>2. CASE PushAnswer
  <2>1. Head(wire).to \in AnswerIds
    <3>1. Head(wire) \in Frames
      BY <1>1, <1>2 DEF PushAnswer, Reading
    <3> QED
      BY <3>1 DEF Frames
  <2> QED
    BY <1>1, <1>2, <2>1, BoundsAssumption
       DEF PushAnswer, Reading, BoundsAssumption
<1>3. CASE Deliver
  <2>1. Head(outgoing).kind = "request" =>
           <<Head(outgoing).turn, Head(outgoing).number>> \in RequestIds
    BY <1>1, <1>3 DEF Deliver, RequestsNamed
  <2> QED
    BY <1>1, <1>3, <2>1 DEF Deliver
<1>4. CASE \E t \in Turns : TakeAnswer(t)
  BY <1>1, <1>4, BoundsAssumption DEF TakeAnswer, BoundsAssumption
<1>5. CASE UNCHANGED answers /\ shown' \subseteq shown
  BY <1>1, <1>5
<1> QED
  BY <1>2, <1>3, <1>4, <1>5
     DEF Next, Client, Handler, Writer, Turn, ClientSpeaks, ClientAnswers,
         ClientAnswersUnasked, ClientSends, Disconnect, AuthOk, AuthFails, Reading, StartTurn,
         CancelTurn, ReplyOther, StopReading, ReturnHandler, WriterFails,
         WriterEnds, EmitToken, Forward, Ask, LockAnswers, AnswersClosed,
         AgentReturns, GiveUp, ReportEnd

LEMMA TurnsTyped ==
  ASSUME TypeInv, [Next]_vars
  PROVE  /\ pc' \in [Turns -> TurnPCs]
         /\ tokens' \in [Turns -> 0 .. MaxTokens]
         /\ emitted' \in [Turns -> 0 .. MaxTokens]
         /\ asked' \in [Turns -> 0 .. MaxRequests]
         /\ cancelled' \subseteq Turns
         /\ TokensEmitted'
<1> USE BoundsAssumption
    DEF BoundsAssumption, Next, Client, Handler, Writer, Turn, ClientSpeaks,
        ClientAnswers, ClientAnswersUnasked, ClientSends, Disconnect, AuthOk, AuthFails, Reading,
        StartTurn, CancelTurn, PushAnswer, ReplyOther, StopReading,
        ReturnHandler, Deliver, WriterFails, WriterEnds, EmitToken, Forward,
        Ask, LockAnswers, TakeAnswer, AnswersClosed, AgentReturns, GiveUp,
        ReportEnd
<1>1. pc' \in [Turns -> TurnPCs]
  BY DEF TypeInv, TypeOK, Goto, TurnPCs
<1>2. cancelled' \subseteq Turns
  BY DEF TypeInv, TypeOK, CancelNewest, Started
<1>3. asked' \in [Turns -> 0 .. MaxRequests]
  <2>1. asked \in [Turns -> 0 .. MaxRequests]
    BY DEF TypeInv, TypeOK
  <2>2. ASSUME NEW t \in Turns, Ask(t)
        PROVE  asked' \in [Turns -> 0 .. MaxRequests]
    BY <2>1, <2>2
  <2>3. UNCHANGED asked \/ \E t \in Turns : Ask(t)
    OBVIOUS
  <2> QED
    BY <2>1, <2>2, <2>3
<1>4. /\ tokens' \in [Turns -> 0 .. MaxTokens]
      /\ emitted' \in [Turns -> 0 .. MaxTokens]
      /\ TokensEmitted'
  <2>1. /\ tokens \in [Turns -> 0 .. MaxTokens]
        /\ emitted \in [Turns -> 0 .. MaxTokens]
        /\ TokensEmitted
    BY DEF TypeInv, TypeOK
  <2>2. ASSUME NEW t \in Turns, EmitToken(t)
        PROVE  /\ tokens' \in [Turns -> 0 .. MaxTokens]
               /\ emitted' \in [Turns -> 0 .. MaxTokens]
               /\ TokensEmitted'
    BY <2>1, <2>2 DEF TokensEmitted
  <2>3. ASSUME NEW t \in Turns, Forward(t)
        PROVE  /\ tokens' \in [Turns -> 0 .. MaxTokens]
               /\ emitted' \in [Turns -> 0 .. MaxTokens]
               /\ TokensEmitted'
    BY <2>1, <2>3 DEF TokensEmitted
  <2>4. \/ UNCHANGED <<tokens, emitted>>
        \/ \E t \in Turns : EmitToken(t) \/ Forward(t)
    OBVIOUS
  <2> QED
    BY <2>1, <2>2, <2>3, <2>4 DEF TokensEmitted
<1> QED
  BY <1>1, <1>2, <1>3, <1>4

LEMMA RestTyped ==
  ASSUME TypeInv, [Next]_vars
  PROVE  /\ open' \in BOOLEAN /\ writer' \in BOOLEAN
         /\ strayed' \in BOOLEAN
         /\ reader' \in ReaderPCs /\ holder' \in 0 .. MaxTurns
<1> USE BoundsAssumption
    DEF BoundsAssumption, Next, Client, Handler, Writer, Turn, ClientSpeaks,
        ClientAnswers, ClientAnswersUnasked, ClientSends, Disconnect, AuthOk, AuthFails, Reading,
        StartTurn, CancelTurn, PushAnswer, ReplyOther, StopReading,
        ReturnHandler, Deliver, WriterFails, WriterEnds, EmitToken, Forward,
        Ask, LockAnswers, TakeAnswer, AnswersClosed, AgentReturns, GiveUp,
        ReportEnd
<1>1. open' \in BOOLEAN /\ writer' \in BOOLEAN
  BY DEF TypeInv, TypeOK
<1>2. strayed' \in BOOLEAN
  BY DEF TypeInv, TypeOK, CancelNewest
<1>3. reader' \in ReaderPCs
  BY DEF TypeInv, TypeOK, ReaderPCs
<1>4. holder' \in 0 .. MaxTurns
  <2>1. holder' \in {holder, 0} \union Turns
    BY DEF Unlock
  <2>2. holder \in 0 .. MaxTurns
    BY DEF TypeInv, TypeOK
  <2> QED
    BY <2>1, <2>2 DEF Turns
<1> QED
  BY <1>1, <1>2, <1>3, <1>4

LEMMA QuietKept ==
  ASSUME TypeInv, [Next]_vars
  PROVE  QuietBeforeAuth'
<1> SUFFICES ASSUME reader' = "auth"
             PROVE  /\ outgoing' = <<>>
                    /\ \A t \in Turns : pc'[t] = "none" /\ tokens'[t] = 0
  BY DEF QuietBeforeAuth
<1>1. /\ reader = "auth" /\ outgoing = <<>>
      /\ \A t \in Turns : pc[t] = "none" /\ tokens[t] = 0
  BY DEF TypeInv, QuietBeforeAuth, Next, Client, Handler, Writer, Turn,
         ClientSpeaks, ClientAnswers, ClientAnswersUnasked, ClientSends, Disconnect, AuthOk,
         AuthFails, Reading, StartTurn, CancelTurn, PushAnswer, ReplyOther,
         StopReading, ReturnHandler, Deliver, WriterFails, WriterEnds,
         EmitToken, Forward, Ask, LockAnswers, TakeAnswer, AnswersClosed,
         AgentReturns, GiveUp, ReportEnd
<1>2. UNCHANGED <<outgoing, pc, tokens>>
  BY <1>1
     DEF Next, Client, Handler, Writer, Turn, Awaiting, SenderDropped,
         ClientSpeaks, ClientAnswers, ClientAnswersUnasked, ClientSends, Disconnect, AuthOk,
         AuthFails, Reading, StartTurn, CancelTurn, PushAnswer, ReplyOther,
         StopReading, ReturnHandler, Deliver, WriterFails, WriterEnds,
         EmitToken, Forward, Ask, LockAnswers, TakeAnswer, AnswersClosed,
         AgentReturns, GiveUp, ReportEnd
<1> QED
  BY <1>1, <1>2

LEMMA TypeNext ==
  ASSUME TypeInv, [Next]_vars
  PROVE  TypeInv'
BY WireTyped, OutgoingTyped, AnswersTyped, TurnsTyped, RestTyped, QuietKept
   DEF TypeInv, TypeOK

(* Every variable keeps its type, and no request in flight is other than  *)
(* one of a turn.                                                         *)
THEOREM TypeCorrect == Spec => []TypeOK
<1>1. Init => TypeInv
  BY TypeInit, BoundsAssumption
<1>2. TypeInv /\ [Next]_vars => TypeInv'
  BY TypeNext
<1>3. TypeInv => TypeOK
  BY DEF TypeInv
<1> QED
  BY <1>1, <1>2, <1>3, PTL DEF Spec

(***************************************************************************)
(* The turns.  The connection keeps the token of its newest turn only, so  *)
(* that no older one goes on depends on turns starting in order and on     *)
(* every one before the newest being cancelled already.                    *)
(***************************************************************************)
StartedInOrder ==
    \A t \in Started, u \in Turns : u < t => u \in Started

TurnsInv == StartedInOrder /\ NewestTurnOnly

LEMMA StartKeepsTurns ==
  ASSUME TypeInv, TurnsInv, StartTurn
  PROVE  TurnsInv'
<1> USE BoundsAssumption DEF BoundsAssumption
<1>1. PICK t \in Turns \ Started :
         /\ \A u \in Turns \ Started : t <= u
         /\ Goto(t, "run")
  BY DEF StartTurn
<1>2. Started' = Started \union {t}
  BY <1>1 DEF Started, Goto, TypeInv, TypeOK
<1>3. \A u \in Turns : u < t <=> u \in Started
  <2>1. ASSUME NEW u \in Turns, u < t PROVE u \in Started
    BY <1>1, <2>1 DEF Turns
  <2>2. ASSUME NEW u \in Started PROVE u < t
    BY <1>1, <2>2 DEF TurnsInv, StartedInOrder, Started, Turns
  <2> QED
    BY <2>1, <2>2
<1>4. ASSUME NEW u \in Started PROVE u \in cancelled'
  <2> DEFINE newest == {v \in Started : \A w \in Started : w <= v}
  <2>1. cancelled' = cancelled \union newest
    BY DEF StartTurn, CancelNewest
  <2>2. CASE \A w \in Started : w <= u
    BY <2>1, <2>2, <1>4
  <2>3. CASE \E w \in Started : ~(w <= u)
    <3>1. PICK w \in Started : u < w
      BY <2>3, <1>4 DEF Started, Turns
    <3>2. u \in cancelled
      BY <3>1, <1>4 DEF TurnsInv, NewestTurnOnly
    <3> QED
      BY <2>1, <3>2
  <2> QED
    BY <2>2, <2>3
<1>5. StartedInOrder'
  BY <1>1, <1>2, <1>3 DEF TurnsInv, StartedInOrder, Turns
<1>6. NewestTurnOnly'
  <2> SUFFICES ASSUME NEW a \in Started', NEW b \in Started', a < b
               PROVE  a \in cancelled'
    BY DEF NewestTurnOnly
  <2>1. CASE a \in Started
    BY <2>1, <1>4
  <2>2. CASE a = t
    BY <2>2, <1>2, <1>3 DEF Started, Turns
  <2> QED
    BY <2>1, <2>2, <1>2
<1> QED
  BY <1>5, <1>6 DEF TurnsInv

LEMMA TurnsNext ==
  ASSUME TypeInv, TurnsInv, [Next]_vars
  PROVE  TurnsInv'
<1>1. CASE StartTurn
  BY <1>1, StartKeepsTurns
<1>2. CASE UNCHANGED pc /\ cancelled \subseteq cancelled'
  BY <1>2 DEF TurnsInv, StartedInOrder, NewestTurnOnly, Started
<1>3. ASSUME NEW t \in Turns, pc[t] # "none",
             NEW label \in TurnPCs \ {"none"}, Goto(t, label),
             UNCHANGED cancelled
      PROVE  TurnsInv'
  <2>1. Started' = Started
    BY <1>3 DEF Started, Goto, TypeInv, TypeOK
  <2> QED
    BY <1>3, <2>1 DEF TurnsInv, StartedInOrder, NewestTurnOnly
<1>4. CASE \E t \in Turns : Turn(t) \/ GiveUp(t)
  <2>1. PICK t \in Turns : Turn(t) \/ GiveUp(t)
    BY <1>4
  <2>2. CASE UNCHANGED <<pc, cancelled>>
    BY <1>2, <2>2
  <2>3. /\ UNCHANGED cancelled
        /\ UNCHANGED pc \/ /\ pc[t] # "none"
                           /\ \E label \in TurnPCs \ {"none"} : Goto(t, label)
    BY <2>1
       DEF Turn, EmitToken, Ask, LockAnswers, TakeAnswer, AnswersClosed,
           AgentReturns, GiveUp, ReportEnd, Awaiting, TurnPCs
  <2> QED
    BY <1>3, <2>2, <2>3
<1> QED
  BY <1>1, <1>2, <1>4
     DEF Next, Client, Handler, Writer, ClientSpeaks, ClientAnswers,
         ClientAnswersUnasked, ClientSends, Disconnect, AuthOk, AuthFails, Reading, CancelTurn,
         CancelNewest, PushAnswer, ReplyOther, StopReading, ReturnHandler,
         Deliver, WriterFails, WriterEnds, Forward

(* A message starts its turn only once the turn before it is cancelled: at *)
(* most one turn of a connection goes on uncancelled, the newest.          *)
THEOREM OnlyNewestTurn == Spec => []NewestTurnOnly
<1>1. Init => TypeInv /\ TurnsInv
  BY TypeInit, BoundsAssumption
     DEF Init, TurnsInv, StartedInOrder, NewestTurnOnly, Started
<1>2. TypeInv /\ TurnsInv /\ [Next]_vars => (TypeInv /\ TurnsInv)'
  BY TypeNext, TurnsNext
<1>3. TurnsInv => NewestTurnOnly
  BY DEF TurnsInv
<1> QED
  BY <1>1, <1>2, <1>3, PTL DEF Spec

(***************************************************************************)
(* The answers.  A request passes from the channel of outgoing messages to *)
(* the client, and its answer over the wire into the channel of answers.   *)
(* Until a turn is cancelled while it awaits one, or the client answers    *)
(* what nobody asked, there is at most one request or answer under way,    *)
(* and it is that of the turn which waits.                                 *)
(***************************************************************************)
Marked(s, kind) == {i \in 1 .. Len(s) : s[i].kind = kind}

Asking == Marked(outgoing, "request")
Answering == Marked(wire, "answer")

(* A turn awaits the answer to request r. *)
Owed(r) == \E t \in Awaiting : r = <<t, asked[t]>>

AllOwed ==
    /\ \A i \in Asking : Owed(<<outgoing[i].turn, outgoing[i].number>>)
    /\ \A r \in shown : Owed(r)
    /\ \A i \in Answering : Owed(wire[i].to)
    /\ \A i \in 1 .. Len(answers) : Owed(answers[i])

OneUnderWay ==
    /\ \A i, j \in Asking : i = j
    /\ \A i, j \in Answering : i = j
    /\ Len(answers) <= 1
    /\ Asking # {} => shown = {} /\ Answering = {} /\ answers = <<>>
    /\ shown # {} => Answering = {} /\ answers = <<>>
    /\ Answering # {} => answers = <<>>

NoneCancelled == Awaiting \cap cancelled = {}

(* The handler has returned and left no answer: nobody is answered again. *)
Silent == reader = "done" /\ answers = <<>>

AnswersInv ==
    \/ strayed
    \/ Silent
    \/ NoneCancelled /\ AllOwed /\ OneUnderWay

LEMMA AppendElements ==
  ASSUME NEW S, NEW s \in Seq(S), NEW m \in S
  PROVE  /\ Len(s) \in Nat
         /\ 1 .. Len(Append(s, m)) = (1 .. Len(s)) \union {Len(s) + 1}
         /\ Append(s, m)[Len(s) + 1] = m
         /\ \A i \in 1 .. Len(s) : Append(s, m)[i] = s[i]
<1>1. /\ Append(s, m) \in Seq(S) /\ Len(Append(s, m)) = Len(s) + 1
      /\ Len(s) \in Nat
  OBVIOUS
<1>2. /\ Append(s, m)[Len(s) + 1] = m
      /\ \A i \in 1 .. Len(s) : Append(s, m)[i] = s[i]
  OBVIOUS
<1>3. 1 .. (Len(s) + 1) = (1 .. Len(s)) \union {Len(s) + 1}
  BY <1>1
<1> QED
  BY <1>1, <1>2, <1>3

LEMMA AppendOther ==
  ASSUME NEW S, NEW s \in Seq(S), NEW m \in S, NEW kind, m.kind # kind
  PROVE  /\ Marked(Append(s, m), kind) = Marked(s, kind)
         /\ \A i \in Marked(s, kind) : Append(s, m)[i] = s[i]
<1> DEFINE new == Append(s, m)
<1>1. /\ 1 .. Len(new) = (1 .. Len(s)) \union {Len(s) + 1}
      /\ new[Len(s) + 1] = m
      /\ \A i \in 1 .. Len(s) : new[i] = s[i]
  BY AppendElements
<1> HIDE DEF new
<1>2. /\ {i \in 1 .. Len(new) : new[i].kind = kind} =
            {i \in 1 .. Len(s) : s[i].kind = kind}
      /\ \A i \in {j \in 1 .. Len(s) : s[j].kind = kind} : new[i] = s[i]
  BY <1>1
<1> QED
  BY <1>2 DEF Marked, new

LEMMA AppendFirst ==
  ASSUME NEW S, NEW s \in Seq(S), NEW m \in S, NEW kind, m.kind = kind,
         Marked(s, kind) = {}
  PROVE  /\ Marked(Append(s, m), kind) = {Len(s) + 1}
         /\ Append(s, m)[Len(s) + 1] = m
<1> DEFINE new == Append(s, m)
<1>1. /\ 1 .. Len(new) = (1 .. Len(s)) \union {Len(s) + 1}
      /\ new[Len(s) + 1] = m
      /\ \A i \in 1 .. Len(s) : new[i] = s[i]
  BY AppendElements
<1> HIDE DEF new
<1>2. /\ {i \in 1 .. Len(new) : new[i].kind = kind} = {Len(s) + 1}
      /\ new[Len(s) + 1] = m
  BY <1>1 DEF Marked
<1> QED
  BY <1>2 DEF Marked, new

LEMMA MarkedTail ==
  ASSUME NEW S, NEW s \in Seq(S), s # <<>>, NEW kind
  PROVE  /\ \A i \in Marked(Tail(s), kind) :
               i + 1 \in Marked(s, kind) /\ Tail(s)[i] = s[i + 1]
         /\ Head(s).kind = kind => 1 \in Marked(s, kind)
         /\ Marked(Tail(s), kind) \subseteq Nat \ {0}
<1>1. 1 \in 1 .. Len(s) /\ Head(s) = s[1]
  OBVIOUS
<1> QED
  BY <1>1, TailElements DEF Marked

(* Moving the answer or the request at the head leaves none behind. *)
LEMMA TakeOnly ==
  ASSUME NEW S, NEW s \in Seq(S), s # <<>>, NEW kind,
         \A i, j \in Marked(s, kind) : i = j
  PROVE  /\ \A i, j \in Marked(Tail(s), kind) : i = j
         /\ Marked(s, kind) = {} => Marked(Tail(s), kind) = {}
         /\ Head(s).kind = kind => Marked(Tail(s), kind) = {}
<1>1. \A i \in Marked(Tail(s), kind) :
         i \in Nat \ {0} /\ i + 1 \in Marked(s, kind)
  BY MarkedTail
<1>2. Head(s).kind = kind => 1 \in Marked(s, kind)
  BY MarkedTail
<1>3. ASSUME NEW i \in Marked(Tail(s), kind), NEW j \in Marked(Tail(s), kind)
      PROVE  i = j
  <2>1. i + 1 = j + 1
    BY <1>1, <1>3
  <2> QED
    BY <1>1, <1>3, <2>1
<1>4. Head(s).kind = kind => Marked(Tail(s), kind) = {}
  <2> SUFFICES ASSUME Head(s).kind = kind, NEW i \in Marked(Tail(s), kind)
               PROVE  FALSE
    OBVIOUS
  <2>1. i + 1 = 1 /\ i \in Nat \ {0}
    BY <1>1, <1>2
  <2> QED
    BY <2>1
<1> QED
  BY <1>1, <1>3, <1>4

LEMMA OneAwaits ==
  ASSUME TypeInv, TurnsInv, NoneCancelled
  PROVE  \A t, u \in Awaiting : t = u
<1>1. Awaiting \subseteq Started /\ Started \subseteq 1 .. MaxTurns
  BY DEF Awaiting, Started, Turns
<1>2. \A t, u \in Awaiting : ~(t < u)
  BY <1>1 DEF TurnsInv, NewestTurnOnly, NoneCancelled
<1> QED
  BY <1>1, <1>2, BoundsAssumption DEF BoundsAssumption

(* What a step does to a channel whose requests, or answers, it leaves     *)
(* alone: other messages come and go, and the marked ones move up.         *)
LEMMA AskingKept ==
  ASSUME TypeInv, OneUnderWay,
         \/ UNCHANGED outgoing
         \/ outgoing' = <<>>
         \/ outgoing # <<>> /\ outgoing' = Tail(outgoing)
         \/ \E m \in Messages : /\ m.kind # "request"
                                 /\ outgoing' = Append(outgoing, m)
  PROVE  /\ \A i \in Asking' : \E j \in Asking : outgoing'[i] = outgoing[j]
         /\ \A i, j \in Asking' : i = j
<1>1. outgoing \in Seq(Messages) /\ \A i, j \in Asking : i = j
  BY DEF TypeInv, TypeOK, OneUnderWay
<1>2. CASE UNCHANGED outgoing
  BY <1>1, <1>2 DEF Asking
<1>3. CASE outgoing' = <<>>
  BY <1>3 DEF Asking, Marked
<1>4. CASE outgoing # <<>> /\ outgoing' = Tail(outgoing)
  <2>1. \A i \in Asking' : i + 1 \in Asking /\ outgoing'[i] = outgoing[i + 1]
    BY <1>1, <1>4, MarkedTail DEF Asking
  <2>2. \A i, j \in Asking' : i = j
    BY <1>1, <1>4, TakeOnly DEF Asking
  <2> QED
    BY <2>1, <2>2
<1>5. CASE \E m \in Messages : /\ m.kind # "request"
                               /\ outgoing' = Append(outgoing, m)
  <2>1. PICK m \in Messages :
           m.kind # "request" /\ outgoing' = Append(outgoing, m)
    BY <1>5
  <2> DEFINE s == Append(outgoing, m)
  <2>2. /\ Marked(s, "request") = Marked(outgoing, "request")
        /\ \A i \in Marked(outgoing, "request") : s[i] = outgoing[i]
    BY <1>1, <2>1, AppendOther
  <2>3. Asking' = Asking /\ \A i \in Asking : outgoing'[i] = outgoing[i]
    BY <2>1, <2>2 DEF Asking
  <2> QED
    BY <1>1, <2>3
<1> QED
  BY <1>2, <1>3, <1>4, <1>5

LEMMA AnsweringKept ==
  ASSUME TypeInv, OneUnderWay,
         \/ UNCHANGED wire
         \/ wire # <<>> /\ wire' = Tail(wire)
         \/ \E f \in Frames : f.kind # "answer" /\ wire' = Append(wire, f)
  PROVE  /\ \A i \in Answering' : \E j \in Answering : wire'[i] = wire[j]
         /\ \A i, j \in Answering' : i = j
<1>1. wire \in Seq(Frames) /\ \A i, j \in Answering : i = j
  BY DEF TypeInv, TypeOK, OneUnderWay
<1>2. CASE UNCHANGED wire
  BY <1>1, <1>2 DEF Answering
<1>3. CASE wire # <<>> /\ wire' = Tail(wire)
  <2>1. \A i \in Answering' : i + 1 \in Answering /\ wire'[i] = wire[i + 1]
    BY <1>1, <1>3, MarkedTail DEF Answering
  <2>2. \A i, j \in Answering' : i = j
    BY <1>1, <1>3, TakeOnly DEF Answering
  <2> QED
    BY <2>1, <2>2
<1>4. CASE \E f \in Frames : f.kind # "answer" /\ wire' = Append(wire, f)
  <2>1. PICK f \in Frames : f.kind # "answer" /\ wire' = Append(wire, f)
    BY <1>4
  <2> DEFINE s == Append(wire, f)
  <2>2. /\ Marked(s, "answer") = Marked(wire, "answer")
        /\ \A i \in Marked(wire, "answer") : s[i] = wire[i]
    BY <1>1, <2>1, AppendOther
  <2>3. Answering' = Answering /\ \A i \in Answering : wire'[i] = wire[i]
    BY <2>1, <2>2 DEF Answering
  <2> QED
    BY <1>1, <2>3
<1> QED
  BY <1>2, <1>3, <1>4

(* A step that adds nothing to the ways of a request, and neither lets a   *)
(* turn wait nor ends a wait, keeps what is known of them.                 *)
LEMMA WaysKept ==
  ASSUME TypeInv, AllOwed, OneUnderWay,
         Awaiting' = Awaiting, \A t \in Awaiting : asked'[t] = asked[t],
         \A i \in Asking' : \E j \in Asking : outgoing'[i] = outgoing[j],
         \A i, j \in Asking' : i = j,
         \A i \in Answering' : \E j \in Answering : wire'[i] = wire[j],
         \A i, j \in Answering' : i = j,
         shown' \subseteq shown, UNCHANGED answers
  PROVE  AllOwed' /\ OneUnderWay'
<1>1. Asking' # {} => Asking # {}
  OBVIOUS
<1>2. Answering' # {} => Answering # {}
  OBVIOUS
<1>3. OneUnderWay'
  BY <1>1, <1>2 DEF OneUnderWay
<1>4. \A i \in Asking' : \E t \in Awaiting' :
         <<outgoing'[i].turn, outgoing'[i].number>> = <<t, asked'[t]>>
  BY DEF AllOwed, Owed
<1>5. \A i \in Answering' : \E t \in Awaiting' : wire'[i].to = <<t, asked'[t]>>
  BY DEF AllOwed, Owed
<1>6. \A r \in shown' : \E t \in Awaiting' : r = <<t, asked'[t]>>
  BY DEF AllOwed, Owed
<1>7. \A i \in 1 .. Len(answers') :
         \E t \in Awaiting' : answers'[i] = <<t, asked'[t]>>
  BY DEF AllOwed, Owed
<1> QED
  BY <1>3, <1>4, <1>5, <1>6, <1>7 DEF AllOwed, Owed

(* The send of anything but a request. *)
LEMMA SendKeepsAsking ==
  ASSUME TypeInv, OneUnderWay, NEW m \in Messages, m.kind # "request", Send(m)
  PROVE  /\ \A i \in Asking' : \E j \in Asking : outgoing'[i] = outgoing[j]
         /\ \A i, j \in Asking' : i = j
BY AskingKept DEF Send

(* With no turn that waits there is nothing under way. *)
LEMMA NothingOwed ==
  ASSUME AllOwed, Awaiting = {}, TypeInv
  PROVE  Asking = {} /\ shown = {} /\ Answering = {} /\ answers = <<>>
<1>1. Asking = {} /\ shown = {} /\ Answering = {}
  BY DEF AllOwed, Owed
<1>2. 1 .. Len(answers) = {}
  BY DEF AllOwed, Owed
<1>3. answers = <<>>
  <2>1. answers \in Seq(AnswerIds) /\ Len(answers) \in Nat
    BY DEF TypeInv, TypeOK
  <2>2. answers # <<>> => 1 \in 1 .. Len(answers)
    BY <2>1
  <2> QED
    BY <1>2, <2>2
<1> QED
  BY <1>1, <1>3

(* A request goes out when nothing else is under way. *)
LEMMA AskKeepsAnswers ==
  ASSUME TypeInv, TurnsInv, NoneCancelled, AllOwed, OneUnderWay,
         NEW t \in Turns, Ask(t), ~strayed'
  PROVE  NoneCancelled' /\ AllOwed' /\ OneUnderWay'
<1> DEFINE n == asked[t] + 1
<1>1. /\ pc \in [Turns -> TurnPCs] /\ asked \in [Turns -> 0 .. MaxRequests]
      /\ outgoing \in Seq(Messages)
  BY DEF TypeInv, TypeOK
<1>2. pc[t] = "run" /\ t \notin cancelled /\ t \in Started
  BY DEF Ask, Started
<1>3. CASE ~writer
  <2>1. Awaiting' = Awaiting /\ \A u \in Awaiting : asked'[u] = asked[u]
    BY <1>1, <1>2, <1>3 DEF Ask, Goto, Awaiting
  <2>2. UNCHANGED <<outgoing, wire, shown, answers, cancelled>>
    BY <1>3 DEF Ask, Send
  <2>3. /\ \A i \in Asking' : \E j \in Asking : outgoing'[i] = outgoing[j]
        /\ \A i, j \in Asking' : i = j
    BY <2>2, AskingKept
  <2>4. /\ \A i \in Answering' : \E j \in Answering : wire'[i] = wire[j]
        /\ \A i, j \in Answering' : i = j
    BY <2>2, AnsweringKept
  <2> QED
    BY <2>1, <2>2, <2>3, <2>4, WaysKept DEF NoneCancelled
<1>4. CASE writer
  <2>1. Awaiting = {}
    <3> SUFFICES ASSUME NEW u \in Awaiting PROVE FALSE
      OBVIOUS
    <3>1. u \in Started /\ u # t /\ u \notin cancelled
      BY <1>2 DEF Awaiting, Started, NoneCancelled
    <3>2. ~(t < u) /\ ~(u < t)
      BY <1>2, <3>1 DEF TurnsInv, NewestTurnOnly
    <3> QED
      BY <3>1, <3>2, BoundsAssumption DEF Started, Turns, BoundsAssumption
  <2>2. Asking = {} /\ shown = {} /\ Answering = {} /\ answers = <<>>
    BY <2>1, NothingOwed
  <2>3. n \in 1 .. MaxRequests
    BY <1>1, BoundsAssumption DEF Ask, BoundsAssumption
  <2>4. Awaiting' = {t} /\ asked'[t] = n
    BY <1>1, <1>4, <2>1 DEF Ask, Goto, Awaiting
  <2>5. outgoing' = Append(outgoing, Request(t, n))
    BY <1>4 DEF Ask, Send
  <2>6. /\ Request(t, n) \in Messages
        /\ Request(t, n).kind = "request"
        /\ Request(t, n).turn = t /\ Request(t, n).number = n
    BY <2>3, MessagesTyped, BoundsAssumption
  <2>7. /\ Asking' = {Len(outgoing) + 1}
        /\ outgoing'[Len(outgoing) + 1] = Request(t, n)
    <3>1. PICK m \in Messages : m.kind = "request" /\ m = Request(t, n)
      BY <2>6
    <3>2. Marked(outgoing, "request") = {} /\ outgoing \in Seq(Messages)
      BY <1>1, <2>2 DEF Asking
    <3>3. /\ Marked(Append(outgoing, m), "request") = {Len(outgoing) + 1}
          /\ Append(outgoing, m)[Len(outgoing) + 1] = m
      BY <3>1, <3>2, AppendFirst
    <3> QED
      BY <2>5, <3>1, <3>3 DEF Asking
  <2>8. UNCHANGED <<wire, shown, answers, cancelled>>
    BY DEF Ask
  <2>9. Answering' = {} /\ shown' = {} /\ answers' = <<>>
    BY <2>2, <2>8 DEF Answering
  <2>10. AllOwed'
    BY <2>4, <2>6, <2>7, <2>9 DEF AllOwed, Owed
  <2>11. OneUnderWay'
    BY <2>7, <2>9 DEF OneUnderWay
  <2>12. NoneCancelled'
    BY <1>2, <2>4, <2>8 DEF NoneCancelled
  <2> QED
    BY <2>10, <2>11, <2>12
<1> QED
  BY <1>3, <1>4

(* The writer shows the request, the client answers it, and the handler    *)
(* reads the answer: one and the same request is under way throughout.     *)
LEMMA DeliverKeepsAnswers ==
  ASSUME TypeInv, AllOwed, OneUnderWay, Deliver
  PROVE  AllOwed' /\ OneUnderWay'
<1>1. outgoing # <<>> /\ outgoing' = Tail(outgoing) /\ outgoing \in Seq(Messages)
  BY DEF Deliver, TypeInv, TypeOK
<1>2. /\ UNCHANGED <<wire, answers, asked>>
      /\ Awaiting' = Awaiting
  BY DEF Deliver, Awaiting
<1>3. /\ \A i \in Asking' : \E j \in Asking : outgoing'[i] = outgoing[j]
      /\ \A i, j \in Asking' : i = j
  BY <1>1, AskingKept
<1>4. /\ \A i \in Answering' : \E j \in Answering : wire'[i] = wire[j]
      /\ \A i, j \in Answering' : i = j
  BY <1>2, AnsweringKept
<1>5. CASE UNCHANGED shown
  BY <1>2, <1>3, <1>4, <1>5, WaysKept
<1>6. CASE ~UNCHANGED shown
  <2> DEFINE r == <<Head(outgoing).turn, Head(outgoing).number>>
  <2>1. Head(outgoing).kind = "request" /\ shown' = shown \union {r}
    BY <1>6 DEF Deliver
  <2>2. 1 \in Asking /\ Head(outgoing) = outgoing[1]
    BY <1>1, <2>1, MarkedTail DEF Asking
  <2>3. Asking' = {}
    BY <1>1, <2>1, TakeOnly DEF Asking, OneUnderWay
  <2>4. shown = {} /\ Answering = {} /\ answers = <<>>
    BY <2>2 DEF OneUnderWay
  <2>5. shown' = {r} /\ Answering' = {} /\ answers' = <<>>
    BY <1>2, <2>1, <2>4 DEF Answering
  <2>6. \E t \in Awaiting : r = <<t, asked[t]>>
    BY <2>2 DEF AllOwed, Owed
  <2>7. AllOwed'
    BY <1>2, <2>3, <2>5, <2>6 DEF AllOwed, Owed
  <2>8. OneUnderWay'
    BY <2>3, <2>5 DEF OneUnderWay
  <2> QED
    BY <2>7, <2>8
<1> QED
  BY <1>5, <1>6

LEMMA ClientKeepsAnswers ==
  ASSUME TypeInv, TurnsInv, NoneCancelled, AllOwed, OneUnderWay,
         NEW r \in shown, ClientAnswers(r)
  PROVE  AllOwed' /\ OneUnderWay'
<1>1. /\ wire' = Append(wire, Answer(r)) /\ shown' = shown \ {r}
      /\ UNCHANGED <<outgoing, answers, asked>>
      /\ Awaiting' = Awaiting
  BY DEF ClientAnswers, ClientAnswersUnasked, ClientSends, Awaiting
<1>2. \E t \in Awaiting : r = <<t, asked[t]>>
  BY DEF AllOwed, Owed
<1>3. shown' = {}
  BY <1>1, <1>2, OneAwaits DEF AllOwed, Owed
<1>4. Asking = {} /\ Answering = {} /\ answers = <<>>
  BY DEF OneUnderWay
<1>5. Asking' = {} /\ answers' = <<>>
  BY <1>1, <1>4 DEF Asking
<1>6. Answer(r) \in Frames /\ Answer(r).kind = "answer" /\ Answer(r).to = r
  BY DEF Answer, Frames, FrameKinds, AnswerIds, TypeInv, TypeOK
<1>7. Answering' = {Len(wire) + 1} /\ wire'[Len(wire) + 1] = Answer(r)
  <2> DEFINE s == Append(wire, Answer(r))
  <2>1. wire \in Seq(Frames) /\ Marked(wire, "answer") = {}
    BY <1>4 DEF Answering, TypeInv, TypeOK
  <2>2. /\ Marked(s, "answer") = {Len(wire) + 1}
        /\ s[Len(wire) + 1] = Answer(r)
    BY <1>6, <2>1, AppendFirst
  <2> QED
    BY <1>1, <2>2 DEF Answering
<1>8. AllOwed'
  BY <1>1, <1>2, <1>3, <1>5, <1>6, <1>7 DEF AllOwed, Owed
<1>9. OneUnderWay'
  BY <1>3, <1>5, <1>7 DEF OneUnderWay
<1> QED
  BY <1>8, <1>9

LEMMA PushKeepsAnswers ==
  ASSUME TypeInv, AllOwed, OneUnderWay, PushAnswer
  PROVE  AllOwed' /\ OneUnderWay'
<1> DEFINE r == Head(wire).to
<1>1. /\ wire # <<>> /\ Head(wire).kind = "answer" /\ wire' = Tail(wire)
      /\ answers' = Append(answers, r)
      /\ UNCHANGED <<outgoing, shown, asked>>
      /\ Awaiting' = Awaiting
  BY DEF PushAnswer, Reading, Awaiting
<1>2. wire \in Seq(Frames) /\ answers \in Seq(AnswerIds)
  BY DEF TypeInv, TypeOK
<1>3. 1 \in Answering /\ Head(wire) = wire[1]
  BY <1>1, <1>2, MarkedTail DEF Answering
<1>4. Answering' = {}
  BY <1>1, <1>2, TakeOnly DEF Answering, OneUnderWay
<1>5. shown = {} /\ Asking = {} /\ answers = <<>>
  BY <1>3 DEF OneUnderWay
<1>6. shown' = {} /\ Asking' = {} /\ answers' = <<r>>
  BY <1>1, <1>5 DEF Asking
<1>7. \E t \in Awaiting : r = <<t, asked[t]>>
  BY <1>3 DEF AllOwed, Owed
<1>8. AllOwed'
  BY <1>1, <1>4, <1>6, <1>7 DEF AllOwed, Owed
<1>9. OneUnderWay'
  BY <1>4, <1>6 DEF OneUnderWay
<1> QED
  BY <1>8, <1>9

(* The answer a turn takes was the only one under way. *)
LEMMA TakeKeepsAnswers ==
  ASSUME TypeInv, TurnsInv, NoneCancelled, AllOwed, OneUnderWay,
         NEW t \in Turns, TakeAnswer(t)
  PROVE  NoneCancelled' /\ AllOwed' /\ OneUnderWay'
<1>1. answers \in Seq(AnswerIds) /\ answers # <<>> /\ Len(answers) <= 1
  BY DEF TypeInv, TypeOK, TakeAnswer, OneUnderWay
<1>5. Asking = {} /\ shown = {} /\ Answering = {}
  BY <1>1 DEF OneUnderWay
<1>6. answers' = <<>>
  BY <1>1 DEF TakeAnswer
<1>7. Asking' = {} /\ shown' = {} /\ Answering' = {}
  BY <1>5 DEF TakeAnswer, Asking, Answering
<1>8. Awaiting' \subseteq Awaiting /\ UNCHANGED cancelled
  BY DEF TakeAnswer, Goto, Awaiting, TypeInv, TypeOK
<1> QED
  BY <1>6, <1>7, <1>8 DEF AllOwed, OneUnderWay, NoneCancelled

LEMMA AnswersNext ==
  ASSUME TypeInv, TurnsInv, AnswersInv, [Next]_vars
  PROVE  AnswersInv'
<1> SUFFICES ASSUME ~strayed'
             PROVE  Silent' \/ (NoneCancelled' /\ AllOwed' /\ OneUnderWay')
  BY DEF AnswersInv
<1>1. ~ClientAnswersUnasked
  BY DEF ClientAnswersUnasked
<1>2. ~strayed
  BY <1>1
     DEF Next, Client, Handler, Writer, Turn, ClientSpeaks, ClientAnswers,
         ClientAnswersUnasked, ClientSends, Disconnect, AuthOk, AuthFails,
         Reading, StartTurn, CancelTurn, CancelNewest, PushAnswer, ReplyOther,
         StopReading, ReturnHandler, Deliver, WriterFails, WriterEnds,
         EmitToken, Forward, Ask, LockAnswers, TakeAnswer, AnswersClosed,
         AgentReturns, GiveUp, ReportEnd
<1>3. CASE Silent
  BY <1>1, <1>2, <1>3
     DEF Silent, Next, Client, Handler, Writer, Turn, ClientSpeaks,
         ClientAnswers, ClientAnswersUnasked, ClientSends, Disconnect, AuthOk, AuthFails, Reading,
         StartTurn, CancelTurn, CancelNewest, PushAnswer, ReplyOther,
         StopReading, ReturnHandler, Deliver, WriterFails, WriterEnds,
         EmitToken, Forward, Ask, LockAnswers, TakeAnswer, AnswersClosed,
         AgentReturns, GiveUp, ReportEnd
<1>4. CASE NoneCancelled /\ AllOwed /\ OneUnderWay
  <2> USE <1>4
  <2>1. /\ pc \in [Turns -> TurnPCs] /\ wire \in Seq(Frames)
        /\ outgoing \in Seq(Messages)
    BY DEF TypeInv, TypeOK
  (* What most steps do: the ways keep what is on them. *)
  <2>2. ASSUME NoneCancelled', Awaiting' = Awaiting,
               shown' \subseteq shown, UNCHANGED <<asked, answers>>,
               \/ UNCHANGED outgoing
               \/ outgoing' = <<>>
               \/ \E m \in Messages : m.kind # "request" /\ Send(m),
               \/ UNCHANGED wire
               \/ wire # <<>> /\ wire' = Tail(wire)
               \/ \E f \in Frames : f.kind # "answer" /\ wire' = Append(wire, f)
        PROVE  NoneCancelled' /\ AllOwed' /\ OneUnderWay'
    <3>1. /\ \A i \in Asking' : \E j \in Asking : outgoing'[i] = outgoing[j]
          /\ \A i, j \in Asking' : i = j
      BY <2>2, AskingKept, SendKeepsAsking
    <3>2. /\ \A i \in Answering' : \E j \in Answering : wire'[i] = wire[j]
          /\ \A i, j \in Answering' : i = j
      BY <2>2, AnsweringKept
    <3>3. /\ \A t \in Awaiting : asked'[t] = asked[t]
          /\ shown' \subseteq shown /\ UNCHANGED answers
      BY <2>2
    <3>4. AllOwed' /\ OneUnderWay'
      BY <2>2, <3>1, <3>2, <3>3, WaysKept
    <3> QED
      BY <2>2, <3>4
  <2>3. ASSUME NEW kind \in {"message", "cancel", "other"}, ClientSpeaks(kind)
        PROVE  NoneCancelled' /\ AllOwed' /\ OneUnderWay'
    <3>1. Frame(kind) \in Frames /\ Frame(kind).kind # "answer"
      BY <2>3 DEF Frame, Frames, FrameKinds, AnswerIds
    <3> QED
      BY <2>2, <2>3, <3>1
         DEF ClientSpeaks, ClientSends, Awaiting, NoneCancelled
  <2>4. ASSUME NEW r \in shown, ClientAnswers(r)
        PROVE  NoneCancelled' /\ AllOwed' /\ OneUnderWay'
    BY <2>4, ClientKeepsAnswers
       DEF ClientAnswers, ClientAnswersUnasked, ClientSends, NoneCancelled, Awaiting
  <2>5. CASE Disconnect \/ StopReading \/ ReturnHandler \/ WriterFails
             \/ WriterEnds \/ UNCHANGED vars
    BY <2>2, <2>5
       DEF Disconnect, StopReading, ReturnHandler, WriterFails, WriterEnds,
           Awaiting, NoneCancelled
  <2>6. CASE AuthOk \/ AuthFails \/ ReplyOther
    BY <2>2, <2>6, MessagesTyped, BoundsAssumption
       DEF AuthOk, AuthFails, ReplyOther, Reading, Awaiting, NoneCancelled
  <2>7. CASE StartTurn \/ CancelTurn
    <3>1. Awaiting' = Awaiting
      BY <2>1, <2>7 DEF StartTurn, CancelTurn, Goto, Awaiting, Started
    <3>2. \A t \in Awaiting : t \notin cancelled'
      BY <2>7 DEF StartTurn, CancelTurn, CancelNewest, NoneCancelled
    <3> QED
      BY <2>2, <2>7, <3>1, <3>2
         DEF StartTurn, CancelTurn, Reading, NoneCancelled
  <2>8. CASE PushAnswer
    BY <2>8, PushKeepsAnswers
       DEF PushAnswer, Reading, NoneCancelled, Awaiting
  <2>9. CASE Deliver
    BY <2>9, DeliverKeepsAnswers DEF Deliver, NoneCancelled, Awaiting
  <2>10. ASSUME NEW t \in Turns, Ask(t)
         PROVE  NoneCancelled' /\ AllOwed' /\ OneUnderWay'
    BY <2>10, AskKeepsAnswers DEF Ask
  <2>11. ASSUME NEW t \in Turns, TakeAnswer(t)
         PROVE  NoneCancelled' /\ AllOwed' /\ OneUnderWay'
    BY <2>11, TakeKeepsAnswers DEF TakeAnswer
  <2>12. ASSUME NEW t \in Turns, AnswersClosed(t)
         PROVE  Silent'
    BY <2>12 DEF AnswersClosed, Silent
  <2>13. ASSUME NEW t \in Turns, GiveUp(t)
         PROVE  FALSE
    BY <2>13 DEF GiveUp, NoneCancelled
  <2>14. ASSUME NEW t \in Turns,
                EmitToken(t) \/ LockAnswers(t) \/ AgentReturns(t)
         PROVE  NoneCancelled' /\ AllOwed' /\ OneUnderWay'
    <3>1. Awaiting' = Awaiting
      BY <2>1, <2>14 DEF EmitToken, LockAnswers, AgentReturns, Goto, Awaiting
    <3> QED
      BY <2>2, <2>14, <3>1
         DEF EmitToken, LockAnswers, AgentReturns, NoneCancelled
  <2>15. ASSUME NEW t \in Turns, Forward(t) \/ ReportEnd(t)
         PROVE  NoneCancelled' /\ AllOwed' /\ OneUnderWay'
    <3>1. Awaiting' = Awaiting
      BY <2>1, <2>15 DEF Forward, ReportEnd, Goto, Awaiting
    <3>2. \E m \in Messages : m.kind # "request" /\ Send(m)
      BY <2>15, MessagesTyped, BoundsAssumption DEF Forward, ReportEnd
    <3> QED
      BY <2>2, <2>15, <3>1, <3>2 DEF Forward, ReportEnd, NoneCancelled
  <2> QED
    BY <1>1, <2>3, <2>4, <2>5, <2>6, <2>7, <2>8, <2>9, <2>10, <2>11, <2>12, <2>13,
       <2>14, <2>15
       DEF Next, Client, Handler, Writer, Turn
<1> QED
  BY <1>2, <1>3, <1>4 DEF AnswersInv

(* As long as no turn is cancelled while it awaits an answer, and the      *)
(* client answers each request once and nothing else, every request is     *)
(* resolved by the answer the client gave to it: receive() may take the    *)
(* first answer in the channel, for there is no other.                     *)
THEOREM AnswersMatchTheirRequests == Spec => []AnswersMatchUnlessStrayed
<1>1. Init => TypeInv /\ TurnsInv /\ AnswersInv
  <2> SUFFICES ASSUME Init PROVE AnswersInv
    BY TypeInit, BoundsAssumption
       DEF Init, TurnsInv, StartedInOrder, NewestTurnOnly, Started
  <2>1. Asking = {} /\ Answering = {} /\ shown = {} /\ answers = <<>>
    BY DEF Init, Asking, Answering, Marked
  <2>2. Awaiting = {}
    BY DEF Init, Awaiting
  <2>3. AllOwed /\ OneUnderWay /\ NoneCancelled
    BY <2>1, <2>2 DEF AllOwed, OneUnderWay, NoneCancelled
  <2> QED
    BY <2>2, <2>3 DEF AnswersInv
<1>2. TypeInv /\ TurnsInv /\ AnswersInv /\ [Next]_vars
         => (TypeInv /\ TurnsInv /\ AnswersInv)'
  BY TypeNext, TurnsNext, AnswersNext
<1>3. TypeInv /\ TurnsInv /\ AnswersInv => AnswersMatchUnlessStrayed
  <2> SUFFICES ASSUME TypeInv, TurnsInv, AnswersInv, ~strayed,
                      NEW t \in Turns, pc[t] = "receive", answers # <<>>
               PROVE  Head(answers) = <<t, asked[t]>>
    BY DEF AnswersMatchUnlessStrayed
  <2>1. NoneCancelled /\ AllOwed
    BY DEF AnswersInv, Silent
  <2>2. 1 \in 1 .. Len(answers) /\ Head(answers) = answers[1]
    BY DEF TypeInv, TypeOK
  <2>3. t \in Awaiting
    BY DEF Awaiting
  <2> QED
    BY <2>1, <2>2, <2>3, OneAwaits DEF AllOwed, Owed
<1> QED
  BY <1>1, <1>2, <1>3, PTL DEF Spec

(* Done or Error is the last message of its turn: the turn awaits its      *)
(* forwarder before it reports, and emits no token after.                  *)
THEOREM ReportComesLast == Spec => []ReportIsLast
<1>1. Init => TypeInv /\ ReportIsLast
  BY TypeInit, BoundsAssumption DEF Init, ReportIsLast
<1>2. ASSUME TypeInv, ReportIsLast, [Next]_vars
      PROVE  ReportIsLast'
  <2>1. /\ pc \in [Turns -> TurnPCs]
        /\ tokens \in [Turns -> 0 .. MaxTokens]
    BY <1>2 DEF TypeInv, TypeOK
  <2>2. CASE StartTurn
    BY <1>2, <2>1, <2>2 DEF StartTurn, Goto, ReportIsLast
  <2>3. ASSUME NEW t \in Turns, EmitToken(t)
        PROVE  ReportIsLast'
    BY <1>2, <2>1, <2>3 DEF EmitToken, ReportIsLast
  <2>4. ASSUME NEW t \in Turns, Forward(t)
        PROVE  ReportIsLast'
    BY <1>2, <2>1, <2>4 DEF Forward, ReportIsLast
  <2>5. ASSUME NEW t \in Turns, ReportEnd(t)
        PROVE  ReportIsLast'
    BY <1>2, <2>1, <2>5 DEF ReportEnd, Goto, ReportIsLast
  <2>6. ASSUME NEW t \in Turns, NEW label \in TurnPCs \ {"ended"},
               Goto(t, label), UNCHANGED tokens
        PROVE  ReportIsLast'
    BY <1>2, <2>1, <2>6 DEF Goto, ReportIsLast
  <2>7. CASE \E t \in Turns :
               \/ Ask(t) \/ LockAnswers(t) \/ TakeAnswer(t)
               \/ AnswersClosed(t) \/ AgentReturns(t) \/ GiveUp(t)
    BY <2>6, <2>7
       DEF Ask, LockAnswers, TakeAnswer, AnswersClosed, AgentReturns, GiveUp,
           TurnPCs
  <2>8. CASE UNCHANGED <<pc, tokens>>
    BY <1>2, <2>8 DEF ReportIsLast
  <2> QED
    BY <1>2, <2>2, <2>3, <2>4, <2>5, <2>7, <2>8
       DEF Next, Client, Handler, Writer, Turn, ClientSpeaks, ClientAnswers,
           ClientAnswersUnasked, ClientSends, Disconnect, AuthOk, AuthFails, Reading, CancelTurn,
           PushAnswer, ReplyOther, StopReading, ReturnHandler, Deliver,
           WriterFails, WriterEnds
<1>3. TypeInv /\ ReportIsLast /\ [Next]_vars => (TypeInv /\ ReportIsLast)'
  BY <1>2, TypeNext
<1> QED
  BY <1>1, <1>3, PTL DEF Spec
=============================================================================
