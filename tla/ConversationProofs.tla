------------------------ MODULE ConversationProofs -------------------------
(***************************************************************************)
(* Theorems about the users of the session store.  Channels, for any bots, *)
(* users, updates, requests and restarts: the type invariant, that no      *)
(* update is confirmed before it is handled, and that a conversation is    *)
(* only continued or dropped.  Voice, for any number of utterances and any *)
(* capacity of its queues: the type invariant, and that of an answer that  *)
(* is cancelled no more pieces are sent than were queued, and one.  The    *)
(* two systems share the names of SessionStore only; no proof about one    *)
(* uses an assumption of the other.                                        *)
(***************************************************************************)
EXTENDS Channels, Voice, FiniteSetTheorems, FunctionTheorems, TLAPS

-----------------------------------------------------------------------------
(* The chat requests *)

LEMMA TalksClosed ==
  /\ <<>> \in Talks
  /\ \A said \in Talks, t \in Turns : Append(said, t) \in Talks
BY DEF Talks

LEMMA LoadedTyped ==
  ASSUME StoreTypeOK, NEW s \in Sids PROVE Loaded(s) \in Talks
BY TalksClosed DEF StoreTypeOK, Loaded

LEMMA SaveTyped ==
  ASSUME StoreTypeOK, NEW s \in Sids, NEW said \in Talks, SaveOrNot(s, said)
  PROVE  StoreTypeOK'
BY DEF StoreTypeOK, SaveOrNot, Save

LEMMA ForgottenTyped ==
  ASSUME StoreTypeOK, NEW s \in Sids, Forgotten(s)
  PROVE  StoreTypeOK'
BY DEF StoreTypeOK, Forgotten

(* The steps of a request. *)
RequestStep(r) ==
    \/ \E how \in {"chat", "stream", "audio", "image"} : Ask(r, how)
    \/ Prepare(r) \/ CreateAgent(r) \/ Restore(r) \/ RunTurn(r) \/ CutOff(r)

LEMMA ChatCases ==
  ASSUME ChatNext
  PROVE  (\E r \in Requests : RequestStep(r)) \/ DeleteSession \/ GrowsOld
BY DEF ChatNext, Chat, AudioChat, ImageChat, StreamChat, RequestStep

LEMMA EndsTyped ==
  ASSUME SessionsTypeOK, NEW r \in Requests, NEW how \in {"done", "error", "cut"},
         Ends(r, how), StoreTypeOK'
  PROVE  SessionsTypeOK'
BY TalksClosed DEF SessionsTypeOK, Ends, Goes, ChatSteps

LEMMA RequestTyped ==
  ASSUME SessionsTypeOK, NEW r \in Requests, RequestStep(r)
  PROVE  SessionsTypeOK'
<1>1. /\ StoreTypeOK /\ r \in Sids /\ r \in Turns /\ heard[r] \in Talks
      /\ resumed[r] \in Sids \union {None}
  BY SidsAssumption, RequestAssumption DEF SessionsTypeOK
<1>2. UNCHANGED <<saved, stale>> => StoreTypeOK'
  BY <1>1 DEF StoreTypeOK
<1>3. Fails(r) => SessionsTypeOK'
  BY <1>2, EndsTyped DEF Fails
<1>4. ASSUME NEW how \in {"chat", "stream", "audio", "image"}, Ask(r, how)
      PROVE  SessionsTypeOK'
  BY <1>2, <1>4 DEF Ask, Goes, Listed, SessionsTypeOK, ChatSteps
<1>5. CASE Prepare(r)
  BY <1>2, <1>3, <1>5 DEF Prepare, Goes, SessionsTypeOK, ChatSteps
<1>6. CASE CreateAgent(r)
  BY <1>2, <1>3, <1>6 DEF CreateAgent, Goes, SessionsTypeOK, ChatSteps
<1>7. CASE Restore(r)
  <2>1. CASE Fails(r)
    BY <1>3, <2>1
  <2>2. CASE ~Fails(r)
    <3>1. (IF resumed[r] = None THEN <<>> ELSE Loaded(resumed[r])) \in Talks
      <4>1. ASSUME resumed[r] # None PROVE Loaded(resumed[r]) \in Talks
        BY <1>1, <4>1, LoadedTyped
      <4> QED
        BY <4>1, TalksClosed
    <3>2. /\ heard' = [heard EXCEPT ![r] = IF resumed[r] = None THEN <<>>
                                           ELSE Loaded(resumed[r])]
          /\ step' = [step EXCEPT ![r] = "turn"]
          /\ UNCHANGED <<saved, stale, kind, resumed>>
      BY <1>7, <2>2 DEF Restore, Goes
    <3> QED
      BY <1>2, <3>1, <3>2 DEF SessionsTypeOK, ChatSteps
  <2> QED
    BY <2>1, <2>2
<1>8. CASE RunTurn(r)
  <2>1. Append(heard[r], r) \in Talks
    BY <1>1, TalksClosed
  <2> QED
    BY <1>1, <1>3, <1>8, <2>1, SaveTyped, EndsTyped DEF RunTurn
<1>9. CASE CutOff(r)
  BY <1>2, <1>9, EndsTyped DEF CutOff
<1> QED
  BY <1>4, <1>5, <1>6, <1>7, <1>8, <1>9 DEF RequestStep

LEMMA ChatTyped == ASSUME SessionsTypeOK, ChatNext PROVE SessionsTypeOK'
<1>1. StoreTypeOK
  BY DEF SessionsTypeOK
<1>2. CASE DeleteSession
  <2>1. UNCHANGED chats /\ \E s \in Sids : Forgotten(s)
    BY <1>2 DEF DeleteSession, Listed
  <2>2. StoreTypeOK'
    BY <1>1, <2>1, ForgottenTyped
  <2> QED
    BY <2>1, <2>2 DEF chats, SessionsTypeOK
<1>3. CASE GrowsOld
  BY <1>3 DEF GrowsOld, Listed, chats, SessionsTypeOK, StoreTypeOK
<1> QED
  BY <1>2, <1>3, ChatCases, RequestTyped

-----------------------------------------------------------------------------
(* The channels *)

Busy == {"agent", "turn", "answer", "reply"}

(* A channel takes updates that have arrived, in their order. *)
ChannelOK(b) ==
    /\ arrived[b] \in 0 .. Len(Inbox[b])
    /\ confirmed[b] \in 0 .. arrived[b]
    /\ taken[b] \in 0 .. arrived[b]
    /\ end[b] \in 0 .. arrived[b]
    /\ task[b] \in Busy => taken[b] > 0
    /\ task[b] = "next" => taken[b] < end[b]
    /\ task[b] # "off" => starts \in 1 .. MaxRestarts

ChannelInv == TypeOK /\ \A b \in Bots : ChannelOK(b)

LEMMA ChannelInit == Init => ChannelInv
<1> SUFFICES ASSUME Init PROVE ChannelInv
  OBVIOUS
<1>1. SessionsTypeOK
  BY TalksClosed DEF Init, SessionsInit, SessionsTypeOK, StoreInit, StoreTypeOK, ChatSteps
<1>2. TypeOK
  <2>1. Quiet \in [Users -> Nat] /\ 0 \in 0 .. MaxRestarts /\ "off" \in Tasks
    BY LimitAssumption DEF Quiet, Tasks
  <2>2. /\ starts \in 0 .. MaxRestarts /\ task \in [Bots -> Tasks]
        /\ talk \in [Bots -> Talks] /\ recent \in [Bots -> [Users -> Nat]]
    BY <2>1, TalksClosed DEF Init
  <2>3. /\ arrived \in [Bots -> Nat] /\ confirmed \in [Bots -> Nat]
        /\ taken \in [Bots -> Nat] /\ end \in [Bots -> Nat]
    BY DEF Init
  <2>4. up \in BOOLEAN /\ handled \subseteq UpdateIds
    BY DEF Init
  <2> QED
    BY <1>1, <2>2, <2>3, <2>4 DEF TypeOK
<1>3. \A b \in Bots : ChannelOK(b)
  BY InboxAssumption DEF Init, ChannelOK, Busy
<1> QED
  BY <1>2, <1>3 DEF ChannelInv

LEMMA StoreAndChannels ==
  ASSUME TypeOK
  PROVE  /\ StoreTypeOK /\ SessionsTypeOK
         /\ starts \in 0 .. MaxRestarts /\ MaxRestarts \in Nat
         /\ arrived \in [Bots -> Nat] /\ confirmed \in [Bots -> Nat]
         /\ task \in [Bots -> Tasks] /\ taken \in [Bots -> Nat] /\ end \in [Bots -> Nat]
         /\ talk \in [Bots -> Talks] /\ recent \in [Bots -> [Users -> Nat]]
         /\ handled \subseteq UpdateIds
BY LimitAssumption DEF TypeOK, SessionsTypeOK

(* An update that has arrived is one of the inbox. *)
LEMMA UpdateTyped ==
  ASSUME NEW b \in Bots, NEW n \in 1 .. Len(Inbox[b])
  PROVE  /\ Inbox[b][n].user \in Users /\ <<b, n>> \in UpdateIds
         /\ \A m \in 1 .. MaxRestarts : <<b, n, m>> \in Turns
<1>1. Inbox[b] \in Seq(Update)
  BY InboxAssumption
<1>2. Inbox[b][n] \in Update
  BY <1>1
<1>3. <<b, n>> \in UpdateIds
  BY DEF UpdateIds
<1>4. \A m \in 1 .. MaxRestarts : <<b, n, m>> \in Attempts
  <2>1. ASSUME NEW m \in 1 .. MaxRestarts
        PROVE  <<b, n, m>> \in Attempts
    <3> DEFINE u == <<b, n>>
    <3>1. <<b, n, m>> = <<u[1], u[2], m>>
      OBVIOUS
    <3> QED
      BY <1>3, <3>1 DEF Attempts
  <2> QED
    BY <2>1
<1> QED
  BY <1>2, <1>3, <1>4, TurnsAssumption DEF Update

(* What a step of the task of channel b may change of its state. *)
LEMMA ChannelMoves ==
  ASSUME ChannelInv, NEW b \in Bots, NEW where \in Tasks, Becomes(b, where),
         SessionsTypeOK', talk' \in [Bots -> Talks],
         recent' \in [Bots -> [Users -> Nat]], handled' \subseteq UpdateIds,
         task[b] # "off", where # "off",
         UNCHANGED <<up, starts, arrived>>,
         NEW c \in 0 .. arrived[b], confirmed' = [confirmed EXCEPT ![b] = c],
         NEW n \in 0 .. arrived[b], taken' = [taken EXCEPT ![b] = n],
         NEW e \in 0 .. arrived[b], end' = [end EXCEPT ![b] = e],
         where \in Busy => n > 0, where = "next" => n < e
  PROVE  ChannelInv'
<1>1. TypeOK /\ \A a \in Bots : ChannelOK(a)
  BY DEF ChannelInv
<1>2. /\ task' \in [Bots -> Tasks] /\ task'[b] = where
      /\ confirmed' \in [Bots -> Nat] /\ confirmed'[b] = c
      /\ taken' \in [Bots -> Nat] /\ taken'[b] = n
      /\ end' \in [Bots -> Nat] /\ end'[b] = e
      /\ \A a \in Bots \ {b} : /\ task'[a] = task[a] /\ confirmed'[a] = confirmed[a]
                               /\ taken'[a] = taken[a] /\ end'[a] = end[a]
  <2>1. arrived[b] \in Nat
    BY <1>1, StoreAndChannels
  <2>2. c \in Nat /\ n \in Nat /\ e \in Nat
    BY <2>1
  <2> QED
    BY <1>1, <2>2, StoreAndChannels DEF Becomes
<1>3. TypeOK'
  BY <1>1, <1>2 DEF TypeOK
<1>4. \A a \in Bots : ChannelOK(a)'
  BY <1>1, <1>2 DEF ChannelOK
<1> QED
  BY <1>3, <1>4 DEF ChannelInv

-----------------------------------------------------------------------------

LEMMA AsItIs ==
  ASSUME ChannelInv, NEW b \in Bots
  PROVE  /\ confirmed[b] \in 0 .. arrived[b]
         /\ confirmed = [confirmed EXCEPT ![b] = confirmed[b]]
         /\ taken[b] \in 0 .. arrived[b] /\ taken = [taken EXCEPT ![b] = taken[b]]
         /\ end[b] \in 0 .. arrived[b] /\ end = [end EXCEPT ![b] = end[b]]
         /\ arrived[b] \in 0 .. Len(Inbox[b])
BY StoreAndChannels DEF ChannelInv, ChannelOK

(* A step that takes no update. *)
LEMMA TaskMoves ==
  ASSUME ChannelInv, NEW b \in Bots, NEW where \in Tasks, Becomes(b, where),
         SessionsTypeOK', talk' \in [Bots -> Talks], handled' \subseteq UpdateIds,
         task[b] # "off", where # "off",
         UNCHANGED <<up, starts, telegram, taken, end, recent>>,
         where \in Busy => taken[b] > 0, where = "next" => taken[b] < end[b]
  PROVE  ChannelInv'
<1>1. recent' \in [Bots -> [Users -> Nat]]
  BY StoreAndChannels DEF ChannelInv
<1>2. /\ confirmed' = [confirmed EXCEPT ![b] = confirmed[b]]
      /\ taken' = [taken EXCEPT ![b] = taken[b]]
      /\ end' = [end EXCEPT ![b] = end[b]] /\ arrived' = arrived
  BY AsItIs DEF telegram
<1> QED
  BY <1>1, <1>2, AsItIs, ChannelMoves

(* A step that takes the next one. *)
LEMMA TakeMoves ==
  ASSUME ChannelInv, NEW b \in Bots, NEW where \in Tasks, Becomes(b, where),
         SessionsTypeOK', talk' \in [Bots -> Talks],
         recent' \in [Bots -> [Users -> Nat]], handled' \subseteq UpdateIds,
         task[b] = "next", where # "off",
         taken' = [taken EXCEPT ![b] = taken[b] + 1],
         UNCHANGED <<up, starts, telegram, end>>,
         where = "next" => taken[b] + 1 < end[b]
  PROVE  ChannelInv'
<1>1. taken[b] < end[b]
  BY DEF ChannelInv, ChannelOK
<1>2. taken[b] + 1 \in 0 .. arrived[b] /\ taken[b] + 1 > 0
  BY <1>1, AsItIs
<1>3. /\ confirmed' = [confirmed EXCEPT ![b] = confirmed[b]]
      /\ end' = [end EXCEPT ![b] = end[b]] /\ arrived' = arrived
  BY AsItIs DEF telegram
<1>4. task[b] # "off"
  OBVIOUS
<1> QED
  BY <1>2, <1>3, <1>4, AsItIs, ChannelMoves

(* The next update has arrived. *)
LEMMA NextArrived ==
  ASSUME ChannelInv, NEW b \in Bots, task[b] = "next"
  PROVE  taken[b] + 1 \in 1 .. Len(Inbox[b]) /\ taken[b] + 1 \in 1 .. end[b]
<1>1. taken[b] < end[b]
  BY DEF ChannelInv, ChannelOK
<1> QED
  BY <1>1, AsItIs

LEMMA RunTyped ==
  ASSUME ChannelInv, NEW b \in Bots, RunChannel(b) \/ ChunkPanics(b)
  PROVE  ChannelInv'
<1>1. TypeOK
  BY DEF ChannelInv
<1>2. UNCHANGED <<saved, stale, chats>> => SessionsTypeOK'
  BY <1>1, StoreAndChannels DEF SessionsTypeOK, StoreTypeOK, chats
<1>3. UNCHANGED chats /\ StoreTypeOK' => SessionsTypeOK'
  BY <1>1, StoreAndChannels DEF SessionsTypeOK, chats
<1>4. Tasks = {"off", "verify", "poll", "next", "agent", "turn", "answer", "reply", "dead"}
  BY DEF Tasks
<1>5. ASSUME NEW n, TakeUpdate(b, n)
      PROVE  /\ task[b] = "next" /\ taken' = [taken EXCEPT ![b] = taken[b] + 1]
             /\ n = taken[b] + 1
             /\ UNCHANGED <<chats, up, starts, telegram, end, handled>>
             /\ Inbox[b][n].user \in Users
  BY <1>5, NextArrived, UpdateTyped DEF TakeUpdate
<1>6. ASSUME NEW u \in Users, Count(b, u) PROVE recent' \in [Bots -> [Users -> Nat]]
  <2>1. recent \in [Bots -> [Users -> Nat]]
    BY <1>1, StoreAndChannels
  <2>2. [recent[b] EXCEPT ![u] = @ + 1] \in [Users -> Nat]
    BY <2>1
  <2>3. recent' = [recent EXCEPT ![b] = [recent[b] EXCEPT ![u] = @ + 1]]
    BY <1>6, <2>1 DEF Count
  <2> QED
    BY <2>1, <2>2, <2>3
<1>7. CASE Verify(b)
  BY <1>1, <1>2, <1>4, <1>7, TaskMoves, StoreAndChannels DEF Verify, Busy
<1>8. CASE GetUpdates(b)
  <2> DEFINE kept == IF taken[b] > confirmed[b] THEN taken[b] ELSE confirmed[b]
  <2>1. kept \in 0 .. arrived[b]
    BY AsItIs
  <2>2. /\ task[b] = "poll"
        /\ confirmed' = [confirmed EXCEPT ![b] = kept]
        /\ taken' = [taken EXCEPT ![b] = kept]
        /\ \/ UNCHANGED <<task, end>>
           \/ \E last \in kept + 1 .. arrived[b] :
                 end' = [end EXCEPT ![b] = last] /\ Becomes(b, "next")
        /\ UNCHANGED <<saved, stale, chats, up, starts, arrived, talk, recent, handled>>
    BY <1>8 DEF GetUpdates
  <2> HIDE DEF kept
  <2>3. CASE UNCHANGED <<task, end>>
    <3>1. Becomes(b, "poll") /\ end' = [end EXCEPT ![b] = end[b]]
      BY <1>1, <2>2, <2>3, AsItIs, StoreAndChannels DEF Becomes
    <3> QED
      BY <1>1, <1>2, <1>4, <2>1, <2>2, <3>1, AsItIs, ChannelMoves, StoreAndChannels DEF Busy
  <2>4. ASSUME NEW last \in kept + 1 .. arrived[b],
               end' = [end EXCEPT ![b] = last], Becomes(b, "next")
        PROVE  ChannelInv'
    <3>1. last \in 0 .. arrived[b] /\ kept < last
      BY <2>1, <2>4
    <3> QED
      BY <1>1, <1>2, <1>4, <2>1, <2>2, <2>4, <3>1, ChannelMoves, StoreAndChannels DEF Busy
  <2> QED
    BY <2>2, <2>3, <2>4
<1>9. CASE Ignore(b)
  <2>1. /\ task[b] = "next" /\ taken' = [taken EXCEPT ![b] = taken[b] + 1]
        /\ handled' = handled \union {<<b, taken[b] + 1>>}
        /\ Becomes(b, IF taken[b] + 1 < end[b] THEN "next" ELSE "poll")
        /\ UNCHANGED <<saved, stale, chats, up, starts, telegram, end, talk, recent>>
    BY <1>9 DEF Ignore, Done
  <2>2. handled' \subseteq UpdateIds
    BY <1>1, <2>1, NextArrived, UpdateTyped, StoreAndChannels
  <2>3. CASE taken[b] + 1 < end[b]
    BY <1>1, <1>2, <1>4, <2>1, <2>2, <2>3, TakeMoves, StoreAndChannels
  <2>4. CASE ~(taken[b] + 1 < end[b])
    BY <1>1, <1>2, <1>4, <2>1, <2>2, <2>4, TakeMoves, StoreAndChannels
  <2> QED
    BY <2>3, <2>4
<1>10. CASE Refuse(b)
  BY <1>1, <1>2, <1>4, <1>5, <1>10, TakeMoves, StoreAndChannels DEF Refuse
<1>11. CASE SpecialCommand(b)
  <2>1. PICK n \in {taken[b] + 1} :
           /\ TakeUpdate(b, n) /\ Count(b, Inbox[b][n].user)
           /\ Forgotten(Inbox[b][n].user) \/ UNCHANGED <<saved, stale>>
           /\ Becomes(b, "reply") /\ UNCHANGED talk
    BY <1>11 DEF SpecialCommand
  <2>2. Inbox[b][n].user \in Users /\ Inbox[b][n].user \in Sids
    BY <1>5, <2>1, SidsAssumption
  <2>3. StoreTypeOK'
    BY <1>1, <2>1, <2>2, ForgottenTyped, StoreAndChannels DEF StoreTypeOK
  <2> QED
    BY <1>1, <1>3, <1>4, <1>5, <1>6, <2>1, <2>2, <2>3, TakeMoves, StoreAndChannels
<1>12. CASE HandleMessage(b)
  <2>1. PICK n \in {taken[b] + 1} :
           /\ TakeUpdate(b, n) /\ Count(b, Inbox[b][n].user)
           /\ Becomes(b, "agent") /\ UNCHANGED <<saved, stale, talk>>
    BY <1>12 DEF HandleMessage
  <2> QED
    BY <1>1, <1>2, <1>4, <1>5, <1>6, <2>1, TakeMoves, StoreAndChannels
<1>13. ASSUME task[b] \in Busy
       PROVE  /\ taken[b] > 0 /\ taken[b] \in 1 .. Len(Inbox[b])
              /\ Sender(b) \in Users /\ Sender(b) \in Sids
              /\ <<b, taken[b]>> \in UpdateIds
              /\ <<b, taken[b], starts>> \in Turns
  <2>1. taken[b] > 0 /\ starts \in 1 .. MaxRestarts
    BY <1>13 DEF ChannelInv, ChannelOK, Busy
  <2>2. taken[b] \in 1 .. Len(Inbox[b])
    BY <2>1, AsItIs
  <2> QED
    BY <2>1, <2>2, UpdateTyped, SidsAssumption DEF Sender
<1>14. CASE BeginTurn(b)
  <2>1. Loaded(Sender(b)) \in Talks /\ taken[b] > 0
    BY <1>1, <1>13, <1>14, LoadedTyped, StoreAndChannels DEF BeginTurn, Busy
  <2>2. talk' \in [Bots -> Talks]
    BY <1>1, <1>14, <2>1, StoreAndChannels DEF BeginTurn
  <2> QED
    BY <1>1, <1>2, <1>4, <1>14, <2>1, <2>2, TaskMoves, StoreAndChannels DEF BeginTurn, Busy
<1>15. CASE FinishTurn(b)
  <2>1. /\ taken[b] > 0 /\ Sender(b) \in Sids
        /\ Append(talk[b], <<b, taken[b], starts>>) \in Talks
    BY <1>1, <1>13, <1>15, TalksClosed, StoreAndChannels DEF FinishTurn, Busy
  <2>2. talk' \in [Bots -> Talks]
    BY <1>1, <1>15, TalksClosed, StoreAndChannels DEF FinishTurn
  <2>3. StoreTypeOK'
    BY <1>1, <1>15, <2>1, SaveTyped, StoreAndChannels DEF FinishTurn, StoreTypeOK
  <2> QED
    BY <1>1, <1>3, <1>4, <1>15, <2>1, <2>2, <2>3, TaskMoves, StoreAndChannels
    DEF FinishTurn, Busy
<1>16. CASE Reply(b)
  <2>1. /\ task[b] \in {"answer", "reply"}
        /\ handled' = handled \union {<<b, taken[b]>>}
        /\ Becomes(b, IF taken[b] < end[b] THEN "next" ELSE "poll")
        /\ UNCHANGED <<saved, stale, chats, up, starts, telegram, taken, end, talk, recent>>
    BY <1>16 DEF Reply, Done
  <2>2. handled' \subseteq UpdateIds
    BY <1>1, <1>13, <2>1, StoreAndChannels DEF Busy
  <2>3. CASE taken[b] < end[b]
    BY <1>1, <1>2, <1>4, <2>1, <2>2, <2>3, TaskMoves, StoreAndChannels DEF Busy
  <2>4. CASE ~(taken[b] < end[b])
    BY <1>1, <1>2, <1>4, <2>1, <2>2, <2>4, TaskMoves, StoreAndChannels DEF Busy
  <2> QED
    BY <2>3, <2>4
<1>17. CASE ChunkPanics(b)
  BY <1>1, <1>2, <1>4, <1>17, TaskMoves, StoreAndChannels DEF ChunkPanics, Busy
<1> QED
  BY <1>7, <1>8, <1>9, <1>10, <1>11, <1>12, <1>14, <1>15, <1>16, <1>17 DEF RunChannel

LEMMA ChannelNext == ChannelInv /\ [Next]_vars => ChannelInv'
<1> SUFFICES ASSUME ChannelInv, [Next]_vars PROVE ChannelInv'
  OBVIOUS
<1>1. TypeOK /\ \A b \in Bots : ChannelOK(b)
  BY DEF ChannelInv
<1>2. ASSUME NEW b \in Bots, RunChannel(b) \/ ChunkPanics(b) PROVE ChannelInv'
  BY <1>2, RunTyped
<1>3. ASSUME SessionsTypeOK', UNCHANGED <<up, starts, telegram, channels>>
      PROVE  ChannelInv'
  BY <1>1, <1>3 DEF ChannelInv, ChannelOK, TypeOK, telegram, channels
<1>4. CASE up /\ ChatNext /\ UNCHANGED <<up, starts, telegram, channels>>
  BY <1>1, <1>3, <1>4, ChatTyped, StoreAndChannels
<1>5. CASE UNCHANGED vars
  <2>1. SessionsTypeOK'
    BY <1>1, <1>5, StoreAndChannels DEF vars, SessionsTypeOK, StoreTypeOK, chats
  <2> QED
    BY <1>3, <1>5, <2>1 DEF vars
<1>6. CASE StartAll
  <2>1. /\ starts' = starts + 1 /\ starts < MaxRestarts /\ up' = TRUE
        /\ taken' = [b \in Bots |-> 0] /\ end' = [b \in Bots |-> 0]
        /\ talk' = [b \in Bots |-> <<>>] /\ recent' = [b \in Bots |-> Quiet]
        /\ task' \in [Bots -> {"verify", "off"}]
        /\ UNCHANGED <<saved, stale, chats, telegram, handled>>
    BY <1>6 DEF StartAll
  <2>2. SessionsTypeOK'
    BY <1>1, <2>1, StoreAndChannels DEF SessionsTypeOK, StoreTypeOK, chats
  <2>3. starts' \in 1 .. MaxRestarts /\ starts' \in 0 .. MaxRestarts
    BY <1>1, <2>1, StoreAndChannels
  <2>4. /\ task' \in [Bots -> Tasks] /\ recent' \in [Bots -> [Users -> Nat]]
        /\ talk' \in [Bots -> Talks]
    BY <2>1, TalksClosed DEF Tasks, Quiet
  <2>5. \A b \in Bots : task'[b] \in {"verify", "off"} /\ taken'[b] = 0 /\ end'[b] = 0
    BY <2>1
  <2>6. \A b \in Bots : arrived[b] \in Nat
    BY <1>1, StoreAndChannels
  <2>7. \A b \in Bots : ChannelOK(b)'
    BY <1>1, <2>1, <2>3, <2>5, <2>6 DEF ChannelOK, telegram, Busy
  <2>8. TypeOK'
    BY <1>1, <2>1, <2>2, <2>3, <2>4 DEF TypeOK, telegram
  <2> QED
    BY <2>7, <2>8 DEF ChannelInv
<1>7. CASE StopAll
  <2>1. /\ up' = FALSE /\ task' = [b \in Bots |-> "off"] /\ ChatsCut
        /\ UNCHANGED <<saved, stale, starts, telegram, taken, end, talk, recent, handled>>
    BY <1>7 DEF StopAll
  <2>2. SessionsTypeOK'
    BY <1>1, <2>1, TalksClosed, StoreAndChannels
    DEF ChatsCut, SessionsTypeOK, StoreTypeOK, ChatSteps
  <2>3. TypeOK'
    BY <1>1, <2>1, <2>2 DEF TypeOK, telegram, Tasks
  <2>4. \A b \in Bots : ChannelOK(b)'
    BY <1>1, <2>1 DEF ChannelOK, telegram, Busy
  <2> QED
    BY <2>3, <2>4 DEF ChannelInv
<1>8. ASSUME NEW b \in Bots, UpdateArrives(b) PROVE ChannelInv'
  <2>1. /\ arrived[b] < Len(Inbox[b]) /\ arrived' = [arrived EXCEPT ![b] = @ + 1]
        /\ UNCHANGED <<saved, stale, chats, up, starts, confirmed, channels>>
    BY <1>8 DEF UpdateArrives
  <2>2. /\ arrived' \in [Bots -> Nat] /\ arrived'[b] = arrived[b] + 1
        /\ \A a \in Bots \ {b} : arrived'[a] = arrived[a]
    BY <1>1, <2>1, StoreAndChannels
  <2>3. Len(Inbox[b]) \in Nat /\ arrived[b] \in Nat
    BY <1>1, StoreAndChannels, InboxAssumption
  <2>4. SessionsTypeOK'
    BY <1>1, <2>1, StoreAndChannels DEF SessionsTypeOK, StoreTypeOK, chats
  <2>5. TypeOK'
    BY <1>1, <2>1, <2>2, <2>4 DEF TypeOK, channels
  <2>6. \A a \in Bots : ChannelOK(a)'
    BY <1>1, <2>1, <2>2, <2>3 DEF ChannelOK, channels
  <2> QED
    BY <2>5, <2>6 DEF ChannelInv
<1>9. ASSUME NEW b \in Bots, Expires(b) PROVE ChannelInv'
  <2>1. PICK u \in Users : recent[b][u] > 0 /\ recent' = [recent EXCEPT ![b][u] = @ - 1]
    BY <1>9 DEF Expires
  <2>2. [recent[b] EXCEPT ![u] = @ - 1] \in [Users -> Nat]
    BY <1>1, <2>1, StoreAndChannels
  <2>3. recent' = [recent EXCEPT ![b] = [recent[b] EXCEPT ![u] = @ - 1]]
    BY <1>1, <2>1, StoreAndChannels
  <2>4. recent' \in [Bots -> [Users -> Nat]]
    BY <1>1, <2>2, <2>3, StoreAndChannels
  <2>5. UNCHANGED <<saved, stale, chats, up, starts, telegram, task, taken, end, talk, handled>>
    BY <1>9 DEF Expires
  <2>6. SessionsTypeOK'
    BY <1>1, <2>5, StoreAndChannels DEF SessionsTypeOK, StoreTypeOK, chats
  <2> QED
    BY <1>1, <2>4, <2>5, <2>6 DEF ChannelInv, TypeOK, ChannelOK, telegram
<1> QED
  BY <1>2, <1>4, <1>5, <1>6, <1>7, <1>8, <1>9 DEF Next

(* Every state of the channels is well typed, whatever the handlers of the *)
(* other requests do meanwhile; no channel takes an update that has not    *)
(* arrived.                                                                *)
THEOREM TypeCorrect == Spec => []TypeOK
<1>1. ChannelInv => TypeOK
  BY DEF ChannelInv
<1> QED
  BY <1>1, ChannelInit, ChannelNext, PTL DEF Spec

-----------------------------------------------------------------------------
(* Updates *)

(* Whatever a channel has taken is handled, but for the update it works    *)
(* on, or was at when it ended; it is then that it does not poll.          *)
HandledOK(b) ==
    /\ \A n \in 1 .. confirmed[b] : <<b, n>> \in handled
    /\ task[b] \in {"verify", "poll", "next"} =>
          \A n \in 1 .. taken[b] : <<b, n>> \in handled
    /\ task[b] \in Busy =>
          \A n \in 1 .. taken[b] - 1 : <<b, n>> \in handled

HandledInv == \A b \in Bots : HandledOK(b)

LEMMA HandledInit == Init => HandledInv
BY DEF Init, HandledInv, HandledOK, Busy

(* A step of channel b leaves the updates of the others alone. *)
LEMMA HandledOthers ==
  ASSUME HandledInv, NEW b \in Bots, handled \subseteq handled',
         \A a \in Bots \ {b} : /\ task'[a] = task[a] /\ taken'[a] = taken[a]
                               /\ confirmed'[a] = confirmed[a],
         HandledOK(b)'
  PROVE  HandledInv'
<1>1. ASSUME NEW a \in Bots \ {b} PROVE HandledOK(a)'
  BY <1>1 DEF HandledInv, HandledOK
<1> QED
  BY <1>1 DEF HandledInv

LEMMA HandledRun ==
  ASSUME ChannelInv, HandledInv, NEW b \in Bots, RunChannel(b) \/ ChunkPanics(b)
  PROVE  HandledInv'
<1>1. /\ confirmed \in [Bots -> Nat] /\ task \in [Bots -> Tasks]
      /\ taken \in [Bots -> Nat] /\ taken[b] \in Nat /\ confirmed[b] \in Nat
  BY StoreAndChannels DEF ChannelInv
<1>2. HandledOK(b)
  BY DEF HandledInv
<1>3. ASSUME NEW where, Becomes(b, where),
             UNCHANGED <<taken, confirmed>>, handled' = handled,
             where \in {"verify", "poll", "next"} => task[b] \in {"verify", "poll", "next"},
             where \in Busy => task[b] \in Busy
      PROVE  HandledInv'
  <2>1. task'[b] = where /\ \A a \in Bots \ {b} : task'[a] = task[a]
    BY <1>1, <1>3 DEF Becomes
  <2>2. HandledOK(b)'
    BY <1>2, <1>3, <2>1 DEF HandledOK
  <2> QED
    BY <1>3, <2>1, <2>2, HandledOthers
<1>4. ASSUME NEW where \in Busy, Becomes(b, where), task[b] = "next",
             taken' = [taken EXCEPT ![b] = taken[b] + 1],
             UNCHANGED confirmed, handled' = handled
      PROVE  HandledInv'
  <2>1. /\ task'[b] = where /\ taken'[b] = taken[b] + 1 /\ confirmed'[b] = confirmed[b]
        /\ \A a \in Bots \ {b} : task'[a] = task[a] /\ taken'[a] = taken[a]
    BY <1>1, <1>4 DEF Becomes
  <2>2. (taken[b] + 1) - 1 = taken[b]
    BY <1>1
  <2>3. HandledOK(b)'
    BY <1>2, <1>4, <2>1, <2>2 DEF HandledOK, Busy
  <2> QED
    BY <1>4, <2>1, <2>3, HandledOthers
<1>5. ASSUME NEW where \in {"next", "poll"}, Becomes(b, where),
             NEW n \in Nat, taken' = [taken EXCEPT ![b] = n],
             \A m \in 1 .. n - 1 : <<b, m>> \in handled,
             UNCHANGED confirmed, handled' = handled \union {<<b, n>>}
      PROVE  HandledInv'
  <2>1. /\ task'[b] = where /\ taken'[b] = n /\ confirmed'[b] = confirmed[b]
        /\ \A a \in Bots \ {b} : task'[a] = task[a] /\ taken'[a] = taken[a]
    BY <1>1, <1>5 DEF Becomes
  <2>2. \A m \in 1 .. n : m = n \/ m \in 1 .. n - 1
    BY <1>5
  <2>3. HandledOK(b)'
    BY <1>2, <1>5, <2>1, <2>2 DEF HandledOK, Busy
  <2> QED
    BY <1>5, <2>1, <2>3, HandledOthers
<1>6. CASE Verify(b)
  BY <1>3, <1>6 DEF Verify, telegram, Busy
<1>7. CASE GetUpdates(b)
  <2> DEFINE kept == IF taken[b] > confirmed[b] THEN taken[b] ELSE confirmed[b]
  <2>1. \A n \in 1 .. kept : <<b, n>> \in handled
    BY <1>2, <1>7 DEF GetUpdates, HandledOK
  <2>2. /\ task[b] = "poll"
        /\ confirmed' = [confirmed EXCEPT ![b] = kept]
        /\ taken' = [taken EXCEPT ![b] = kept]
        /\ task' = task \/ task' = [task EXCEPT ![b] = "next"]
        /\ handled' = handled
    BY <1>7 DEF GetUpdates, Becomes
  <2> HIDE DEF kept
  <2>3. /\ confirmed'[b] = kept /\ taken'[b] = kept /\ task'[b] \in {"poll", "next"}
        /\ \A a \in Bots \ {b} : /\ task'[a] = task[a] /\ taken'[a] = taken[a]
                                 /\ confirmed'[a] = confirmed[a]
    BY <1>1, <2>2
  <2>4. HandledOK(b)'
    BY <2>1, <2>2, <2>3 DEF HandledOK, Busy
  <2> QED
    BY <2>2, <2>3, <2>4, HandledOthers
<1>8. CASE Ignore(b)
  <2>1. /\ task[b] = "next" /\ taken' = [taken EXCEPT ![b] = taken[b] + 1]
        /\ handled' = handled \union {<<b, taken[b] + 1>>}
        /\ \E where \in {"next", "poll"} : Becomes(b, where)
        /\ UNCHANGED confirmed
    BY <1>8 DEF Ignore, Done, telegram
  <2>2. taken[b] + 1 \in Nat /\ (taken[b] + 1) - 1 = taken[b]
    BY <1>1
  <2>3. \A m \in 1 .. (taken[b] + 1) - 1 : <<b, m>> \in handled
    BY <1>2, <2>1, <2>2 DEF HandledOK
  <2> QED
    BY <1>5, <2>1, <2>2, <2>3
<1>9. CASE Refuse(b)
  BY <1>4, <1>9 DEF Refuse, TakeUpdate, telegram, Busy
<1>10. CASE SpecialCommand(b)
  BY <1>4, <1>10 DEF SpecialCommand, TakeUpdate, telegram, Busy
<1>11. CASE HandleMessage(b)
  BY <1>4, <1>11 DEF HandleMessage, TakeUpdate, telegram, Busy
<1>12. CASE BeginTurn(b)
  BY <1>3, <1>12 DEF BeginTurn, telegram, Busy
<1>13. CASE FinishTurn(b)
  BY <1>3, <1>13 DEF FinishTurn, telegram, Busy
<1>14. CASE Reply(b)
  <2>1. /\ task[b] \in Busy /\ UNCHANGED <<taken, confirmed>>
        /\ handled' = handled \union {<<b, taken[b]>>}
        /\ \E where \in {"next", "poll"} : Becomes(b, where)
    BY <1>14 DEF Reply, Done, telegram, Busy
  <2>2. taken' = [taken EXCEPT ![b] = taken[b]]
    BY <1>1, <2>1
  <2>3. \A m \in 1 .. taken[b] - 1 : <<b, m>> \in handled
    BY <1>2, <2>1 DEF HandledOK
  <2> QED
    BY <1>1, <1>5, <2>1, <2>2, <2>3
<1>15. CASE ChunkPanics(b)
  BY <1>3, <1>15 DEF ChunkPanics, telegram, Busy
<1> QED
  BY <1>6, <1>7, <1>8, <1>9, <1>10, <1>11, <1>12, <1>13, <1>14, <1>15 DEF RunChannel

LEMMA HandledNext == ChannelInv /\ HandledInv /\ [Next]_vars => HandledInv'
<1> SUFFICES ASSUME ChannelInv, HandledInv, [Next]_vars PROVE HandledInv'
  OBVIOUS
<1>1. ASSUME NEW b \in Bots, RunChannel(b) \/ ChunkPanics(b) PROVE HandledInv'
  BY <1>1, HandledRun
<1>2. ASSUME UNCHANGED <<confirmed, task, taken, handled>> PROVE HandledInv'
  BY <1>2 DEF HandledInv, HandledOK
<1>3. ASSUME NEW b \in Bots, UpdateArrives(b) \/ Expires(b) PROVE HandledInv'
  BY <1>2, <1>3 DEF UpdateArrives, Expires, telegram, channels
<1>4. CASE StartAll
  <2>1. UNCHANGED <<confirmed, handled>>
    BY <1>4 DEF StartAll, telegram
  <2>2. \A b \in Bots : taken'[b] = 0 /\ task'[b] \in {"verify", "off"}
    BY <1>4 DEF StartAll
  <2> QED
    BY <2>1, <2>2 DEF HandledInv, HandledOK, Busy
<1>5. CASE StopAll
  <2>1. UNCHANGED <<confirmed, handled>> /\ \A b \in Bots : task'[b] = "off"
    BY <1>5 DEF StopAll, telegram
  <2> QED
    BY <2>1 DEF HandledInv, HandledOK, Busy
<1>6. CASE up /\ ChatNext /\ UNCHANGED <<up, starts, telegram, channels>>
  BY <1>2, <1>6 DEF telegram, channels
<1>7. CASE UNCHANGED vars
  BY <1>2, <1>7 DEF vars, telegram, channels
<1> QED
  BY <1>1, <1>3, <1>4, <1>5, <1>6, <1>7 DEF Next

(* Telegram drops an update only when it was handled, for any number of    *)
(* bots, updates and restarts: a poll confirms what was taken before, and  *)
(* by then the channel has done with all of it.                            *)
THEOREM NoUpdateLost == Spec => []NothingSkipped
<1>1. HandledInv => NothingSkipped
  BY DEF HandledInv, HandledOK, NothingSkipped
<1> QED
  BY <1>1, ChannelInit, ChannelNext, HandledInit, HandledNext, PTL DEF Spec

-----------------------------------------------------------------------------
(* Conversations *)

(* The one channel of a platform and the requests have sessions of their   *)
(* own.                                                                    *)
Apart ==
    /\ \A a, b \in Bots : a = b
    /\ Requests \cap Users = {}

(* A turn on a channel goes on from the conversation that is saved, unless *)
(* that was too old or was deleted meanwhile; a request has no session     *)
(* before it ends.                                                         *)
TalkOK(b) ==
    task[b] = "turn" =>
        \/ saved[Sender(b)] = None
        \/ Sender(b) \in stale
        \/ saved[Sender(b)] = talk[b]

RequestOK(r) ==
    step[r] \in {"idle", "prepare", "create", "restore", "turn"} => saved[r] = None

TalkInv == (\A b \in Bots : TalkOK(b)) /\ (\A r \in Requests : RequestOK(r))

(* What a step may do to the conversations. *)
Continues ==
    \A s \in Sids : saved[s] # None /\ s \notin stale =>
        saved'[s] = None \/ IsPrefix(saved[s], saved'[s])

-----------------------------------------------------------------------------

LEMMA PrefixRefl ==
  ASSUME NEW said \in Talks
  PROVE  IsPrefix(said, said) /\ \A t \in Turns : IsPrefix(said, Append(said, t))
<1>1. said \in Seq(Turns)
  BY DEF Talks
<1>2. Len(said) <= Len(said)
  BY <1>1
<1>3. ASSUME NEW t \in Turns
      PROVE  /\ Len(said) <= Len(Append(said, t))
             /\ SubSeq(said, 1, Len(said)) = SubSeq(Append(said, t), 1, Len(said))
  <2>1. /\ Len(said) \in Nat /\ Len(Append(said, t)) = Len(said) + 1
        /\ \A i \in 1 .. Len(said) : Append(said, t)[i] = said[i]
    BY <1>1
  <2>2. SubSeq(Append(said, t), 1, Len(said)) = SubSeq(said, 1, Len(said))
    BY <1>1, <2>1
  <2> QED
    BY <2>1, <2>2
<1> QED
  BY <1>2, <1>3 DEF IsPrefix

LEMMA TalkInit == Init => TalkInv
<1> SUFFICES ASSUME Init PROVE TalkInv
  OBVIOUS
<1>1. \A b \in Bots : task[b] # "turn"
  BY DEF Init
<1>2. \A r \in Requests : saved[r] = None
  BY SidsAssumption DEF Init, SessionsInit, StoreInit
<1> QED
  BY <1>1, <1>2 DEF TalkInv, TalkOK, RequestOK

(* A step that leaves the sessions alone, and no channel in a turn that    *)
(* was not.                                                                *)
LEMMA SameSessions ==
  ASSUME ChannelInv, TalkInv, UNCHANGED saved, stale \subseteq stale',
         \A b \in Bots : task'[b] = "turn" =>
            task[b] = "turn" /\ taken'[b] = taken[b] /\ talk'[b] = talk[b],
         \A r \in Requests :
            step'[r] \in {"idle", "prepare", "create", "restore", "turn"} =>
                step[r] \in {"idle", "prepare", "create", "restore", "turn"}
  PROVE  TalkInv' /\ Continues
<1>1. \A b \in Bots : TalkOK(b)'
  BY DEF TalkInv, TalkOK, Sender
<1>2. \A r \in Requests : RequestOK(r)'
  BY DEF TalkInv, RequestOK
<1>3. Continues
  <2>1. ASSUME NEW s \in Sids, saved[s] # None PROVE IsPrefix(saved[s], saved'[s])
    <3>1. saved[s] \in Talks
      BY <2>1, StoreAndChannels DEF ChannelInv, StoreTypeOK
    <3> QED
      BY <3>1, PrefixRefl
  <2> QED
    BY <2>1 DEF Continues
<1> QED
  BY <1>1, <1>2, <1>3 DEF TalkInv

(* A step that saves under, or deletes, one session.                       *)
LEMMA OneSession ==
  ASSUME ChannelInv, NEW s \in Sids, NEW new,
         saved' = [saved EXCEPT ![s] = new], stale' = stale \ {s},
         saved[s] = None \/ s \in stale \/ new = None \/ IsPrefix(saved[s], new)
  PROVE  Continues
<1>1. /\ saved'[s] = new /\ \A x \in Sids \ {s} : saved'[x] = saved[x]
      /\ saved \in [Sids -> Talks \union {None}]
  BY StoreAndChannels DEF ChannelInv, StoreTypeOK
<1>2. ASSUME NEW x \in Sids, saved[x] # None PROVE IsPrefix(saved[x], saved[x])
  BY <1>1, <1>2, PrefixRefl
<1> QED
  BY <1>1, <1>2 DEF Continues

LEMMA SessionsApart ==
  ASSUME ChannelInv, Apart
  PROVE  /\ saved \in [Sids -> Talks \union {None}]
         /\ Requests \subseteq Sids /\ Users \subseteq Sids
         /\ step \in [Requests -> ChatSteps]
         /\ \A b \in Bots : task[b] \in Busy => Sender(b) \in Users
<1>1. ASSUME NEW b \in Bots, task[b] \in Busy PROVE Sender(b) \in Users
  <2>1. taken[b] > 0
    BY <1>1 DEF ChannelInv, ChannelOK
  <2>2. taken[b] \in 1 .. Len(Inbox[b])
    BY <2>1, AsItIs
  <2> QED
    BY <2>2, UpdateTyped DEF Sender
<1> QED
  BY <1>1, SidsAssumption, StoreAndChannels
  DEF ChannelInv, StoreTypeOK, SessionsTypeOK

LEMMA TalkRequest ==
  ASSUME ChannelInv, TalkInv, Apart, NEW r \in Requests, RequestStep(r),
         UNCHANGED channels
  PROVE  TalkInv' /\ Continues
<1>1. /\ \A b \in Bots : task'[b] = task[b] /\ taken'[b] = taken[b] /\ talk'[b] = talk[b]
      /\ \A b \in Bots : task[b] = "turn" => Sender(b) \in Users /\ Sender(b)' = Sender(b)
  BY SessionsApart DEF channels, Busy, Sender
<1>2. /\ step[r] \in {"idle", "prepare", "create", "restore", "turn"}
      /\ \A q \in Requests \ {r} : step'[q] = step[q]
  BY SessionsApart
  DEF RequestStep, Ask, Prepare, CreateAgent, Restore, RunTurn, CutOff, Fails, Ends, Goes
<1>3. CASE UNCHANGED <<saved, stale>>
  BY <1>1, <1>2, <1>3, SameSessions
<1>4. CASE ~UNCHANGED <<saved, stale>>
  <2>1. Save(r, Append(heard[r], r)) /\ Ends(r, "done")
    BY <1>4
    DEF RequestStep, Ask, Prepare, CreateAgent, Restore, RunTurn, CutOff, Fails, SaveOrNot
  <2>2. saved[r] = None /\ r \in Sids /\ r \notin Users
    BY <1>2, SessionsApart DEF TalkInv, RequestOK, Apart
  <2>3. Continues
    BY <2>1, <2>2, OneSession DEF Save
  <2>4. /\ \A x \in Sids \ {r} : saved'[x] = saved[x]
        /\ \A x \in Sids \ {r} : x \in stale => x \in stale'
        /\ step'[r] = "done"
    BY <2>1, SessionsApart DEF Save, Ends, Goes
  <2>5. ASSUME NEW b \in Bots PROVE TalkOK(b)'
    <3> SUFFICES ASSUME task[b] = "turn"
                 PROVE  \/ saved'[Sender(b)] = None \/ Sender(b) \in stale'
                        \/ saved'[Sender(b)] = talk[b]
      BY <1>1 DEF TalkOK
    <3>1. Sender(b) \in Sids \ {r}
      BY <1>1, <2>2, SessionsApart
    <3>2. TalkOK(b)
      BY DEF TalkInv
    <3> QED
      BY <2>4, <3>1, <3>2 DEF TalkOK
  <2>6. ASSUME NEW q \in Requests PROVE RequestOK(q)'
    <3>1. q # r => saved'[q] = saved[q] /\ step'[q] = step[q]
      BY <1>2, <2>4, SessionsApart
    <3> QED
      BY <2>4, <3>1 DEF TalkInv, RequestOK
  <2> QED
    BY <2>3, <2>5, <2>6 DEF TalkInv
<1> QED
  BY <1>3, <1>4

(* A session that is deleted. *)
LEMMA TalkForgotten ==
  ASSUME ChannelInv, TalkInv, Apart, NEW s \in Sids, Forgotten(s),
         \A b \in Bots : task'[b] = "turn" =>
            task[b] = "turn" /\ taken'[b] = taken[b] /\ talk'[b] = talk[b],
         UNCHANGED step
  PROVE  TalkInv' /\ Continues
<1>1. saved' = [saved EXCEPT ![s] = None] /\ stale' = stale \ {s}
  BY DEF Forgotten
<1>2. Continues
  BY <1>1, OneSession
<1>3. saved'[s] = None /\ \A x \in Sids \ {s} : saved'[x] = saved[x]
  BY <1>1, SessionsApart
<1>4. ASSUME NEW b \in Bots PROVE TalkOK(b)'
  <2> SUFFICES ASSUME task[b] = "turn", taken'[b] = taken[b], talk'[b] = talk[b]
               PROVE  \/ saved'[Sender(b)] = None \/ Sender(b) \in stale'
                      \/ saved'[Sender(b)] = talk[b]
    BY DEF TalkOK, Sender
  <2>1. Sender(b) \in Sids /\ TalkOK(b)
    BY SessionsApart DEF TalkInv, Busy
  <2> QED
    BY <1>1, <1>3, <2>1 DEF TalkOK
<1>5. ASSUME NEW r \in Requests PROVE RequestOK(r)'
  BY <1>3, SessionsApart DEF TalkInv, RequestOK
<1> QED
  BY <1>2, <1>4, <1>5 DEF TalkInv

-----------------------------------------------------------------------------

(* The only channel moves, to a step that is not a turn. *)
LEMMA NoTurn ==
  ASSUME ChannelInv, Apart, NEW b \in Bots, NEW where, Becomes(b, where), where # "turn"
  PROVE  \A a \in Bots : task'[a] # "turn"
BY StoreAndChannels DEF ChannelInv, Apart, Becomes

LEMMA TalkRun ==
  ASSUME ChannelInv, TalkInv, Apart, NEW b \in Bots, RunChannel(b) \/ ChunkPanics(b)
  PROVE  TalkInv' /\ Continues
<1>1. /\ task \in [Bots -> Tasks] /\ talk \in [Bots -> Talks]
      /\ \A a \in Bots : a = b
  BY StoreAndChannels DEF ChannelInv, Apart
<1>2. UNCHANGED chats
  BY DEF RunChannel, Verify, GetUpdates, Ignore, Refuse, SpecialCommand, HandleMessage,
         TakeUpdate, BeginTurn, FinishTurn, Reply, ChunkPanics
<1>3. ASSUME NEW where, Becomes(b, where), where # "turn", UNCHANGED <<saved, stale>>
      PROVE  TalkInv' /\ Continues
  BY <1>2, <1>3, NoTurn, SameSessions DEF chats
<1>4. CASE Verify(b)
  BY <1>3, <1>4 DEF Verify
<1>5. CASE GetUpdates(b)
  <2>1. \A a \in Bots : task'[a] # "turn"
    BY <1>1, <1>5 DEF GetUpdates, Becomes
  <2> QED
    BY <1>2, <1>5, <2>1, SameSessions DEF GetUpdates, chats
<1>6. CASE Ignore(b) \/ Reply(b)
  <2>1. UNCHANGED <<saved, stale>> /\ \E where \in {"next", "poll"} : Becomes(b, where)
    BY <1>6 DEF Ignore, Reply, Done
  <2> QED
    BY <1>3, <2>1
<1>7. CASE Refuse(b)
  BY <1>3, <1>7 DEF Refuse
<1>8. CASE HandleMessage(b)
  BY <1>3, <1>8 DEF HandleMessage
<1>9. CASE ChunkPanics(b)
  BY <1>3, <1>9 DEF ChunkPanics
<1>10. CASE SpecialCommand(b)
  <2>1. PICK n \in {taken[b] + 1} :
           /\ TakeUpdate(b, n) /\ Becomes(b, "reply")
           /\ Forgotten(Inbox[b][n].user) \/ UNCHANGED <<saved, stale>>
    BY <1>10 DEF SpecialCommand
  <2>2. n \in 1 .. Len(Inbox[b])
    BY <2>1, NextArrived DEF TakeUpdate
  <2>3. Inbox[b][n].user \in Sids
    BY <2>2, UpdateTyped, SidsAssumption
  <2>4. \A a \in Bots : task'[a] # "turn"
    BY <2>1, NoTurn
  <2> QED
    BY <1>2, <1>3, <2>1, <2>3, <2>4, TalkForgotten DEF chats
<1>11. CASE BeginTurn(b)
  <2>1. CASE Becomes(b, "reply")
    BY <1>3, <1>11, <2>1 DEF BeginTurn
  <2>2. CASE ~Becomes(b, "reply")
    <3>1. /\ talk' = [talk EXCEPT ![b] = Loaded(Sender(b))]
          /\ UNCHANGED <<saved, stale, taken>>
      BY <1>11, <2>2 DEF BeginTurn
    <3>2. talk'[b] = Loaded(Sender(b)) /\ Sender(b)' = Sender(b)
      BY <1>1, <3>1 DEF Sender
    <3>3. \A a \in Bots : TalkOK(a)'
      BY <1>1, <3>1, <3>2 DEF TalkOK, Loaded
    <3>4. \A r \in Requests : RequestOK(r)'
      BY <1>2, <3>1 DEF TalkInv, RequestOK, chats
    <3>5. Continues
      <4>1. ASSUME NEW s \in Sids, saved[s] # None PROVE IsPrefix(saved[s], saved[s])
        BY <4>1, PrefixRefl, SessionsApart
      <4> QED
        BY <3>1, <4>1 DEF Continues
    <3> QED
      BY <3>3, <3>4, <3>5 DEF TalkInv
  <2> QED
    BY <2>1, <2>2
<1>12. CASE FinishTurn(b)
  <2> DEFINE s == Sender(b)
             new == Append(talk[b], <<b, taken[b], starts>>)
  <2>1. /\ SaveOrNot(s, new) \/ UNCHANGED <<saved, stale>>
        /\ \E where \in {"answer", "reply"} : Becomes(b, where)
    BY <1>12 DEF FinishTurn
  <2>2. task[b] = "turn"
    BY <1>12 DEF FinishTurn
  <2>3. CASE UNCHANGED <<saved, stale>>
    BY <1>3, <2>1, <2>3
  <2>4. CASE ~UNCHANGED <<saved, stale>>
    <3>1. s \in Users /\ s \in Sids /\ talk[b] \in Talks
      BY <1>1, <2>2, SessionsApart DEF Busy
    <3>2. <<b, taken[b], starts>> \in Turns
      <4>1. taken[b] > 0 /\ starts \in 1 .. MaxRestarts
        BY <2>2 DEF ChannelInv, ChannelOK, Busy
      <4>2. taken[b] \in 1 .. Len(Inbox[b])
        BY <4>1, AsItIs
      <4> QED
        BY <4>1, <4>2, UpdateTyped
    <3>3. IsPrefix(talk[b], new)
      BY <3>1, <3>2, PrefixRefl
    <3>4. TalkOK(b)
      BY DEF TalkInv
    <3> HIDE DEF s, new
    <3>5. saved' = [saved EXCEPT ![s] = new] /\ stale' = stale \ {s}
      BY <2>1, <2>4 DEF SaveOrNot, Save
    <3>6. saved[s] = None \/ s \in stale \/ IsPrefix(saved[s], new)
      BY <2>2, <3>3, <3>4 DEF TalkOK, s
    <3>7. Continues
      BY <3>1, <3>5, <3>6, OneSession
    <3>8. \A a \in Bots : task'[a] # "turn"
      BY <2>1, NoTurn
    <3>9. ASSUME NEW r \in Requests PROVE RequestOK(r)'
      <4>1. r # s /\ r \in Sids
        BY <3>1, SessionsApart DEF Apart
      <4>2. saved'[r] = saved[r] /\ step'[r] = step[r]
        BY <1>2, <3>5, <4>1, SessionsApart DEF chats
      <4> QED
        BY <4>2 DEF TalkInv, RequestOK
    <3> QED
      BY <3>7, <3>8, <3>9 DEF TalkInv, TalkOK
  <2> QED
    BY <2>3, <2>4
<1> QED
  BY <1>4, <1>5, <1>6, <1>7, <1>8, <1>9, <1>10, <1>11, <1>12 DEF RunChannel

LEMMA TalkNext ==
  ASSUME Apart
  PROVE  ChannelInv /\ TalkInv /\ [Next]_vars => TalkInv' /\ Continues
<1> SUFFICES ASSUME ChannelInv, TalkInv, [Next]_vars PROVE TalkInv' /\ Continues
  OBVIOUS
<1>1. ASSUME NEW b \in Bots, RunChannel(b) \/ ChunkPanics(b) PROVE TalkInv' /\ Continues
  BY <1>1, TalkRun
<1>2. ASSUME NEW b \in Bots, UpdateArrives(b) \/ Expires(b) PROVE TalkInv' /\ Continues
  BY <1>2, SameSessions DEF UpdateArrives, Expires, channels, chats
<1>3. CASE StartAll
  <2>1. \A b \in Bots : task'[b] # "turn"
    BY <1>3 DEF StartAll
  <2> QED
    BY <1>3, <2>1, SameSessions DEF StartAll, chats
<1>4. CASE StopAll
  <2>1. \A b \in Bots : task'[b] # "turn"
    BY <1>4 DEF StopAll
  <2>2. \A r \in Requests : step'[r] = step[r] \/ step'[r] = "cut"
    BY <1>4 DEF StopAll, ChatsCut
  <2> QED
    BY <1>4, <2>1, <2>2, SameSessions DEF StopAll
<1>5. CASE up /\ ChatNext /\ UNCHANGED <<up, starts, telegram, channels>>
  <2>1. CASE DeleteSession
    <3>1. PICK s \in Sids : Forgotten(s)
      BY <2>1 DEF DeleteSession, Listed
    <3> QED
      BY <1>5, <2>1, <3>1, TalkForgotten DEF DeleteSession, chats, channels
  <2>2. CASE GrowsOld
    BY <1>5, <2>2, SameSessions DEF GrowsOld, chats, channels
  <2> QED
    BY <1>5, <2>1, <2>2, ChatCases, TalkRequest
<1>6. CASE UNCHANGED vars
  BY <1>6, SameSessions DEF vars, channels, chats
<1> QED
  BY <1>1, <1>2, <1>3, <1>4, <1>5, <1>6 DEF Next

(* A conversation is continued, deleted or, once it is too old, begun      *)
(* again, and never replaced by one that lacks its turns: given one bot    *)
(* for a platform, and for any users, updates, requests and restarts. (Two *)
(* bots break it: the later save of two turns of one user wins.)           *)
THEOREM ConversationsContinue ==
    ASSUME Apart
    PROVE  Spec => ConversationsKept
<1>1. ChannelInv /\ TalkInv /\ [Next]_vars => TalkInv'
  BY TalkNext
<1>2. ChannelInv /\ TalkInv /\ [Next]_vars
         => [\A s \in Sids : saved[s] # None /\ s \notin stale =>
                saved'[s] = None \/ IsPrefix(saved[s], saved'[s])]_vars
  BY TalkNext DEF Continues
<1> QED
  BY <1>1, <1>2, ChannelInit, ChannelNext, TalkInit, PTL DEF Spec, ConversationsKept

-----------------------------------------------------------------------------
(* The voice connection *)

(* What is sent to the client waits within the capacity of the queue. *)
OutgoingTyped == queued \in Seq(Messages) /\ Len(queued) <= QueueLimit

LEMMA VoiceTyped ==
  ASSUME VoiceTypeOK
  PROVE  /\ saved \in [Sids -> Talks \union {None}] /\ stale \subseteq Sids
         /\ OutgoingTyped /\ QueueLimit \in Nat
         /\ \A t \in Utterances : t \in Turns /\ t \in Sids
BY UtterancesAssumption, VoiceLimits DEF VoiceTypeOK, StoreTypeOK, OutgoingTyped

LEMMA PutTyped ==
  ASSUME OutgoingTyped, NEW m \in Messages, Put(m)
  PROVE  OutgoingTyped'
BY VoiceLimits DEF Put, OutgoingTyped

LEMMA SendTyped == ASSUME OutgoingTyped, Send PROVE OutgoingTyped'
BY PutTyped DEF Send, Messages

LEMMA PlayTyped == ASSUME OutgoingTyped, NEW t \in Utterances, Play(t) PROVE OutgoingTyped'
BY PutTyped DEF Play, Messages

LEMMA SendMessageTyped ==
  ASSUME VoiceTypeOK, SendMessage
  PROVE  OutgoingTyped' /\ tooLate' \in [Watched -> Nat]
BY VoiceLimits DEF SendMessage, VoiceTypeOK, OutgoingTyped

(* What a pipeline holds. *)
PipelinesTyped ==
    /\ stage \in [Utterances -> Stages]
    /\ named \in [Utterances -> Sids \union {None}]
    /\ based \in [Utterances -> Talks]
    /\ agent \in [Utterances -> {"running", "ok", "failed"}]
    /\ tokens \in [Utterances -> 0 .. TokenLimit]
    /\ voice \in [Utterances -> Voices]
    /\ sentences \in [Utterances -> 0 .. MaxSentences]

LEMMA PipelinesTypedDef == VoiceTypeOK => PipelinesTyped
BY DEF VoiceTypeOK, PipelinesTyped

LEMMA OverTyped == ASSUME PipelinesTyped, NEW t \in Utterances, Over(t)
                   PROVE  PipelinesTyped'
BY VoiceLimits DEF PipelinesTyped, Over, Enters, Stages, Voices, Talks

LEMMA TurnTyped ==
  ASSUME VoiceTypeOK, NEW t \in Utterances, RunVoiceTurn(t)
  PROVE  VoiceTypeOK'
<1>1. PipelinesTyped
  BY PipelinesTypedDef
<1>2. {"over", "heard", "create", "answer"} \subseteq Stages /\ Voices = Voices \union {"text"}
  BY DEF Stages, Voices
<1>3. CASE Transcribe(t)
  <2>1. PipelinesTyped'
    BY <1>1, <1>2, <1>3, OverTyped DEF Transcribe, Enters, PipelinesTyped
  <2>2. OutgoingTyped'
    BY <1>3, SendTyped, VoiceTyped DEF Transcribe, OutgoingTyped
  <2> QED
    BY <1>3, <2>1, <2>2
    DEF Transcribe, connection, VoiceTypeOK, StoreTypeOK, PipelinesTyped, OutgoingTyped
<1>4. CASE SendTranscript(t)
  <2>1. PipelinesTyped'
    BY <1>1, <1>2, <1>4, OverTyped DEF SendTranscript, Enters, PipelinesTyped
  <2> QED
    BY <1>4, <2>1, PlayTyped, VoiceTyped
    DEF SendTranscript, connection, VoiceTypeOK, StoreTypeOK, PipelinesTyped, OutgoingTyped
<1>5. CASE CreateVoiceAgent(t)
  <2>1. PipelinesTyped'
    <3>1. CASE Over(t)
      BY <1>1, <3>1, OverTyped
    <3>2. CASE ~Over(t)
      <4>1. <<>> \in Talks
        BY DEF Talks
      <4>2. \A s \in Sids : Loaded(s) \in Talks
        BY <4>1, VoiceTyped DEF Loaded
      <4>3. named[t] \in Sids \union {None}
        BY <1>1 DEF PipelinesTyped
      <4>4. PICK said \in {<<>>, IF named[t] = None THEN <<>> ELSE Loaded(named[t])} :
                 /\ based' = [based EXCEPT ![t] = said]
                 /\ stage' = [stage EXCEPT ![t] = "answer"]
                 /\ voice' = [voice EXCEPT ![t] = "text"]
                 /\ UNCHANGED <<named, agent, tokens, sentences>>
        BY <1>5, <3>2 DEF CreateVoiceAgent, Enters, Speaks
      <4>5. said \in Talks
        BY <4>1, <4>2, <4>3, <4>4
      <4> QED
        BY <1>1, <1>2, <4>4, <4>5 DEF PipelinesTyped
    <3> QED
      BY <3>1, <3>2
  <2>2. OutgoingTyped'
    BY <1>5, SendTyped, VoiceTyped DEF CreateVoiceAgent, OutgoingTyped
  <2> QED
    BY <1>5, <2>1, <2>2
    DEF CreateVoiceAgent, connection, VoiceTypeOK, StoreTypeOK, PipelinesTyped, OutgoingTyped
<1>6. CASE FinishVoiceTurn(t)
  <2>1. PipelinesTyped'
    BY <1>1, <1>6, OverTyped DEF FinishVoiceTurn
  <2>2. OutgoingTyped'
    BY <1>6, SendTyped, VoiceTyped DEF FinishVoiceTurn, OutgoingTyped
  <2>3. StoreTypeOK'
    <3>1. Append(based[t], t) \in Talks
      BY <1>1, VoiceTyped DEF PipelinesTyped, Talks
    <3> QED
      BY <1>6, <3>1, VoiceTyped DEF FinishVoiceTurn, SaveOrNot, Save, StoreTypeOK
  <2> QED
    BY <1>6, <2>1, <2>2, <2>3
    DEF FinishVoiceTurn, connection, VoiceTypeOK, PipelinesTyped, OutgoingTyped
<1>7. CASE AgentSays(t)
  <2>1. tokens[t] + 1 \in 0 .. TokenLimit
    BY <1>1, <1>7, VoiceLimits DEF AgentSays, PipelinesTyped
  <2> QED
    BY <1>7, <2>1 DEF AgentSays, connection, queue, VoiceTypeOK, StoreTypeOK
<1>8. CASE AgentEnds(t)
  BY <1>8 DEF AgentEnds, connection, queue, VoiceTypeOK, StoreTypeOK
<1> QED
  BY <1>3, <1>4, <1>5, <1>6, <1>7, <1>8 DEF RunVoiceTurn

LEMMA SpeechTyped ==
  ASSUME VoiceTypeOK, NEW t \in Utterances, TtsTask(t)
  PROVE  VoiceTypeOK'
<1>1. /\ tokens[t] \in 0 .. TokenLimit /\ sentences[t] \in 0 .. MaxSentences
      /\ TokenLimit \in Nat /\ MaxSentences \in Nat
  BY VoiceLimits DEF VoiceTypeOK
<1>2. Voices = {"off", "text", "token", "synthesis", "ready", "next", "audio", "silent"}
  BY DEF Voices
<1>3. CASE TakeToken(t)
  <2>1. tokens[t] - 1 \in 0 .. TokenLimit
    BY <1>1, <1>3 DEF TakeToken
  <2> QED
    BY <1>2, <1>3, <2>1 DEF TakeToken, Speaks, connection, queue, VoiceTypeOK, StoreTypeOK
<1>4. CASE SendText(t)
  <2>1. sentences[t] < MaxSentences => sentences[t] + 1 \in 0 .. MaxSentences
    BY <1>1
  <2> QED
    BY <1>2, <1>4, <2>1, PlayTyped, VoiceTyped
    DEF SendText, Speaks, connection, VoiceTypeOK, StoreTypeOK, OutgoingTyped
<1>5. CASE NoMoreText(t)
  BY <1>2, <1>5 DEF NoMoreText, Speaks, connection, queue, VoiceTypeOK, StoreTypeOK
<1>6. CASE Synthesis(t)
  BY <1>2, <1>6 DEF Synthesis, Speaks, connection, queue, VoiceTypeOK, StoreTypeOK
<1>7. CASE Speaking(t)
  BY <1>2, <1>7, PlayTyped, VoiceTyped
    DEF Speaking, Speaks, connection, VoiceTypeOK, StoreTypeOK, OutgoingTyped
<1>8. CASE NextSentence(t)
  <2>1. sentences[t] # 0 => sentences[t] - 1 \in 0 .. MaxSentences
    BY <1>1
  <2> QED
    BY <1>2, <1>8, <2>1 DEF NextSentence, Speaks, connection, queue, VoiceTypeOK, StoreTypeOK
<1>9. CASE PlaySentence(t)
  BY <1>2, <1>9, PlayTyped, VoiceTyped
    DEF PlaySentence, Speaks, connection, VoiceTypeOK, StoreTypeOK, OutgoingTyped
<1> QED
  BY <1>3, <1>4, <1>5, <1>6, <1>7, <1>8, <1>9 DEF TtsTask

LEMMA VoiceTypeInit == VoiceInit => VoiceTypeOK
BY VoiceLimits
DEF VoiceInit, StoreInit, VoiceTypeOK, StoreTypeOK, Phases, Stages, Voices, Talks, Messages

LEMMA VoiceTypeNext == VoiceTypeOK /\ [VoiceNext]_voiceVars => VoiceTypeOK'
<1> SUFFICES ASSUME VoiceTypeOK, [VoiceNext]_voiceVars PROVE VoiceTypeOK'
  OBVIOUS
<1>1. ASSUME NEW t \in Utterances, RunVoiceTurn(t) \/ TtsTask(t) PROVE VoiceTypeOK'
  BY <1>1, TurnTyped, SpeechTyped
<1>2. CASE EndUtterance
  <2>1. utterance + 1 \in 0 .. MaxUtterances /\ utterance + 1 \in Utterances
        /\ {utterance} \ {0} \subseteq Utterances
    BY <1>2, VoiceLimits DEF EndUtterance, VoiceTypeOK, Utterances
  <2> QED
    BY <1>2, <2>1, VoiceLimits DEF EndUtterance, queue, VoiceTypeOK, StoreTypeOK, Stages
<1>3. CASE Interrupt
  <2>1. {utterance} \ {0} \subseteq Utterances
    BY VoiceLimits DEF VoiceTypeOK, Utterances
  <2> QED
    BY <1>3, <2>1 DEF Interrupt, pipelines, queue, VoiceTypeOK, StoreTypeOK
<1>4. CASE Authenticate \/ Answer
  <2>1. OutgoingTyped' /\ UNCHANGED <<pipelines, writer, tooLate, saved, stale>>
    BY <1>4, SendTyped, VoiceTyped DEF Authenticate, Answer
  <2>2. UNCHANGED <<client, audio, config, utterance, cancelled>> /\ phase' \in Phases
    BY <1>4 DEF Authenticate, Answer, connection, VoiceTypeOK, Phases
  <2> QED
    BY <2>1, <2>2 DEF pipelines, VoiceTypeOK, StoreTypeOK, OutgoingTyped
<1>5. CASE Configure
  BY <1>5 DEF Configure, pipelines, queue, VoiceTypeOK, StoreTypeOK, Listed
<1>6. CASE BufferAudio
  <2>1. audio < AudioLimit => audio + 1 \in 0 .. AudioLimit
    BY VoiceLimits DEF VoiceTypeOK
  <2> QED
    BY <1>6, <2>1 DEF BufferAudio, pipelines, queue, VoiceTypeOK, StoreTypeOK, Phases
<1>7. CASE LeaveLoop \/ Close \/ ClientGone
  BY <1>7 DEF LeaveLoop, Close, ClientGone, pipelines, queue, VoiceTypeOK, StoreTypeOK, Phases
<1>8. CASE Writer
  <2>1. OutgoingTyped' /\ writer' \in BOOLEAN /\ tooLate' \in [Watched -> Nat]
    <3>1. CASE SendMessage
      BY <3>1, SendMessageTyped DEF SendMessage, VoiceTypeOK
    <3>2. CASE WriterEnds /\ UNCHANGED tooLate
      <4>1. queued' = <<>> /\ writer' = FALSE
        BY <3>2 DEF WriterEnds
      <4>2. OutgoingTyped'
        BY <4>1, VoiceLimits DEF OutgoingTyped
      <4> QED
        BY <3>2, <4>1, <4>2 DEF VoiceTypeOK
    <3> QED
      BY <1>8, <3>1, <3>2 DEF Writer
  <2> QED
    BY <1>8, <2>1 DEF Writer, connection, pipelines, VoiceTypeOK, StoreTypeOK, OutgoingTyped
<1>9. CASE UNCHANGED voiceVars
  BY <1>9 DEF voiceVars, connection, pipelines, queue, VoiceTypeOK, StoreTypeOK
<1> QED
  BY <1>1, <1>2, <1>3, <1>4, <1>5, <1>6, <1>7, <1>8, <1>9 DEF VoiceNext, Reader

(* Every state of a voice connection is well typed: no queue and no        *)
(* channel is filled beyond its capacity, whoever sends.                   *)
THEOREM VoiceTypeCorrect == VoiceSpec => []VoiceTypeOK
BY VoiceTypeInit, VoiceTypeNext, PTL DEF VoiceSpec

-----------------------------------------------------------------------------
(* How many messages of a queue are texts and sounds of an utterance. *)

QueuedFor(q, t) == {i \in DOMAIN q : q[i] = t}
Pieces(q, t) == Cardinality(QueuedFor(q, t))

LEMMA PiecesBounded ==
  ASSUME NEW q \in Seq(Messages), NEW t
  PROVE  IsFiniteSet(QueuedFor(q, t)) /\ Pieces(q, t) \in Nat /\ Pieces(q, t) <= Len(q)
<1>1. Len(q) \in Nat /\ DOMAIN q = 1 .. Len(q)
  OBVIOUS
<1>2. IsFiniteSet(1 .. Len(q)) /\ Cardinality(1 .. Len(q)) = Len(q)
  BY <1>1, FS_Interval
<1>3. QueuedFor(q, t) \in SUBSET (1 .. Len(q))
  BY <1>1 DEF QueuedFor
<1>4. IsFiniteSet(QueuedFor(q, t)) /\ Pieces(q, t) <= Len(q)
  BY <1>2, <1>3, FS_Subset DEF Pieces
<1> QED
  BY <1>4, FS_CardinalityType DEF Pieces

LEMMA PiecesAppend ==
  ASSUME NEW q \in Seq(Messages), NEW m \in Messages, NEW t
  PROVE  Pieces(Append(q, m), t) = Pieces(q, t) + (IF m = t THEN 1 ELSE 0)
<1>1. Len(q) \in Nat /\ Len(q) + 1 \notin QueuedFor(q, t)
  BY DEF QueuedFor
<1>2. IsFiniteSet(QueuedFor(q, t)) /\ Pieces(q, t) \in Nat
  BY PiecesBounded
<1>3. CASE m = t
  <2>1. QueuedFor(Append(q, m), t) = QueuedFor(q, t) \cup {Len(q) + 1}
    BY <1>3 DEF QueuedFor
  <2> QED
    BY <1>1, <1>2, <1>3, <2>1, FS_AddElement DEF Pieces
<1>4. CASE m # t
  <2>1. QueuedFor(Append(q, m), t) = QueuedFor(q, t)
    BY <1>4 DEF QueuedFor
  <2> QED
    BY <1>2, <1>4, <2>1 DEF Pieces
<1> QED
  BY <1>3, <1>4

LEMMA PiecesTail ==
  ASSUME NEW q \in Seq(Messages), q # <<>>, NEW t
  PROVE  Pieces(Tail(q), t) <= Pieces(q, t) - (IF t = Head(q) THEN 1 ELSE 0)
<1> DEFINE rest == QueuedFor(q, t) \ {1}
           f == [i \in rest |-> i - 1]
<1>1. Len(q) \in Nat \ {0} /\ Head(q) = q[1] /\ Tail(q) \in Seq(Messages)
      /\ Len(Tail(q)) = Len(q) - 1 /\ \A i \in 1 .. Len(q) - 1 : Tail(q)[i] = q[i + 1]
  OBVIOUS
<1>2. IsFiniteSet(QueuedFor(q, t)) /\ Pieces(q, t) \in Nat
  BY PiecesBounded
<1>3. IsFiniteSet(rest) /\ Cardinality(rest) = Pieces(q, t) - (IF t = Head(q) THEN 1 ELSE 0)
  <2>1. 1 \in QueuedFor(q, t) <=> t = Head(q)
    BY <1>1 DEF QueuedFor
  <2> QED
    BY <1>2, <2>1, FS_RemoveElement DEF Pieces
<1>4. f \in Surjection(rest, QueuedFor(Tail(q), t))
  <2>1. \A i \in rest : i \in 2 .. Len(q) /\ q[i] = t
    BY <1>1 DEF QueuedFor
  <2>2. \A i \in rest : i - 1 \in 1 .. Len(q) - 1 /\ Tail(q)[i - 1] = t
    BY <1>1, <2>1
  <2>3. DOMAIN Tail(q) = 1 .. Len(q) - 1
    BY <1>1
  <2>4. f \in [rest -> QueuedFor(Tail(q), t)]
    BY <2>2, <2>3 DEF QueuedFor
  <2>5. ASSUME NEW j \in QueuedFor(Tail(q), t) PROVE \E i \in rest : f[i] = j
    <3>1. j \in 1 .. Len(q) - 1 /\ q[j + 1] = t
      BY <1>1, <2>3 DEF QueuedFor
    <3>2. j + 1 \in rest
      BY <1>1, <3>1 DEF QueuedFor
    <3> QED
      BY <3>1, <3>2
  <2> QED
    BY <2>4, <2>5, Fun_IsSurj
<1>5. Cardinality(QueuedFor(Tail(q), t)) <= Cardinality(rest)
  BY <1>3, <1>4, FS_Surjection
<1> QED
  BY <1>3, <1>5 DEF Pieces

-----------------------------------------------------------------------------
(* Nothing has begun of an utterance that was not spoken, and only the     *)
(* answer of an agent has a task that speaks.                              *)
StagesOK ==
    \A t \in Utterances :
        /\ t > utterance => stage[t] = "none"
        /\ voice[t] # "off" => stage[t] = "answer"

(* A pipeline that will queue one more text or sound before it looks at    *)
(* its token.                                                              *)
Committed(t) ==
    IF stage[t] \in {"none", "listen", "heard"} \/ voice[t] \in {"token", "ready", "audio"}
    THEN 1 ELSE 0

(* What was sent of a cancelled utterance, what is queued of it and what   *)
(* its pipeline will queue: no step makes them more.                       *)
HeardOK(t) ==
    /\ t \notin cancelled => tooLate[t] = 0
    /\ tooLate[t] + Pieces(queued, t) + Committed(t) <= QueueLimit + 1

PlayInv ==
    /\ VoiceTypeOK
    /\ StagesOK
    /\ \A t \in Watched : HeardOK(t)

(* Of an utterance that is not cancelled, or has just been, nothing has    *)
(* been sent too late, and what is queued of it fits in the queue.         *)
LEMMA NotCancelled ==
  ASSUME VoiceTypeOK, NEW t \in Watched, tooLate[t] = 0
  PROVE  HeardOK(t)
<1>1. Pieces(queued, t) \in Nat /\ Pieces(queued, t) <= QueueLimit
  BY PiecesBounded, VoiceLimits DEF VoiceTypeOK
<1>2. Committed(t) \in {0, 1}
  BY DEF Committed
<1> QED
  BY <1>1, <1>2, VoiceLimits DEF HeardOK

LEMMA NotCancelledNext ==
  ASSUME VoiceTypeOK', NEW t \in Watched, tooLate'[t] = 0
  PROVE  HeardOK(t)'
<1>1. Pieces(queued', t) \in Nat /\ Pieces(queued', t) <= QueueLimit
  BY PiecesBounded, VoiceLimits DEF VoiceTypeOK
<1>2. Committed(t)' \in {0, 1}
  BY DEF Committed
<1> QED
  BY <1>1, <1>2, VoiceLimits DEF HeardOK

LEMMA PlayInit == VoiceInit => PlayInv
<1> SUFFICES ASSUME VoiceInit PROVE PlayInv
  OBVIOUS
<1>1. VoiceTypeOK /\ StagesOK /\ \A t \in Watched : tooLate[t] = 0
  BY VoiceTypeInit, VoiceLimits DEF VoiceInit, StagesOK
<1> QED
  BY <1>1, NotCancelled DEF PlayInv

LEMMA WatchedTyped ==
  ASSUME PlayInv, NEW t \in Watched
  PROVE  /\ t \in Utterances /\ t # Other
         /\ tooLate[t] \in Nat /\ QueueLimit \in Nat
         /\ queued \in Seq(Messages)
         /\ Pieces(queued, t) \in Nat /\ Committed(t) \in {0, 1}
BY PiecesBounded, VoiceLimits DEF PlayInv, VoiceTypeOK, Utterances, Other, Committed

(* A step that sends nothing, queues nothing of the utterance and leaves   *)
(* no pipeline committed that was not.                                     *)
LEMMA Uncommitted ==
  ASSUME PlayInv, NEW t \in Watched, VoiceTypeOK',
         tooLate'[t] = tooLate[t], (t \in cancelled <=> t \in cancelled'),
         Pieces(queued', t) = Pieces(queued, t),
         t \in cancelled => Committed(t)' <= Committed(t)
  PROVE  HeardOK(t)'
<1>1. CASE t \in cancelled
  <2>1. Committed(t)' \in {0, 1}
    BY DEF Committed
  <2> QED
    BY <1>1, <2>1, WatchedTyped DEF PlayInv, HeardOK
<1>2. CASE t \notin cancelled
  <2>1. tooLate'[t] = 0
    BY <1>2 DEF PlayInv, HeardOK
  <2> QED
    BY <2>1, NotCancelledNext
<1> QED
  BY <1>1, <1>2

LEMMA PutPieces ==
  ASSUME PlayInv, NEW t \in Watched, NEW m \in Messages, Put(m)
  PROVE  /\ Pieces(queued', t) \in Nat
         /\ Pieces(queued', t) <= Pieces(queued, t) + (IF m = t THEN 1 ELSE 0)
         /\ m # t => Pieces(queued', t) = Pieces(queued, t)
<1>1. queued \in Seq(Messages) /\ Pieces(queued, t) \in Nat
  BY WatchedTyped
<1>2. queued' = queued \/ queued' = Append(queued, m)
  BY DEF Put
<1>3. Pieces(Append(queued, m), t) = Pieces(queued, t) + (IF m = t THEN 1 ELSE 0)
  BY <1>1, PiecesAppend
<1>4. CASE queued' = queued
  BY <1>1, <1>4
<1>5. CASE queued' = Append(queued, m)
  <2>1. Pieces(queued', t) = Pieces(queued, t) + (IF m = t THEN 1 ELSE 0)
    BY <1>3, <1>5
  <2> QED
    BY <1>1, <2>1
<1> QED
  BY <1>2, <1>4, <1>5

LEMMA SendPieces ==
  ASSUME PlayInv, NEW t \in Watched, Send \/ UNCHANGED queued
  PROVE  Pieces(queued', t) = Pieces(queued, t)
BY PutPieces, WatchedTyped DEF Send, Messages

(* A step of a pipeline that queues no text or sound: it is not committed  *)
(* after it, unless it was before or is not cancelled.                     *)
LEMMA PlaysNothing ==
  ASSUME PlayInv, VoiceTypeOK', NEW t \in Utterances, NEW w \in Stages, NEW v \in Voices,
         stage' = [stage EXCEPT ![t] = w], voice' = [voice EXCEPT ![t] = v],
         Send \/ UNCHANGED queued, UNCHANGED <<utterance, tooLate, cancelled>>,
         stage[t] # "none", v # "off" => w = "answer",
         \/ t \notin cancelled
         \/ stage[t] = "listen"
         \/ w \notin {"none", "listen", "heard"} /\ v \notin {"token", "ready", "audio"}
  PROVE  PlayInv'
<1>1. /\ \A u \in Utterances \ {t} : stage'[u] = stage[u] /\ voice'[u] = voice[u]
      /\ stage'[t] = w /\ voice'[t] = v
  BY DEF PlayInv, VoiceTypeOK
<1>2. ~(t > utterance)
  BY DEF PlayInv, StagesOK
<1>3. StagesOK'
  BY <1>1, <1>2 DEF PlayInv, StagesOK
<1>4. ASSUME NEW u \in Watched PROVE HeardOK(u)'
  <2>1. Pieces(queued', u) = Pieces(queued, u)
    BY SendPieces
  <2>2. u \in cancelled => Committed(u)' <= Committed(u)
    BY <1>1, WatchedTyped DEF Committed
  <2> QED
    BY <2>1, <2>2, Uncommitted
<1> QED
  BY <1>3, <1>4 DEF PlayInv

(* A step that queues a text or a sound is one its pipeline was committed  *)
(* to, and commits it to no other.                                         *)
LEMMA PlaysOne ==
  ASSUME PlayInv, VoiceTypeOK', NEW t \in Utterances, NEW w \in Stages, NEW v \in Voices,
         Play(t),
         stage' = [stage EXCEPT ![t] = w], voice' = [voice EXCEPT ![t] = v],
         UNCHANGED <<utterance, tooLate, cancelled>>,
         stage[t] # "none", v # "off" => w = "answer",
         Committed(t) = 1,
         w \notin {"none", "listen", "heard"}, v \notin {"token", "ready", "audio"}
  PROVE  PlayInv'
<1>1. /\ \A u \in Utterances \ {t} : stage'[u] = stage[u] /\ voice'[u] = voice[u]
      /\ stage'[t] = w /\ voice'[t] = v
  BY DEF PlayInv, VoiceTypeOK
<1>2. ~(t > utterance)
  BY DEF PlayInv, StagesOK
<1>3. StagesOK'
  BY <1>1, <1>2 DEF PlayInv, StagesOK
<1>4. ASSUME NEW u \in Watched PROVE HeardOK(u)'
  <2>1. CASE u # t
    <3>1. PICK m \in Messages : Put(m) /\ m # u
      BY <2>1, WatchedTyped DEF Play, Messages
    <3>2. Pieces(queued', u) = Pieces(queued, u)
      BY <3>1, PutPieces
    <3>3. Committed(u)' = Committed(u)
      BY <1>1, <2>1, WatchedTyped DEF Committed
    <3>4. Committed(u)' <= Committed(u)
      BY <3>3, WatchedTyped
    <3> QED
      BY <3>2, <3>4, Uncommitted
  <2>2. CASE u = t
    <3>1. Pieces(queued', u) \in Nat /\ Pieces(queued', u) <= Pieces(queued, u) + 1
      BY <2>2, PutPieces, WatchedTyped DEF Play, Messages
    <3>2. Committed(u)' = 0
      BY <1>1, <2>2 DEF Committed
    <3> QED
      BY <2>2, <3>1, <3>2, WatchedTyped DEF PlayInv, HeardOK
  <2> QED
    BY <2>1, <2>2
<1> QED
  BY <1>3, <1>4 DEF PlayInv

LEMMA PipelineKeeps ==
  ASSUME PlayInv, VoiceTypeOK', NEW t \in Utterances, RunVoiceTurn(t) \/ TtsTask(t)
  PROVE  PlayInv'
<1>1. /\ stage[t] \in Stages /\ voice[t] \in Voices
      /\ (voice[t] # "off" => stage[t] = "answer")
      /\ stage = [stage EXCEPT ![t] = stage[t]]
      /\ voice = [voice EXCEPT ![t] = voice[t]]
  BY DEF PlayInv, StagesOK, VoiceTypeOK
<1>2. {"over", "heard", "create", "answer"} \subseteq Stages
      /\ {"off", "text", "token", "synthesis", "ready", "next", "audio", "silent"} = Voices
  BY DEF Stages, Voices
<1>3. CASE Transcribe(t)
  <2>1. stage[t] = "listen" /\ voice[t] = "off" /\ UNCHANGED <<utterance, tooLate, cancelled>>
    BY <1>1, <1>3 DEF Transcribe, connection
  <2>2. CASE Over(t) /\ (Send \/ UNCHANGED queued)
    BY <1>2, <2>1, <2>2, PlaysNothing DEF Over, Enters
  <2>3. CASE Enters(t, "heard") /\ UNCHANGED <<voice, queued>>
    <3>1. stage' = [stage EXCEPT ![t] = "heard"] /\ voice' = [voice EXCEPT ![t] = "off"]
      BY <1>1, <2>1, <2>3 DEF Enters
    <3> QED
      BY <1>2, <2>1, <2>3, <3>1, PlaysNothing
  <2> QED
    BY <1>3, <2>2, <2>3 DEF Transcribe
<1>4. CASE SendTranscript(t)
  <2>1. /\ stage[t] = "heard" /\ voice[t] = "off" /\ Play(t)
        /\ UNCHANGED <<utterance, tooLate, cancelled>> /\ Committed(t) = 1
    BY <1>1, <1>4 DEF SendTranscript, connection, Committed
  <2>2. PICK w \in {"over", "create"} :
             stage' = [stage EXCEPT ![t] = w] /\ voice' = [voice EXCEPT ![t] = "off"]
    BY <1>1, <1>4, <2>1 DEF SendTranscript, Over, Enters
  <2> QED
    BY <1>2, <2>1, <2>2, PlaysOne
<1>5. CASE CreateVoiceAgent(t)
  <2>1. stage[t] = "create" /\ UNCHANGED <<utterance, tooLate, cancelled>>
    BY <1>5 DEF CreateVoiceAgent, connection
  <2>2. CASE Over(t) /\ Send
    BY <1>2, <2>1, <2>2, PlaysNothing DEF Over, Enters
  <2>3. CASE Enters(t, "answer") /\ Speaks(t, "text") /\ UNCHANGED queued
    BY <1>2, <2>1, <2>3, PlaysNothing DEF Enters, Speaks
  <2> QED
    BY <1>5, <2>2, <2>3 DEF CreateVoiceAgent
<1>6. CASE FinishVoiceTurn(t)
  <2>1. /\ stage[t] = "answer" /\ UNCHANGED <<utterance, tooLate, cancelled>>
        /\ stage' = [stage EXCEPT ![t] = "over"] /\ voice' = [voice EXCEPT ![t] = "off"]
        /\ Send \/ UNCHANGED queued
    BY <1>6 DEF FinishVoiceTurn, Over, Enters, connection
  <2> QED
    BY <1>2, <2>1, PlaysNothing
<1>7. ASSUME UNCHANGED <<utterance, stage, voice, tooLate, cancelled, queued>> PROVE PlayInv'
  BY <1>7 DEF PlayInv, StagesOK, HeardOK, Committed
<1>8. CASE AgentSays(t) \/ AgentEnds(t)
  BY <1>7, <1>8 DEF AgentSays, AgentEnds, connection, queue
<1>9. ASSUME NEW v \in Voices \ {"off"}, voice[t] # "off", Speaks(t, v),
             t \notin cancelled \/ v \notin {"token", "ready", "audio"},
             UNCHANGED <<stage, utterance, tooLate, cancelled, queued>>
      PROVE  PlayInv'
  <2>1. stage[t] = "answer" /\ stage' = [stage EXCEPT ![t] = "answer"]
        /\ voice' = [voice EXCEPT ![t] = v]
    BY <1>1, <1>9 DEF Speaks
  <2> QED
    BY <1>2, <1>9, <2>1, PlaysNothing
<1>10. ASSUME NEW v \in {"text", "next"},
              voice[t] \in {"token", "ready", "audio"}, Speaks(t, v), Play(t),
              UNCHANGED <<stage, utterance, tooLate, cancelled>>
       PROVE  PlayInv'
  <2>1. stage[t] = "answer" /\ stage' = [stage EXCEPT ![t] = "answer"]
        /\ voice' = [voice EXCEPT ![t] = v] /\ Committed(t) = 1
    BY <1>1, <1>10 DEF Speaks, Committed
  <2> QED
    BY <1>2, <1>10, <2>1, PlaysOne
<1>12. CASE TakeToken(t)
  BY <1>2, <1>9, <1>12 DEF TakeToken, connection, queue
<1>13. CASE SendText(t)
  BY <1>10, <1>13 DEF SendText, connection
<1>14. CASE NoMoreText(t)
  BY <1>2, <1>9, <1>14 DEF NoMoreText, connection, queue
<1>15. CASE Synthesis(t)
  BY <1>2, <1>9, <1>15 DEF Synthesis, connection, queue
<1>16. CASE Speaking(t)
  BY <1>10, <1>16 DEF Speaking, connection
<1>17. CASE NextSentence(t)
  <2>1. CASE UNCHANGED voice
    BY <1>7, <1>17, <2>1 DEF NextSentence, connection, queue
  <2>2. CASE ~UNCHANGED voice
    BY <1>2, <1>9, <1>17, <2>2 DEF NextSentence, connection, queue
  <2> QED
    BY <2>1, <2>2
<1>18. CASE PlaySentence(t)
  BY <1>10, <1>18 DEF PlaySentence, connection
<1> QED
  BY <1>3, <1>4, <1>5, <1>6, <1>8, <1>12, <1>13, <1>14, <1>15, <1>16, <1>17, <1>18
  DEF RunVoiceTurn, TtsTask

(* The writer sends what is queued, cancelled or not: a piece that is sent *)
(* is no longer queued.                                                    *)
LEMMA WriterKeeps ==
  ASSUME PlayInv, VoiceTypeOK', Writer
  PROVE  PlayInv'
<1>1. UNCHANGED <<utterance, stage, voice, cancelled>>
  BY DEF Writer, connection, pipelines
<1>2. StagesOK'
  BY <1>1 DEF PlayInv, StagesOK
<1>3. ASSUME NEW t \in Watched PROVE HeardOK(t)'
  <2>1. Committed(t)' = Committed(t)
    BY <1>1 DEF Committed
  <2>2. CASE SendMessage
    <3>1. /\ Pieces(queued', t) <= Pieces(queued, t) - (IF t = Head(queued) THEN 1 ELSE 0)
          /\ Pieces(queued', t) \in Nat
      BY <2>2, PiecesTail, PiecesBounded, WatchedTyped DEF SendMessage, VoiceTypeOK
    <3>2. tooLate'[t] = IF t = Head(queued) /\ t \in cancelled THEN tooLate[t] + 1 ELSE tooLate[t]
      BY <2>2 DEF SendMessage
    <3> QED
      BY <1>1, <2>1, <3>1, <3>2, WatchedTyped DEF PlayInv, HeardOK
  <2>3. CASE WriterEnds /\ UNCHANGED tooLate
    <3>1. Pieces(queued', t) \in Nat /\ Pieces(queued', t) <= 0
      BY <2>3, PiecesBounded DEF WriterEnds, VoiceTypeOK
    <3> QED
      BY <1>1, <2>1, <2>3, <3>1, WatchedTyped DEF PlayInv, HeardOK
  <2> QED
    BY <2>2, <2>3 DEF Writer
<1> QED
  BY <1>2, <1>3 DEF PlayInv

LEMMA PlayNext == PlayInv /\ [VoiceNext]_voiceVars => PlayInv'
<1> SUFFICES ASSUME PlayInv, [VoiceNext]_voiceVars PROVE PlayInv'
  OBVIOUS
<1>1. VoiceTypeOK'
  BY VoiceTypeNext DEF PlayInv
<1>2. ASSUME NEW t \in Utterances, RunVoiceTurn(t) \/ TtsTask(t) PROVE PlayInv'
  BY <1>1, <1>2, PipelineKeeps
<1>3. ASSUME cancelled \subseteq cancelled', UNCHANGED <<queued, tooLate>>,
             \A t \in Watched : Committed(t)' = Committed(t)
      PROVE  \A t \in Watched : HeardOK(t)'
  <2> SUFFICES ASSUME NEW t \in Watched PROVE HeardOK(t)'
    OBVIOUS
  <2>1. CASE t \in cancelled
    BY <1>3, <2>1 DEF PlayInv, HeardOK
  <2>2. CASE t \notin cancelled
    BY <1>1, <1>3, <2>2, NotCancelledNext DEF PlayInv, HeardOK
  <2> QED
    BY <2>1, <2>2
<1>4. CASE EndUtterance
  <2>1. /\ utterance < MaxUtterances /\ utterance' = utterance + 1
        /\ stage' = [stage EXCEPT ![utterance + 1] = "listen"]
        /\ cancelled \subseteq cancelled' /\ UNCHANGED <<voice, queued, tooLate>>
    BY <1>4 DEF EndUtterance, queue
  <2>2. /\ utterance + 1 \in Utterances /\ utterance + 1 > utterance
        /\ \A t \in Utterances : t > utterance + 1 => t > utterance
    BY <2>1, VoiceLimits DEF PlayInv, VoiceTypeOK, Utterances
  <2>3. stage[utterance + 1] = "none" /\ voice[utterance + 1] = "off"
    BY <2>2 DEF PlayInv, StagesOK
  <2>4. /\ stage'[utterance + 1] = "listen"
        /\ \A t \in Utterances \ {utterance + 1} : stage'[t] = stage[t]
    BY <2>1, <2>2 DEF PlayInv, VoiceTypeOK
  <2>5. StagesOK'
    BY <2>1, <2>2, <2>3, <2>4 DEF PlayInv, StagesOK, Utterances
  <2>6. \A t \in Watched : Committed(t)' = Committed(t)
    BY <2>1, <2>3, <2>4, VoiceLimits DEF Committed
  <2> QED
    BY <1>1, <1>3, <2>1, <2>5, <2>6 DEF PlayInv
<1>5. CASE Interrupt
  <2>1. StagesOK' /\ \A t \in Watched : Committed(t)' = Committed(t)
    BY <1>5 DEF Interrupt, pipelines, PlayInv, StagesOK, Committed
  <2> QED
    BY <1>1, <1>3, <1>5, <2>1 DEF Interrupt, queue, PlayInv
<1>6. ASSUME UNCHANGED <<utterance, cancelled, pipelines, tooLate>>, Send \/ UNCHANGED queued
      PROVE  PlayInv'
  <2>1. StagesOK' /\ \A t \in Watched : Committed(t)' = Committed(t)
    BY <1>6 DEF pipelines, PlayInv, StagesOK, Committed
  <2>2. \A t \in Watched : HeardOK(t)'
    BY <1>6, <2>1, SendPieces DEF PlayInv, HeardOK
  <2> QED
    BY <1>1, <2>1, <2>2 DEF PlayInv
<1>7. CASE Authenticate \/ Answer \/ Configure \/ BufferAudio \/ LeaveLoop \/ Close
  BY <1>6, <1>7
  DEF Authenticate, Answer, Configure, BufferAudio, LeaveLoop, Close, connection, queue
<1>8. CASE ClientGone \/ UNCHANGED voiceVars
  BY <1>6, <1>8 DEF ClientGone, voiceVars, connection, queue
<1>9. CASE Writer
  BY <1>1, <1>9, WriterKeeps
<1> QED
  BY <1>2, <1>4, <1>5, <1>7, <1>8, <1>9 DEF VoiceNext, Reader

(* A client that speaks or interrupts is sent at most as many more texts   *)
(* and sounds of the answer before as its queue holds, and one: for any    *)
(* number of utterances, sentences and tokens and any capacity of the      *)
(* channels, whatever queues a piece is followed by a look at the token,   *)
(* while the writer sends what is queued without one.                      *)
THEOREM CancelCorrect == VoiceSpec => []StopsAfterCancel
<1>1. PlayInv => StopsAfterCancel
  <2> SUFFICES ASSUME PlayInv, NEW t \in Watched PROVE tooLate[t] <= QueueLimit + 1
    BY DEF StopsAfterCancel
  <2> QED
    BY WatchedTyped DEF PlayInv, HeardOK
<1> QED
  BY <1>1, PlayInit, PlayNext, PTL DEF VoiceSpec
=============================================================================
