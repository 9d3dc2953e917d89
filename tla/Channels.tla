------------------------------ MODULE Channels ------------------------------
(***************************************************************************)
(* People who talk to an agent over a messaging platform: the manager that *)
(* starts and stops the channels, the Telegram bot that polls for updates, *)
(* and the handler of a message (aivyx-server, channels/).                 *)
(*                                                                         *)
(* Every channel is a task of its own; it works one update after another   *)
(* and shares the session store with the other channels and with the chat  *)
(* requests of Sessions.  Telegram keeps the updates of a bot until a poll *)
(* confirms them.  The updates of a bot are numbered 1, 2, ...; what the   *)
(* code calls the offset, the first update not taken, is kept here as the  *)
(* last one taken.  A turn is named by the update that asks for it and the  *)
(* start of the server it falls in.                                        *)
(***************************************************************************)
EXTENDS Sessions, Integers, SequencesExt

CONSTANTS
    Bots,         \* enabled channels, all of one platform
    Inbox,        \* the updates each bot will be sent
    Allowed,      \* allowed_users in each channel's configuration
    MaxPerMinute, \* MAX_MESSAGES_PER_MINUTE
    MaxRestarts   \* bound on the starts of the server

Contents == {"text", "new", "info", "media"}
Update == [user : Users, what : Contents]
UpdateIds == UNION {{b} \X (1 .. Len(Inbox[b])) : b \in Bots}
Attempts == {<<u[1], u[2], n>> : u \in UpdateIds, n \in 1 .. MaxRestarts}
Tasks == {"off", "verify", "poll", "next", "agent", "turn", "answer", "reply", "dead"}

ASSUME InboxAssumption == Inbox \in [Bots -> Seq(Update)]
ASSUME AllowedAssumption == Allowed \in [Bots -> SUBSET Users]
ASSUME TurnsAssumption == Attempts \subseteq Turns
ASSUME LimitAssumption == MaxPerMinute \in Nat /\ MaxRestarts \in Nat

VARIABLES
    up,        \* whether the server runs
    starts,    \* how often it was started
    arrived,   \* updates Telegram has received for each bot
    confirmed, \* updates a poll has confirmed: Telegram has dropped them
    task,      \* where the task of each channel is
    taken,     \* the last update it has taken
    end,       \* the last update of its batch
    talk,      \* the conversation of the agent it runs
    recent,    \* messages of each user its limiter counts
    handled    \* updates that were answered or ignored on purpose

telegram == <<arrived, confirmed>>
channels == <<task, taken, end, talk, recent, handled>>
vars == <<saved, stale, chats, up, starts, telegram, channels>>

TypeOK ==
    /\ SessionsTypeOK
    /\ up \in BOOLEAN
    /\ starts \in 0 .. MaxRestarts
    /\ arrived \in [Bots -> Nat]
    /\ confirmed \in [Bots -> Nat]
    /\ task \in [Bots -> Tasks]
    /\ taken \in [Bots -> Nat]
    /\ end \in [Bots -> Nat]
    /\ talk \in [Bots -> Talks]
    /\ recent \in [Bots -> [Users -> Nat]]
    /\ handled \subseteq UpdateIds

Quiet == [u \in Users |-> 0]

Init ==
    /\ SessionsInit
    /\ up = FALSE
    /\ starts = 0
    /\ arrived = [b \in Bots |-> 0]
    /\ confirmed = [b \in Bots |-> 0]
    /\ task = [b \in Bots |-> "off"]
    /\ taken = [b \in Bots |-> 0]
    /\ end = [b \in Bots |-> 0]
    /\ talk = [b \in Bots |-> <<>>]
    /\ recent = [b \in Bots |-> Quiet]
    /\ handled = {}

-----------------------------------------------------------------------------
(* The manager *)

(* Enabled channels are started; one whose token is not in the store, or   *)
(* when the configuration cannot be read, is only logged.                  *)
StartAll ==
    /\ ~up
    /\ starts < MaxRestarts
    /\ up' = TRUE
    /\ starts' = starts + 1
    /\ \E started \in SUBSET Bots :
          task' = [b \in Bots |-> IF b \in started THEN "verify" ELSE "off"]
    /\ taken' = [b \in Bots |-> 0]
    /\ end' = [b \in Bots |-> 0]
    /\ talk' = [b \in Bots |-> <<>>]
    /\ recent' = [b \in Bots |-> Quiet]
    /\ UNCHANGED <<saved, stale, chats, telegram, handled>>

(* The tasks are aborted, each where it waits; a crash does the same. *)
StopAll ==
    /\ up
    /\ up' = FALSE
    /\ task' = [b \in Bots |-> "off"]
    /\ ChatsCut
    /\ UNCHANGED <<saved, stale, starts, telegram, taken, end, talk, recent, handled>>

-----------------------------------------------------------------------------
(* The bot *)

Becomes(b, where) == task' = [task EXCEPT ![b] = where]

UpdateArrives(b) ==
    /\ arrived[b] < Len(Inbox[b])
    /\ arrived' = [arrived EXCEPT ![b] = @ + 1]
    /\ UNCHANGED <<saved, stale, chats, up, starts, confirmed, channels>>

(* A token that Telegram refuses, or one failed call, ends the channel. *)
Verify(b) ==
    /\ task[b] = "verify"
    /\ Becomes(b, "poll") \/ Becomes(b, "dead")
    /\ UNCHANGED <<saved, stale, chats, up, starts, telegram, taken, end, talk,
                   recent, handled>>

ConfirmOneMore(b) ==
    /\ task[b] = "poll"
    /\ taken[b] < arrived[b]
    /\ confirmed' = [confirmed EXCEPT ![b] = taken[b] + 1]
    /\ taken' = [taken EXCEPT ![b] = taken[b] + 1]
    /\ \E last \in taken[b] + 2 .. arrived[b] :
          /\ end' = [end EXCEPT ![b] = last]
          /\ Becomes(b, "next")
    /\ UNCHANGED <<saved, stale, chats, up, starts, arrived, talk, recent, handled>>

(* A poll confirms what was taken before and brings what waits, if any; a  *)
(* poll that fails is repeated.                                            *)
GetUpdates(b) ==
    /\ task[b] = "poll"
    /\ LET kept == IF taken[b] > confirmed[b] THEN taken[b] ELSE confirmed[b]
       IN  /\ confirmed' = [confirmed EXCEPT ![b] = kept]
           /\ taken' = [taken EXCEPT ![b] = kept]
           /\ \/ /\ arrived[b] = kept
                 /\ UNCHANGED <<task, end>>
              \/ \E last \in kept + 1 .. arrived[b] :
                    /\ end' = [end EXCEPT ![b] = last]
                    /\ Becomes(b, "next")
    /\ UNCHANGED <<saved, stale, chats, up, starts, arrived, talk, recent, handled>>

(* What follows when an update is done with. *)
Done(b, n) ==
    /\ handled' = handled \union {<<b, n>>}
    /\ Becomes(b, IF n < end[b] THEN "next" ELSE "poll")

-----------------------------------------------------------------------------
(* The handler of a message *)

IsUserAllowed(b, user) == user \in Allowed[b]

(* Updates without a sender or a text, and those of users who are not on a *)
(* list that has any, are passed over.                                     *)
Ignored(b, update) ==
    \/ update.what = "media"
    \/ Allowed[b] # {} /\ update.user \notin Allowed[b]

IgnoreInPlace(b) ==
    /\ task[b] = "next"
    /\ Ignored(b, Inbox[b][taken[b] + 1])
    /\ UNCHANGED vars

Ignore(b) ==
    LET n == taken[b] + 1
    IN  /\ task[b] = "next"
        /\ Ignored(b, Inbox[b][n])
        /\ taken' = [taken EXCEPT ![b] = n]
        /\ Done(b, n)
        /\ UNCHANGED <<saved, stale, chats, up, starts, telegram, end, talk, recent>>

(* The next update of the batch goes to the handler. *)
TakeUpdate(b, n) ==
    /\ task[b] = "next"
    /\ n = taken[b] + 1
    /\ ~Ignored(b, Inbox[b][n])
    /\ taken' = [taken EXCEPT ![b] = n]
    /\ UNCHANGED <<chats, up, starts, telegram, end, handled>>

IsRateLimited(b, user) == recent[b][user] >= MaxPerMinute

Count(b, user) == recent' = [recent EXCEPT ![b][user] = @ + 1]

(* The handler refuses: an empty list allows nobody, and a user who wrote  *)
(* too often is told to wait and not counted.                              *)
Refuse(b) ==
    \E n \in {taken[b] + 1} :
        /\ TakeUpdate(b, n)
        /\ LET user == Inbox[b][n].user
           IN  ~IsUserAllowed(b, user) \/ IsRateLimited(b, user)
        /\ Becomes(b, "reply")
        /\ UNCHANGED <<saved, stale, talk, recent>>

(* /new and /reset delete the user's session, whatever comes of it; the    *)
(* session is the user's on the platform, not the channel's.               *)
SpecialCommand(b) ==
    \E n \in {taken[b] + 1} :
        /\ TakeUpdate(b, n)
        /\ LET update == Inbox[b][n]
           IN  /\ IsUserAllowed(b, update.user) /\ ~IsRateLimited(b, update.user)
               /\ Count(b, update.user)
               /\ \/ update.what = "new" /\ Forgotten(update.user)
                  \/ update.what \in {"new", "info"} /\ UNCHANGED <<saved, stale>>
        /\ Becomes(b, "reply")
        /\ UNCHANGED talk

HandleMessage(b) ==
    \E n \in {taken[b] + 1} :
        /\ TakeUpdate(b, n)
        /\ LET update == Inbox[b][n]
           IN  /\ IsUserAllowed(b, update.user) /\ ~IsRateLimited(b, update.user)
               /\ update.what = "text"
               /\ Count(b, update.user)
        /\ Becomes(b, "agent")
        /\ UNCHANGED <<saved, stale, talk>>

Sender(b) == Inbox[b][taken[b]].user

BeginAfresh(b) ==
    /\ task[b] = "agent"
    /\ Becomes(b, "turn")
    /\ UNCHANGED <<saved, stale, chats, up, starts, telegram, taken, end, talk,
                   recent, handled>>

(* The agent is made and given the user's conversation; either may fail,   *)
(* and so does an agent whose tier needs a person's approval.              *)
BeginTurn(b) ==
    /\ task[b] = "agent"
    /\ \/ /\ talk' = [talk EXCEPT ![b] = Loaded(Sender(b))]
          /\ Becomes(b, "turn")
       \/ /\ Becomes(b, "reply")
          /\ UNCHANGED talk
    /\ UNCHANGED <<saved, stale, chats, up, starts, telegram, taken, end, recent, handled>>

(* The turn ends, and the whole conversation is saved under the user's id. *)
FinishTurn(b) ==
    /\ task[b] = "turn"
    /\ \/ /\ SaveOrNot(Sender(b), Append(talk[b], <<b, taken[b], starts>>))
          /\ Becomes(b, "answer")
       \/ /\ Becomes(b, "reply")
          /\ UNCHANGED <<saved, stale>>
    /\ talk' = [talk EXCEPT ![b] = <<>>]
    /\ UNCHANGED <<chats, up, starts, telegram, taken, end, recent, handled>>

(* The answer, or a fixed text, is sent in pieces; what cannot be sent is  *)
(* lost.                                                                   *)
Reply(b) ==
    /\ task[b] \in {"answer", "reply"}
    /\ Done(b, taken[b])
    /\ UNCHANGED <<saved, stale, chats, up, starts, telegram, taken, end, talk, recent>>

(* A long answer is sliced at a fixed byte to look for a newline, which    *)
(* panics when that byte is inside a character: the task is gone.          *)
ChunkPanics(b) ==
    /\ task[b] = "answer"
    /\ Becomes(b, "dead")
    /\ UNCHANGED <<saved, stale, chats, up, starts, telegram, taken, end, talk,
                   recent, handled>>

(* A minute has passed since a message the limiter counts. *)
Expires(b) ==
    /\ \E user \in {u \in Users : recent[b][u] > 0} :
          recent' = [recent EXCEPT ![b][user] = @ - 1]
    /\ UNCHANGED <<saved, stale, chats, up, starts, telegram, task, taken, end, talk, handled>>

-----------------------------------------------------------------------------

RunChannel(b) ==
    \/ Verify(b) \/ GetUpdates(b)
    \/ Ignore(b) \/ Refuse(b) \/ SpecialCommand(b) \/ HandleMessage(b)
    \/ BeginTurn(b) \/ FinishTurn(b) \/ Reply(b)

Next ==
    \/ StartAll
    \/ StopAll
    \/ \E b \in Bots : UpdateArrives(b) \/ RunChannel(b) \/ ChunkPanics(b) \/ Expires(b)
    \/ up /\ ChatNext /\ UNCHANGED <<up, starts, telegram, channels>>

(* The runtime runs every task that can go on, polls and turns end, and    *)
(* Telegram answers some poll.                                             *)
Fairness == \A b \in Bots : WF_vars(RunChannel(b))

Spec == Init /\ [][Next]_vars /\ Fairness

-----------------------------------------------------------------------------
(* Properties *)

(* Telegram drops an update only when it was handled: whatever the server  *)
(* loses when it stops is sent again.                                      *)
NothingSkipped ==
    \A b \in Bots : \A n \in 1 .. confirmed[b] : <<b, n>> \in handled

(* A conversation is never replaced by one that lacks its turns, unless it *)
(* was too old: it is continued or deleted.  This is what one bot for a    *)
(* platform gives; with two, the later save of two turns wins.             *)
ConversationsKept ==
    [][\A s \in Sids : saved[s] # None /\ s \notin stale =>
          saved'[s] = None \/ IsPrefix(saved[s], saved'[s])]_vars

(* Every update is handled, or its channel has ended or was never started. *)
UpdatesHandled ==
    \A u \in UpdateIds :
        arrived[u[1]] >= u[2]
            ~> (u \in handled \/ task[u[1]] \in {"off", "dead"})
=============================================================================
