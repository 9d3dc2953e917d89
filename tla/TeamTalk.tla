------------------------------ MODULE TeamTalk ------------------------------
(***************************************************************************)
(* Messages between the agents of one team run: the bus, the tools that    *)
(* send, request a review and read, and the tool with which the lead       *)
(* spawns specialists (aivyx-team: message_bus.rs, message_tools.rs,       *)
(* spawn.rs, and the part of runtime.rs and delegation.rs that wires them  *)
(* together).                                                              *)
(*                                                                         *)
(* Every agent is a task: after it is created its tools are called in any  *)
(* order, beside those of the others.  A call of a tool on the bus is one  *)
(* step, as the code holds the lock of the senders, or of the buffer,      *)
(* throughout; a spawn waits for the creation of an agent, and holds a     *)
(* receiver of its own from the registration to its end.  A message is     *)
(* named by the time it was sent at.                                       *)
(***************************************************************************)
EXTENDS Integers, Sequences, FiniteSets, SequencesExt

CONSTANTS
    Lead,        \* orchestration's lead
    Members,     \* names of the members of the team's configuration
    Spawnable,   \* names the lead may ask to spawn
    Profiles,    \* names of the agent profiles on disk
    SpawnCalls,  \* calls of spawn_specialist that may be under way together
    Capacity,    \* length of an agent's broadcast channel, 64 in the code
    MaxPerTurn,  \* max_messages_per_turn, 0 when unlimited
    MaxSpawned,  \* max_spawned_specialists
    PeerDialogue,\* enable_peer_dialogue
    MaxClock,    \* bound on the messages
    Namesake,    \* the second agent of the lead's name
    Unset

Names == {Lead} \union Members \union Spawnable

(* A delegation that names the lead creates another agent of that name.    *)
Crew == Names \union {Namesake}
NameOf(a) == IF a = Namesake THEN Lead ELSE a

Kinds == {"text", "review_request"}
Message == [at : 1 .. MaxClock, from : Names, type : Kinds]

ASSUME LimitsAssumption ==
    /\ Capacity \in Nat \ {0}
    /\ MaxPerTurn \in Nat
    /\ MaxSpawned \in Nat
    /\ MaxClock \in Nat
ASSUME NamesakeAssumption == Namesake \notin Names
ASSUME CallsAssumption == IsFiniteSet(SpawnCalls) /\ SpawnCalls # {}
ASSUME DialogueAssumption == PeerDialogue \in BOOLEAN

VARIABLES
    clock,     \* messages sent with success so far
    senders,   \* names with a channel on the bus
    present,   \* agents that exist, with their tools
    hearing,   \* agents that hold a receiver of their channel
    inbox,     \* what is left in each receiver
    buffer,    \* what read_messages has drained and not handed over
    spent,     \* message_count of each agent's send_message
    said,      \* history: text messages of each agent the bus accepted
    accepted,  \* history: messages the bus accepted while the agent heard
    read,      \* messages handed to each agent
    spawn,     \* the name each call of spawn_specialist is creating
    holding,   \* calls that have registered it and hold a receiver
    spawned    \* spawned_count

mail == <<inbox, buffer, accepted, read>>
counts == <<spent, said>>
spawning == <<spawn, holding, spawned>>
talkVars == <<clock, senders, present, hearing, mail, counts, spawning>>

TalkTypeOK ==
    /\ clock \in 0 .. MaxClock
    /\ senders \subseteq Names
    /\ present \subseteq Crew
    /\ hearing \subseteq present
    /\ inbox \in [Crew -> Seq(Message)]
    /\ buffer \in [Crew -> Seq(Message)]
    /\ accepted \in [Crew -> Seq(Message)]
    /\ read \in [Crew -> Seq(Message)]
    /\ spent \in [Crew -> Nat]
    /\ said \in [Crew -> Nat]
    /\ spawn \in [SpawnCalls -> Spawnable \union {Unset}]
    /\ holding \subseteq SpawnCalls
    /\ spawned \in Nat

Nothing == [a \in Crew |-> <<>>]

(* The bus has a channel for every member of the configuration; the lead   *)
(* hears messages only when it is listed as a member.                      *)
TalkInit ==
    /\ clock = 0
    /\ senders = Members
    /\ present = {Lead}
    /\ hearing = {Lead} \intersect Members
    /\ inbox = Nothing
    /\ buffer = Nothing
    /\ accepted = Nothing
    /\ read = Nothing
    /\ spent = [a \in Crew |-> 0]
    /\ said = [a \in Crew |-> 0]
    /\ spawn = [c \in SpawnCalls |-> Unset]
    /\ holding = {}
    /\ spawned = 0

(* A specialist is created by the first delegation that names it: the pool *)
(* has no entry for the lead, nor looks whether the name is the lead's.  It *)
(* hears what is sent from then on, if its name is on the bus.              *)
CreateSpecialist(a) ==
    /\ a \in Crew \ present
    /\ NameOf(a) \in Profiles
    /\ present' = present \union {a}
    /\ hearing' = IF NameOf(a) \in senders THEN hearing \union {a} ELSE hearing
    /\ UNCHANGED <<clock, senders, mail, counts, spawning>>

-----------------------------------------------------------------------------
(* Sending *)

Latest(s) == IF Len(s) > Capacity THEN Tail(s) ELSE s

Hearers(to) == {b \in hearing : NameOf(b) = to}

(* A call of spawn_specialist holds a receiver of the name it registered   *)
(* until it returns, and never reads it.                                   *)
IsHeld(to) == \E c \in holding : spawn[c] = to

(* A channel without a receiver refuses the message; one whose receivers   *)
(* are held by calls only accepts it, and it is lost with them.  Every     *)
(* agent of the name gets it; a full receiver drops its oldest.            *)
Deliver(a, to, type) ==
    LET m == [at |-> clock + 1, from |-> NameOf(a), type |-> type] IN
    /\ IF to \in senders /\ (Hearers(to) # {} \/ IsHeld(to))
       THEN /\ clock < MaxClock
            /\ clock' = clock + 1
            /\ inbox' = [b \in Crew |-> IF b \in Hearers(to)
                                          THEN Latest(Append(inbox[b], m)) ELSE inbox[b]]
            /\ accepted' = [b \in Crew |-> IF b \in Hearers(to)
                                             THEN Append(accepted[b], m) ELSE accepted[b]]
            /\ said' = IF type = "text" THEN [said EXCEPT ![a] = @ + 1] ELSE said
       ELSE UNCHANGED <<clock, inbox, accepted, said>>
    /\ UNCHANGED <<senders, present, hearing, buffer, read, spawning>>

(* Mutant: one message more than the limit. *)
SendOneMore(a, to) ==
    /\ a \in present
    /\ MaxPerTurn = 0 \/ spent[a] <= MaxPerTurn
    /\ spent' = IF MaxPerTurn = 0 THEN spent ELSE [spent EXCEPT ![a] = @ + 1]
    /\ Deliver(a, to, "text")

(* The count goes up before it is compared, and whether or not the message *)
(* can be delivered; nothing sets it back while the agent lives.  Over the *)
(* limit a message is refused and the count, which goes on, is not seen    *)
(* again: such a call is no step here.                                     *)
SendMessage(a, to) ==
    /\ a \in present
    /\ MaxPerTurn = 0 \/ spent[a] < MaxPerTurn
    /\ spent' = IF MaxPerTurn = 0 THEN spent ELSE [spent EXCEPT ![a] = @ + 1]
    /\ Deliver(a, to, "text")

RequestPeerReview(a, peer) ==
    /\ PeerDialogue
    /\ a \in present
    /\ Deliver(a, peer, "review_request")
    /\ UNCHANGED spent

-----------------------------------------------------------------------------
(* Reading *)

Filters == [from : Names \union {Unset}, type : Kinds \union {Unset}, since : 0 .. MaxClock]

Passes(m, f) ==
    /\ f.from \in {Unset, m.from}
    /\ f.type \in {Unset, m.type}
    /\ m.at > f.since

(* The buffer is gone through in order: what passes the filter is matched,  *)
(* and the rest remains.                                                   *)
Partition(s, f) ==
    LET after[n \in 0 .. Len(s)] ==
            IF n = 0 THEN [matched |-> <<>>, remaining |-> <<>>]
            ELSE IF Passes(s[n], f)
            THEN [after[n - 1] EXCEPT !.matched = Append(@, s[n])]
            ELSE [after[n - 1] EXCEPT !.remaining = Append(@, s[n])]
    IN  after[Len(s)]

(* Mutant: what the filter leaves out is dropped. *)
ReadAndForget(a, f) ==
    LET drained == Partition(buffer[a] \o inbox[a], f) IN
    /\ a \in hearing
    /\ inbox' = [inbox EXCEPT ![a] = <<>>]
    /\ buffer' = [buffer EXCEPT ![a] = <<>>]
    /\ read' = [read EXCEPT ![a] = @ \o drained.matched]
    /\ UNCHANGED <<clock, senders, present, hearing, accepted, counts, spawning>>

(* The receiver is drained into the buffer; what passes the filter is      *)
(* handed over and the rest stays.                                         *)
ReadMessages(a, f) ==
    LET drained == Partition(buffer[a] \o inbox[a], f) IN
    /\ a \in hearing
    /\ inbox' = [inbox EXCEPT ![a] = <<>>]
    /\ buffer' = [buffer EXCEPT ![a] = drained.remaining]
    /\ read' = [read EXCEPT ![a] = @ \o drained.matched]
    /\ UNCHANGED <<clock, senders, present, hearing, accepted, counts, spawning>>

-----------------------------------------------------------------------------
(* Spawning *)

(* Mutant: one specialist more than the limit. *)
BeginOneMore(c, name) ==
    /\ spawn[c] = Unset
    /\ spawned <= MaxSpawned
    /\ spawn' = [spawn EXCEPT ![c] = name]
    /\ UNCHANGED <<clock, senders, present, hearing, mail, counts, holding, spawned>>

BeginSpawn(c, name) ==
    /\ spawn[c] = Unset
    /\ spawned < MaxSpawned
    /\ spawn' = [spawn EXCEPT ![c] = name]
    /\ UNCHANGED <<clock, senders, present, hearing, mail, counts, holding, spawned>>

SpawnFails(c) ==
    /\ spawn[c] # Unset
    /\ c \notin holding
    /\ spawn' = [spawn EXCEPT ![c] = Unset]
    /\ UNCHANGED <<clock, senders, present, hearing, mail, counts, holding, spawned>>

(* The name is put on the bus once an agent could be built from the        *)
(* profile; the call holds the receiver it is given.                       *)
RegisterSpawn(c) ==
    /\ spawn[c] # Unset
    /\ c \notin holding
    /\ senders' = senders \union {spawn[c]}
    /\ holding' = holding \union {c}
    /\ UNCHANGED <<clock, present, hearing, mail, counts, spawn, spawned>>

(* The specialist is counted, and the receiver and the agent that was      *)
(* built are dropped: the specialist itself is created by its first        *)
(* delegation, from the profile of its own name.                           *)
FinishSpawn(c) ==
    /\ c \in holding
    /\ holding' = holding \ {c}
    /\ spawned' = spawned + 1
    /\ spawn' = [spawn EXCEPT ![c] = Unset]
    /\ UNCHANGED <<clock, senders, present, hearing, mail, counts>>

-----------------------------------------------------------------------------
TalkNext ==
    \/ \E a \in Crew :
          \/ CreateSpecialist(a)
          \/ \E to \in Names : SendMessage(a, to) \/ RequestPeerReview(a, to)
          \/ \E f \in Filters : ReadMessages(a, f)
    \/ \E c \in SpawnCalls :
          \/ \E name \in Spawnable : BeginSpawn(c, name)
          \/ SpawnFails(c)
          \/ RegisterSpawn(c)
          \/ FinishSpawn(c)

TalkSpec == TalkInit /\ [][TalkNext]_talkVars

-----------------------------------------------------------------------------
(* What an agent holds or has been given. *)
Held(a) == read[a] \o buffer[a] \o inbox[a]

(* Of what the bus accepted for an agent's name while the agent heard, the *)
(* latest messages, as many as its channel is long, are in its hands or    *)
(* waiting for it, however its reads filtered the others and whichever     *)
(* other agent has its name; nothing is handed to it twice.                *)
LatestKept ==
    \A a \in Crew :
        /\ \A i \in DOMAIN accepted[a] :
              i > Len(accepted[a]) - Capacity => Contains(Held(a), accepted[a][i])
        /\ \A i, j \in DOMAIN Held(a) : i # j => Held(a)[i] # Held(a)[j]

(* A message the bus accepts has an agent that hears it.                   *)
AcceptedIsHeard ==
    \A n \in 1 .. clock : \E a \in Crew : \E i \in DOMAIN accepted[a] :
        accepted[a][i].at = n

(* However its turns and those of the others interleave, no agent has more *)
(* text messages accepted than max_messages_per_turn allows in one turn.   *)
SpeaksWithinLimit ==
    MaxPerTurn > 0 => \A a \in Crew : said[a] <= MaxPerTurn

(* Calls of spawn_specialist that overlap pass the limit by one less than   *)
(* their number at most.                                                    *)
SpawnsBounded ==
    spawned <= MaxSpawned + Cardinality(SpawnCalls) - 1
=============================================================================
