------------------------------- MODULE Voice --------------------------------
(***************************************************************************)
(* The voice connection of aivyx-server (routes/ws_voice.rs): one client   *)
(* that sends audio, control frames and interruptions, the reader of its   *)
(* frames, the writer of the server's, and a pipeline for each utterance:  *)
(* transcription, the agent's turn, and the speech made of its sentences.  *)
(*                                                                         *)
(* A pipeline looks at its cancellation token between its steps, and every *)
(* message to the client goes through one bounded queue.  What messages    *)
(* say is left out: a text or a sound is the number of its utterance.      *)
(***************************************************************************)
EXTENDS SessionStore, Integers

CONSTANTS
    MaxUtterances, \* bound on the utterances of a connection
    MaxSentences,  \* bound on the sentences of an answer
    AudioLimit,    \* chunks the audio channel holds
    TokenLimit,    \* tokens the channel of an answer holds
    QueueLimit,    \* messages the outgoing queue and the writer's hand hold
    Watched,       \* utterances whose texts and sounds are told from other messages
    StoreIsExclusive \* whether a second open of the secret store fails

Utterances == 1 .. MaxUtterances

ASSUME UtterancesAssumption == Utterances \subseteq Sids /\ Utterances \subseteq Turns
ASSUME NoUtteranceAssumption == None \notin Sids
ASSUME VoiceLimits ==
    /\ MaxUtterances \in Nat /\ MaxSentences \in Nat
    /\ StoreIsExclusive \in BOOLEAN /\ Watched \subseteq Utterances
    /\ AudioLimit \in Nat \ {0} /\ TokenLimit \in Nat \ {0} /\ QueueLimit \in Nat \ {0}

Phases == {"auth", "open", "stuck", "closing", "refused", "closed"}
Stages == {"none", "listen", "heard", "create", "answer", "over"}
Voices == {"off", "text", "token", "synthesis", "ready", "next", "audio", "silent"}

(* What the outgoing queue holds: a text or a sound of a watched utterance,*)
(* by its number, or any other message.                                    *)
Other == 0
Messages == Watched \union {Other}

VARIABLES
    client,    \* whether the client is connected
    phase,     \* where the reader is
    audio,     \* chunks in the audio channel
    config,    \* the session named by the last `config` frame
    utterance, \* the last utterance: its token is the connection's
    cancelled, \* utterances whose token is cancelled
    stage,     \* where each pipeline is
    named,     \* the session that was configured when it was spoken
    based,     \* the conversation its agent was given
    agent,     \* its agent's turn: running, ended well or badly
    tokens,    \* tokens the agent has sent and nobody taken
    voice,     \* the task that sends text and speech
    sentences, \* sentences it has yet to speak
    queued,    \* messages in the outgoing queue, the first in the writer's hand
    writer,    \* whether the writer runs
    tooLate    \* history: texts and sounds sent since the utterance was cancelled

connection == <<client, phase, audio, config, utterance, cancelled>>
pipelines == <<stage, named, based, agent, tokens, voice, sentences>>
queue == <<queued, writer>>
voiceVars == <<saved, stale, connection, pipelines, queue, tooLate>>

VoiceTypeOK ==
    /\ StoreTypeOK
    /\ client \in BOOLEAN
    /\ phase \in Phases
    /\ audio \in 0 .. AudioLimit
    /\ config \in Sids \union {None}
    /\ utterance \in 0 .. MaxUtterances
    /\ cancelled \subseteq Utterances
    /\ stage \in [Utterances -> Stages]
    /\ named \in [Utterances -> Sids \union {None}]
    /\ based \in [Utterances -> Talks]
    /\ agent \in [Utterances -> {"running", "ok", "failed"}]
    /\ tokens \in [Utterances -> 0 .. TokenLimit]
    /\ voice \in [Utterances -> Voices]
    /\ sentences \in [Utterances -> 0 .. MaxSentences]
    /\ queued \in Seq(Messages)
    /\ Len(queued) <= QueueLimit
    /\ writer \in BOOLEAN
    /\ tooLate \in [Watched -> Nat]

VoiceInit ==
    /\ StoreInit
    /\ client = TRUE
    /\ phase = "auth"
    /\ audio = 0
    /\ config = None
    /\ utterance = 0
    /\ cancelled = {}
    /\ stage = [t \in Utterances |-> "none"]
    /\ named = [t \in Utterances |-> None]
    /\ based = [t \in Utterances |-> <<>>]
    /\ agent = [t \in Utterances |-> "running"]
    /\ tokens = [t \in Utterances |-> 0]
    /\ voice = [t \in Utterances |-> "off"]
    /\ sentences = [t \in Utterances |-> 0]
    /\ queued = <<>>
    /\ writer = TRUE
    /\ tooLate = [t \in Watched |-> 0]

-----------------------------------------------------------------------------
(* The outgoing queue *)

(* A send waits while the queue is full; once the writer has ended it      *)
(* fails at once, and its result is ignored everywhere.                    *)
Put(m) ==
    \/ writer /\ Len(queued) < QueueLimit /\ queued' = Append(queued, m)
    \/ ~writer /\ UNCHANGED queued

Send == Put(Other)

(* Text or sound of an utterance is queued. *)
Play(t) == Put(IF t \in Watched THEN t ELSE Other)

(* The writer sends the next message; it looks at no token.                *)
SendMessage ==
    /\ writer /\ queued # <<>>
    /\ queued' = Tail(queued)
    /\ tooLate' = [t \in Watched |->
                    IF t = Head(queued) /\ t \in cancelled THEN tooLate[t] + 1 ELSE tooLate[t]]
    /\ UNCHANGED writer

WriterThatIsHeld ==
    /\ writer
    /\ queued # <<>> /\ ~client
    /\ writer' = FALSE
    /\ queued' = <<>>

(* It ends when a message cannot be sent, and drops what is queued, or     *)
(* when the queue is empty and nobody can send any more: the reader has    *)
(* dropped its sender and every pipeline has ended.                        *)
WriterEnds ==
    /\ writer
    /\ \/ queued # <<>> /\ ~client
       \/ /\ queued = <<>> /\ phase = "closing"
          /\ \A t \in Utterances : stage[t] \in {"none", "over"}
    /\ writer' = FALSE
    /\ queued' = <<>>

Writer ==
    /\ \/ SendMessage
       \/ WriterEnds /\ UNCHANGED tooLate
    /\ UNCHANGED <<saved, stale, connection, pipelines>>

-----------------------------------------------------------------------------
(* The reader *)

(* The first frame must authenticate within its time.  On a refusal the    *)
(* handler waits for the writer while it still holds a sender.             *)
Authenticate ==
    /\ phase = "auth"
    /\ Send
    /\ phase' = "refused" \/ (client /\ phase' = "open")
    /\ UNCHANGED <<saved, stale, client, audio, config, utterance, cancelled, pipelines,
                   writer, tooLate>>

Reads == phase = "open" /\ client

(* A further `auth`, a `ping` or a frame that is no message is answered.   *)
Answer ==
    /\ Reads
    /\ Send
    /\ UNCHANGED <<saved, stale, connection, pipelines, writer, tooLate>>

(* The client names a session it was told of, or none. *)
Configure ==
    /\ Reads
    /\ \E s \in Listed \union {None} : config' = s
    /\ UNCHANGED <<saved, stale, client, phase, audio, utterance, cancelled, pipelines,
                   queue, tooLate>>

(* A chunk of audio is put in a channel that only the reader empties. *)
BufferAudio ==
    /\ Reads
    /\ IF audio < AudioLimit
       THEN audio' = audio + 1 /\ UNCHANGED phase
       ELSE phase' = "stuck" /\ UNCHANGED audio
    /\ UNCHANGED <<saved, stale, client, config, utterance, cancelled, pipelines, queue, tooLate>>

Interrupt ==
    /\ Reads
    /\ cancelled' = cancelled \union ({utterance} \ {0})
    /\ UNCHANGED <<saved, stale, client, phase, audio, config, utterance, pipelines,
                   queue, tooLate>>

(* The chunks become an utterance; the one before it is cancelled. *)
EndUtterance ==
    /\ Reads
    /\ audio > 0
    /\ utterance < MaxUtterances
    /\ audio' = 0
    /\ cancelled' = cancelled \union ({utterance} \ {0})
    /\ utterance' = utterance + 1
    /\ stage' = [stage EXCEPT ![utterance + 1] = "listen"]
    /\ named' = [named EXCEPT ![utterance + 1] = config]
    /\ UNCHANGED <<saved, stale, client, phase, config, based, agent, tokens, voice,
                   sentences, queue, tooLate>>

ClientGone ==
    /\ client
    /\ client' = FALSE
    /\ UNCHANGED <<saved, stale, phase, audio, config, utterance, cancelled, pipelines,
                   queue, tooLate>>

(* The reader sees the end of the stream, drops its sender and waits for   *)
(* the writer; the pipelines go on.                                        *)
LeaveLoop ==
    /\ phase = "open" /\ ~client
    /\ phase' = "closing"
    /\ UNCHANGED <<saved, stale, client, audio, config, utterance, cancelled, pipelines,
                   queue, tooLate>>

Close ==
    /\ phase \in {"closing", "refused"}
    /\ ~writer
    /\ phase' = "closed"
    /\ UNCHANGED <<saved, stale, client, audio, config, utterance, cancelled, pipelines,
                   queue, tooLate>>

-----------------------------------------------------------------------------
(* The pipeline of an utterance *)

Enters(t, where) == stage' = [stage EXCEPT ![t] = where]
(* The pipeline returns, and what it held is gone. *)
Over(t) ==
    /\ Enters(t, "over")
    /\ named' = [named EXCEPT ![t] = None]
    /\ based' = [based EXCEPT ![t] = <<>>]
    /\ agent' = [agent EXCEPT ![t] = "running"]
    /\ tokens' = [tokens EXCEPT ![t] = 0]
    /\ voice' = [voice EXCEPT ![t] = "off"]
    /\ sentences' = [sentences EXCEPT ![t] = 0]

Speaks(t, where) == voice' = [voice EXCEPT ![t] = where]

(* A pipeline keeps the handle it opens for the transcription to its end.  *)
HoldsStore(t) == stage[t] \in {"heard", "create", "answer"}

(* Speech is not configured, the store is held by another pipeline or the  *)
(* provider fails, which is reported; or nothing was said, or the client   *)
(* interrupts, which is not.                                               *)
Transcribe(t) ==
    /\ stage[t] = "listen"
    /\ \/ /\ StoreIsExclusive => \A u \in Utterances : ~HoldsStore(u)
          /\ Enters(t, "heard")
          /\ UNCHANGED <<named, based, agent, tokens, voice, sentences, queued>>
       \/ Over(t) /\ (Send \/ UNCHANGED queued)
    /\ UNCHANGED <<saved, stale, connection, writer, tooLate>>

PlayUnchecked(t) ==
    /\ voice[t] = "next"
    /\ IF sentences[t] = 0
       THEN Speaks(t, "silent") /\ UNCHANGED sentences
       ELSE /\ sentences' = [sentences EXCEPT ![t] = @ - 1]
            /\ Speaks(t, "audio") \/ UNCHANGED voice
    /\ UNCHANGED <<saved, stale, connection, stage, named, based, agent, tokens, queue, tooLate>>

(* The transcript is sent whether or not the utterance was cancelled. *)
SendTranscript(t) ==
    /\ stage[t] = "heard"
    /\ Play(t)
    /\ IF t \in cancelled
       THEN Over(t)
       ELSE /\ Enters(t, "create")
            /\ UNCHANGED <<named, based, agent, tokens, voice, sentences>>
    /\ UNCHANGED <<saved, stale, connection, writer, tooLate>>

(* The agent is given the conversation of the session it can load and      *)
(* starts its turn.                                                        *)
CreateVoiceAgent(t) ==
    /\ stage[t] = "create"
    /\ \/ /\ \E talk \in {<<>>, IF named[t] = None THEN <<>> ELSE Loaded(named[t])} :
                based' = [based EXCEPT ![t] = talk]
          /\ Enters(t, "answer")
          /\ Speaks(t, "text")
          /\ UNCHANGED <<named, agent, tokens, sentences, queued>>
       \/ Over(t) /\ Send
    /\ UNCHANGED <<saved, stale, connection, writer, tooLate>>

AgentEnds(t) ==
    /\ stage[t] = "answer"
    /\ agent[t] = "running"
    /\ \E how \in {"ok", "failed"} : agent' = [agent EXCEPT ![t] = how]
    /\ UNCHANGED <<saved, stale, connection, stage, named, based, tokens, voice, sentences,
                   queue, tooLate>>

AgentSays(t) ==
    /\ stage[t] = "answer"
    /\ agent[t] = "running"
    /\ tokens[t] < TokenLimit
    /\ tokens' = [tokens EXCEPT ![t] = @ + 1]
    /\ UNCHANGED <<saved, stale, connection, stage, named, based, agent, voice, sentences,
                   queue, tooLate>>

(* A token comes; it is sent unless the utterance is cancelled by then. *)
TakeToken(t) ==
    /\ voice[t] = "text"
    /\ tokens[t] > 0
    /\ tokens' = [tokens EXCEPT ![t] = @ - 1]
    /\ Speaks(t, IF t \in cancelled THEN "synthesis" ELSE "token")
    /\ UNCHANGED <<saved, stale, connection, stage, named, based, agent, sentences, queue,
                   tooLate>>

SendText(t) ==
    /\ voice[t] = "token"
    /\ Play(t)
    /\ Speaks(t, "text")
    /\ \/ UNCHANGED sentences
       \/ /\ sentences[t] < MaxSentences
          /\ sentences' = [sentences EXCEPT ![t] = @ + 1]
    /\ UNCHANGED <<saved, stale, connection, stage, named, based, agent, tokens,
                   writer, tooLate>>

NoMoreText(t) ==
    /\ voice[t] = "text"
    /\ agent[t] # "running" /\ tokens[t] = 0
    /\ Speaks(t, "synthesis")
    /\ UNCHANGED <<saved, stale, connection, stage, named, based, agent, tokens, sentences, queue,
                   tooLate>>

(* Nothing is spoken when the client has interrupted, nothing was said, or *)
(* no provider of speech can be made: its keys are in the store, which is  *)
(* opened again while the pipeline holds it.                               *)
Synthesis(t) ==
    /\ voice[t] = "synthesis"
    /\ \/ /\ t \notin cancelled /\ sentences[t] > 0
          /\ ~(StoreIsExclusive /\ HoldsStore(t))
          /\ Speaks(t, "ready")
       \/ Speaks(t, "silent")
    /\ UNCHANGED <<saved, stale, connection, stage, named, based, agent, tokens, sentences, queue,
                   tooLate>>

Speaking(t) ==
    /\ voice[t] = "ready"
    /\ Play(t)
    /\ Speaks(t, "next")
    /\ UNCHANGED <<saved, stale, connection, stage, named, based, agent, tokens, sentences,
                   writer, tooLate>>

NextSentence(t) ==
    /\ voice[t] = "next"
    /\ IF t \in cancelled \/ sentences[t] = 0
       THEN Speaks(t, "silent") /\ UNCHANGED sentences
       ELSE /\ sentences' = [sentences EXCEPT ![t] = @ - 1]
            /\ Speaks(t, "audio") \/ UNCHANGED voice
    /\ UNCHANGED <<saved, stale, connection, stage, named, based, agent, tokens, queue, tooLate>>

PlaySentence(t) ==
    /\ voice[t] = "audio"
    /\ Play(t)
    /\ Speaks(t, "next")
    /\ UNCHANGED <<saved, stale, connection, stage, named, based, agent, tokens, sentences,
                   writer, tooLate>>

(* The turn is over when the agent and the speech are: its conversation is *)
(* saved under the agent's own id, and `done` is sent, cancelled or not;   *)
(* the error of a cancelled turn is not reported.                          *)
FinishVoiceTurn(t) ==
    /\ stage[t] = "answer"
    /\ agent[t] # "running"
    /\ voice[t] = "silent"
    /\ Over(t)
    /\ IF agent[t] = "ok"
       THEN SaveOrNot(t, Append(based[t], t)) /\ Send
       ELSE /\ UNCHANGED <<saved, stale>>
            /\ IF t \in cancelled THEN UNCHANGED queued ELSE Send
    /\ UNCHANGED <<connection, writer, tooLate>>

-----------------------------------------------------------------------------

Reader ==
    \/ Authenticate \/ Answer \/ Configure \/ BufferAudio \/ Interrupt \/ EndUtterance
    \/ LeaveLoop \/ Close

RunVoiceTurn(t) ==
    \/ Transcribe(t) \/ SendTranscript(t) \/ CreateVoiceAgent(t) \/ FinishVoiceTurn(t)
    \/ AgentSays(t) \/ AgentEnds(t)

TtsTask(t) ==
    \/ TakeToken(t) \/ SendText(t) \/ NoMoreText(t)
    \/ Synthesis(t) \/ Speaking(t) \/ NextSentence(t) \/ PlaySentence(t)

VoiceNext ==
    \/ Reader
    \/ ClientGone
    \/ Writer
    \/ \E t \in Utterances : RunVoiceTurn(t) \/ TtsTask(t)

(* Every task goes on when it can, the providers answer, and a turn of an  *)
(* agent ends.                                                             *)
VoiceFairness ==
    /\ WF_voiceVars(LeaveLoop \/ Close)
    /\ WF_voiceVars(Writer)
    /\ \A t \in Utterances :
          WF_voiceVars(RunVoiceTurn(t)) /\ WF_voiceVars(TtsTask(t)) /\ WF_voiceVars(AgentEnds(t))

VoiceSpec == VoiceInit /\ [][VoiceNext]_voiceVars /\ VoiceFairness

-----------------------------------------------------------------------------
(* Properties *)

(* Barge-in: once a client has spoken or interrupted, of the answer before *)
(* are sent no more texts and sounds than were queued, and one that its    *)
(* pipeline was about to queue.                                            *)
StopsAfterCancel == \A t \in Watched : tooLate[t] <= QueueLimit + 1

(* When the client has gone and the reader has seen it, the connection is  *)
(* taken down: every pipeline ends, and then the writer.                   *)
ConnectionEnds == phase = "closing" ~> phase = "closed"

(* The reader always goes on to the next frame.                            *)
ReaderGoesOn == phase # "stuck"
=============================================================================
