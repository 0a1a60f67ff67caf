---------------------------- MODULE VoiceProofs -----------------------------
(***************************************************************************)
(* Theorems about VoiceSession, for any number of turn tasks, watchers and *)
(* frames.                                                                 *)
(***************************************************************************)
EXTENDS VoiceSession, SequenceTheorems, FiniteSetTheorems, TLAPS

LEMMA WithoutType ==
    ASSUME NEW S, NEW s \in Seq(S), NEW x
    PROVE  Without(s, x) \in Seq(S)
<1>1. CASE \E i \in 1 .. Len(s) : s[i] = x
  <2> DEFINE k == CHOOSE i \in 1 .. Len(s) : s[i] = x
  <2>1. k \in 1 .. Len(s)
    BY <1>1
  <2>2. Without(s, x) = SubSeq(s, 1, k - 1) \o SubSeq(s, k + 1, Len(s))
    BY <1>1 DEF Without, RemoveAt
  <2> HIDE DEF k
  <2>3. SubSeq(s, 1, k - 1) \in Seq(S) /\ SubSeq(s, k + 1, Len(s)) \in Seq(S)
    BY <2>1, SubSeqProperties
  <2> QED
    BY <2>2, <2>3
<1>2. CASE ~ \E i \in 1 .. Len(s) : s[i] = x
  BY <1>2 DEF Without
<1> QED
  BY <1>1, <1>2

-----------------------------------------------------------------------------
(* Type correctness, in four parts.                                        *)

ControlType ==
    /\ conn \in {"open", "gone", "broken", "closed"}
    /\ reader \in Serving \cup Leaving
    /\ state \in States
    /\ awaited \in Turns \cup {None}
    /\ turnTask \in Turns \cup {None}

TaskType ==
    /\ turn \in [Turns -> TurnPositions]
    /\ text \in [Turns -> BOOLEAN]
    /\ ready \in Seq(Turns)
    /\ watch \in [Watchers -> WatcherPositions]
    /\ quiet \in BOOLEAN
    /\ silenceTask \in Watchers \cup {None}

\* The chunk that waits for the listening frame has a frame of its own.
SpeechType ==
    /\ frames \in 0 .. MaxFrames
    /\ chunks \in 0 .. frames
    /\ reader = "send_listening" => chunks < frames
    /\ audio \subseteq 1 .. chunks
    /\ heard \in [Turns -> SUBSET (1 .. chunks)]
    /\ history \in Seq(EntryRecord)

WireType ==
    /\ sends \in Seq(Turns \cup {Reader})
    /\ onwire \in BOOLEAN
    /\ shown \in States \cup {"none"}

TypeInv == ControlType /\ TaskType /\ SpeechType /\ WireType

USE DEF Serving, Leaving, States, Busy, Pipeline, Ended, TurnPositions,
        WatcherEnding, WatcherAlive, WatcherPositions, wire, speech, tasks,
        client, hush, Sending

LEMMA TypeParts == TypeInv => TypeOK
BY DEF TypeInv, TypeOK, ControlType, TaskType, SpeechType, WireType

\* Giving the send lock up, or taking the first task that is ready, keeps the
\* queues queues of tasks.
LEMMA QueueTypes ==
    ASSUME WireType, sends # <<>>, NEW p \in Turns \cup {Reader}
    PROVE  /\ Tail(sends) \in Seq(Turns \cup {Reader})
           /\ Append(Tail(sends), p) \in Seq(Turns \cup {Reader})
BY HeadTailProperties DEF WireType

LEMMA ReadyTypes ==
    ASSUME TaskType, ready # <<>>
    PROVE  Tail(ready) \in Seq(Turns)
BY HeadTailProperties DEF TaskType

LEMMA TypeInit == Init => TypeInv
<1> SUFFICES ASSUME Init PROVE TypeInv
  OBVIOUS
<1>1. ControlType
  BY DEF Init, ControlType
<1>2. TaskType
  BY DEF Init, TaskType
<1>3. SpeechType
  BY VoiceAssumption DEF Init, SpeechType
<1>4. WireType
  <2>1. sends \in Seq(Turns \cup {Reader})
    BY DEF Init
  <2> QED
    BY <2>1 DEF Init, WireType
<1> QED
  BY <1>1, <1>2, <1>3, <1>4 DEF TypeInv

LEMMA RefuseTurnType ==
    ASSUME TypeInv, NEW t \in Turns, RefuseTurn(t) PROVE TypeInv'
BY VoiceAssumption, ReadyTypes DEF RefuseTurn, TypeInv, ControlType, TaskType,
   SpeechType, WireType, EntryRecord, At, MayBegin

LEMMA BeginTurnType ==
    ASSUME TypeInv, NEW t \in Turns, BeginTurn(t) PROVE TypeInv'
<1>1. ControlType'
  BY DEF BeginTurn, TypeInv, ControlType, MayBegin
<1>2. TaskType'
  BY VoiceAssumption, ReadyTypes DEF BeginTurn, TypeInv, TaskType,
     ControlType, At, CancelWatcher, CancelledWatch, TakeWatcher
<1>3. SpeechType'
  BY VoiceAssumption DEF BeginTurn, TypeInv, SpeechType, ControlType,
     EntryRecord
<1>4. WireType'
  <2>1. UNCHANGED <<onwire, shown>> /\ sends' \in {sends, Append(sends, t)}
    BY DEF BeginTurn, Send
  <2> QED
    BY <2>1, VoiceAssumption DEF TypeInv, WireType
<1> QED
  BY <1>1, <1>2, <1>3, <1>4 DEF TypeInv

LEMMA WatcherJoinedType ==
    ASSUME TypeInv, NEW t \in Turns, WatcherJoined(t) PROVE TypeInv'
BY VoiceAssumption DEF WatcherJoined, TypeInv, ControlType, TaskType,
   SpeechType, WireType, EntryRecord, At, Send

LEMMA SentProcessingType ==
    ASSUME TypeInv, NEW t \in Turns, SentProcessing(t) PROVE TypeInv'
<1>1. ControlType'
  BY DEF SentProcessing, TypeInv, ControlType
<1>2. TaskType'
  BY DEF SentProcessing, TypeInv, TaskType, At
<1>3. history' \in Seq(EntryRecord)
  <2>1. Entry("user", {}) \in EntryRecord
    BY DEF Entry, EntryRecord
  <2> QED
    BY <2>1 DEF SentProcessing, TypeInv, SpeechType, Say
<1>4. audio' \subseteq 1 .. chunks /\ heard' \in [Turns -> SUBSET (1 .. chunks)]
  BY DEF SentProcessing, TypeInv, SpeechType, TakeAudio
<1>5. SpeechType'
  BY <1>3, <1>4 DEF SentProcessing, TypeInv, SpeechType, Sent, At
<1>6. WireType'
  BY QueueTypes DEF SentProcessing, TypeInv, WireType, Sent, Release, SendNext
<1> QED
  BY <1>1, <1>2, <1>5, <1>6 DEF TypeInv

LEMMA TranscribedType ==
    ASSUME TypeInv, NEW t \in Turns, Transcribed(t) PROVE TypeInv'
BY VoiceAssumption DEF Transcribed, TypeInv, ControlType, TaskType,
   SpeechType, WireType, EntryRecord, At, Entry, Say, Send

LEMMA SentUserType ==
    ASSUME TypeInv, NEW t \in Turns, SentUser(t) PROVE TypeInv'
<1>1. ControlType'
  BY DEF SentUser, TypeInv, ControlType, Sent
<1>2. TaskType'
  BY VoiceAssumption DEF SentUser, TypeInv, TaskType, ControlType, At, Sent
<1>3. SpeechType'
  BY VoiceAssumption DEF SentUser, TypeInv, SpeechType, ControlType,
     EntryRecord, Sent
<1>4. WireType'
  BY QueueTypes DEF SentUser, TypeInv, WireType, ControlType, Release, Sent
<1> QED
  BY <1>1, <1>2, <1>3, <1>4 DEF TypeInv

LEMMA RepliedType ==
    ASSUME TypeInv, NEW t \in Turns, Replied(t) PROVE TypeInv'
BY VoiceAssumption DEF Replied, TypeInv, ControlType, TaskType, SpeechType,
   WireType, EntryRecord, At, Entry, Say, Send

LEMMA SentReplyType ==
    ASSUME TypeInv, NEW t \in Turns, SentReply(t) PROVE TypeInv'
<1>1. ControlType'
  BY DEF SentReply, TypeInv, ControlType, Sent
<1>2. TaskType'
  BY VoiceAssumption DEF SentReply, TypeInv, TaskType, ControlType, At, Sent
<1>3. SpeechType'
  BY VoiceAssumption DEF SentReply, TypeInv, SpeechType, ControlType,
     EntryRecord, Sent
<1>4. WireType'
  BY QueueTypes DEF SentReply, TypeInv, WireType, ControlType, SendNext, Sent
<1> QED
  BY <1>1, <1>2, <1>3, <1>4 DEF TypeInv

LEMMA SentSpeakingType ==
    ASSUME TypeInv, NEW t \in Turns, SentSpeaking(t) PROVE TypeInv'
<1>1. ControlType'
  BY DEF SentSpeaking, TypeInv, ControlType, Sent
<1>2. TaskType'
  BY VoiceAssumption DEF SentSpeaking, TypeInv, TaskType, ControlType, At,
     Sent
<1>3. SpeechType'
  BY VoiceAssumption DEF SentSpeaking, TypeInv, SpeechType, ControlType,
     EntryRecord, Sent
<1>4. WireType'
  BY QueueTypes DEF SentSpeaking, TypeInv, WireType, ControlType, Release,
     Sent
<1> QED
  BY <1>1, <1>2, <1>3, <1>4 DEF TypeInv

LEMMA SynthesizedType ==
    ASSUME TypeInv, NEW t \in Turns, Synthesized(t) PROVE TypeInv'
BY VoiceAssumption DEF Synthesized, TypeInv, ControlType, TaskType,
   SpeechType, WireType, EntryRecord, At, Send

LEMMA SentAudioType ==
    ASSUME TypeInv, NEW t \in Turns, SentAudio(t) PROVE TypeInv'
<1>1. ControlType'
  BY DEF SentAudio, TypeInv, ControlType, Sent
<1>2. TaskType'
  BY VoiceAssumption DEF SentAudio, TypeInv, TaskType, ControlType, At, Sent
<1>3. SpeechType'
  BY VoiceAssumption DEF SentAudio, TypeInv, SpeechType, ControlType,
     EntryRecord, Sent
<1>4. WireType'
  BY QueueTypes DEF SentAudio, TypeInv, WireType, ControlType, SendNext, Sent
<1> QED
  BY <1>1, <1>2, <1>3, <1>4 DEF TypeInv

LEMMA SentIdleType ==
    ASSUME TypeInv, NEW t \in Turns, SentIdle(t) PROVE TypeInv'
<1>1. ControlType'
  BY DEF SentIdle, TypeInv, ControlType, Sent
<1>2. TaskType'
  BY VoiceAssumption DEF SentIdle, TypeInv, TaskType, ControlType, At, Sent
<1>3. SpeechType'
  BY VoiceAssumption DEF SentIdle, TypeInv, SpeechType, ControlType,
     EntryRecord, Sent
<1>4. WireType'
  BY QueueTypes DEF SentIdle, TypeInv, WireType, ControlType, Release, Sent
<1> QED
  BY <1>1, <1>2, <1>3, <1>4 DEF TypeInv

LEMMA InterruptedType ==
    ASSUME TypeInv, NEW t \in Turns, Interrupted(t) PROVE TypeInv'
BY VoiceAssumption DEF Interrupted, TypeInv, ControlType, TaskType,
   SpeechType, WireType, EntryRecord, At, Send

LEMMA TurnSendFailsType ==
    ASSUME TypeInv, NEW t \in Turns, TurnSendFails(t) PROVE TypeInv'
<1>1. ControlType'
  BY DEF TurnSendFails, TypeInv, ControlType, Raised
<1>2. TaskType'
  BY VoiceAssumption DEF TurnSendFails, TypeInv, TaskType, ControlType, Raised
<1>3. SpeechType'
  BY VoiceAssumption DEF TurnSendFails, TypeInv, SpeechType, ControlType,
     EntryRecord, Raised
<1>4. WireType'
  BY QueueTypes DEF TurnSendFails, TypeInv, WireType, ControlType, Raised
<1> QED
  BY <1>1, <1>2, <1>3, <1>4 DEF TypeInv

LEMMA WatcherRunsType ==
    ASSUME TypeInv, NEW w \in Watchers, WatcherRuns(w) PROVE TypeInv'
BY VoiceAssumption DEF WatcherRuns, TypeInv, ControlType, TaskType,
   SpeechType, WireType, EntryRecord, WatchAt

LEMMA WatcherEndsType ==
    ASSUME TypeInv, NEW w \in Watchers, WatcherEnds(w) PROVE TypeInv'
BY VoiceAssumption DEF WatcherEnds, TypeInv, ControlType, TaskType,
   SpeechType, WireType, EntryRecord, WatchAt

LEMMA WatcherAbortsType ==
    ASSUME TypeInv, NEW w \in Watchers, WatcherAborts(w) PROVE TypeInv'
BY VoiceAssumption DEF WatcherAborts, TypeInv, ControlType, TaskType,
   SpeechType, WireType, EntryRecord, WatchAt

LEMMA WatcherFiresType ==
    ASSUME TypeInv, NEW w \in Watchers, WatcherFires(w) PROVE TypeInv'
BY VoiceAssumption DEF WatcherFires, TypeInv, ControlType, TaskType,
   SpeechType, WireType, EntryRecord, FreeTurn, FreeTurns, StartTurn, WatchAt

LEMMA ReceiveInvalidType ==
    ASSUME TypeInv, ReceiveInvalid PROVE TypeInv'
BY VoiceAssumption DEF ReceiveInvalid, TypeInv, ControlType, TaskType,
   SpeechType, WireType, EntryRecord, Receive, Send

LEMMA ReceiveAudioBusyType ==
    ASSUME TypeInv, ReceiveAudioBusy PROVE TypeInv'
BY VoiceAssumption DEF ReceiveAudioBusy, TypeInv, ControlType, TaskType,
   SpeechType, WireType, EntryRecord, Receive, Send

\* Buffering a chunk that has a frame of its own.
LEMMA BufferChunkType ==
    ASSUME SpeechType, NEW decodes \in BOOLEAN, BufferChunk(decodes),
           NEW n \in Nat, chunks < n, n <= MaxFrames
    PROVE  /\ chunks' \in 0 .. n
           /\ audio' \subseteq 1 .. chunks'
           /\ heard \in [Turns -> SUBSET (1 .. chunks')]
<1>1. chunks' \in {chunks, chunks + 1} /\ chunks \in Nat
  BY DEF SpeechType, BufferChunk
<1>2. 1 .. chunks \subseteq 1 .. chunks'
  BY <1>1
<1>3. audio' \subseteq 1 .. chunks'
  <2>1. audio \subseteq 1 .. chunks'
    BY <1>2 DEF SpeechType
  <2>2. CASE decodes
    <3>1. audio' = audio \cup {chunks + 1} /\ chunks' = chunks + 1
      BY <2>2 DEF BufferChunk
    <3>2. chunks + 1 \in 1 .. chunks'
      BY <1>1, <3>1
    <3> QED
      BY <2>1, <3>1, <3>2
  <2>3. CASE ~decodes
    BY <2>1, <2>3 DEF BufferChunk
  <2> QED
    BY <2>2, <2>3
<1> QED
  BY <1>1, <1>2, <1>3 DEF SpeechType

LEMMA ReceiveAudioType ==
    ASSUME TypeInv, ReceiveAudio PROVE TypeInv'
<1>1. ControlType'
  BY DEF ReceiveAudio, TypeInv, ControlType, Receive
<1>2. TaskType'
  BY DEF ReceiveAudio, TypeInv, TaskType, FreeWatcher, FreeWatchers
<1>3. SpeechType'
  <2>1. frames' \in Nat /\ frames' <= MaxFrames /\ chunks < frames'
    BY VoiceAssumption DEF ReceiveAudio, Receive, TypeInv, SpeechType
  <2>2. UNCHANGED <<heard, history>>
    BY DEF ReceiveAudio
  <2>3. CASE state = "listening"
    <3>1. PICK decodes \in BOOLEAN : BufferChunk(decodes)
      BY <2>3 DEF ReceiveAudio
    <3>2. reader' # "send_listening"
      BY <2>3 DEF ReceiveAudio, Receive
    <3>3. /\ chunks' \in 0 .. frames'
          /\ audio' \subseteq 1 .. chunks'
          /\ heard \in [Turns -> SUBSET (1 .. chunks')]
      BY <2>1, <3>1, BufferChunkType DEF TypeInv
    <3> QED
      BY <2>1, <2>2, <3>2, <3>3 DEF TypeInv, SpeechType
  <2>4. CASE state # "listening"
    <3>1. UNCHANGED <<audio, chunks>>
      BY <2>4 DEF ReceiveAudio
    <3>2. frames' \in 0 .. MaxFrames /\ chunks \in 0 .. frames'
      BY <2>1 DEF TypeInv, SpeechType
    <3> QED
      BY <2>1, <2>2, <3>1, <3>2 DEF TypeInv, SpeechType
  <2> QED
    BY <2>3, <2>4
<1>4. WireType'
  BY DEF ReceiveAudio, TypeInv, WireType, Send
<1> QED
  BY <1>1, <1>2, <1>3, <1>4 DEF TypeInv

LEMMA ReceiveTurnType ==
    ASSUME TypeInv, ReceiveTurn PROVE TypeInv'
BY VoiceAssumption DEF ReceiveTurn, TypeInv, ControlType, TaskType,
   SpeechType, WireType, EntryRecord, FreeTurn, FreeTurns, Receive, StartTurn

\* Cancelling a task that has not ended.
LEMMA CancelTurnType ==
    ASSUME TypeInv, LiveTurn(turnTask), CancelTurn(turnTask)
    PROVE  /\ WireType' /\ ready' \in Seq(Turns)
           /\ turn' \in [Turns -> TurnPositions]
<1>1. sends' \in Seq(Turns \cup {Reader}) /\ ready' \in Seq(Turns)
  BY WithoutType DEF CancelTurn, TypeInv, WireType, TaskType
<1>2. onwire' \in BOOLEAN
  BY Zenon DEF CancelTurn
<1>3. shown' \in States \cup {"none"}
  BY DEF CancelTurn, TypeInv, WireType
<1>4. CancelledTurn(turnTask) \in TurnPositions
  BY DEF CancelledTurn, LiveTurn, TypeInv, ControlType, TaskType
<1>5. turn' \in [Turns -> TurnPositions]
  BY <1>4 DEF CancelTurn, TypeInv, TaskType
<1> QED
  BY <1>1, <1>2, <1>3, <1>5 DEF WireType

LEMMA ReceiveCancelType ==
    ASSUME TypeInv, ReceiveCancel PROVE TypeInv'
<1>1. ControlType'
  BY DEF ReceiveCancel, Receive, TypeInv, ControlType
<1>2. TaskType'
  BY CancelTurnType DEF ReceiveCancel, TypeInv, TaskType
<1>3. SpeechType'
  BY VoiceAssumption DEF ReceiveCancel, Receive, TypeInv, SpeechType
<1>4. WireType'
  BY CancelTurnType DEF ReceiveCancel, TypeInv, WireType, Send
<1> QED
  BY <1>1, <1>2, <1>3, <1>4 DEF TypeInv

LEMMA ReceiveFailsType ==
    ASSUME TypeInv, ReceiveFails PROVE TypeInv'
BY VoiceAssumption DEF ReceiveFails, TypeInv, ControlType, TaskType,
   SpeechType, WireType, EntryRecord, Goto

LEMMA ReaderSentType ==
    ASSUME TypeInv, ReaderSent PROVE TypeInv'
BY VoiceAssumption, QueueTypes DEF ReaderSent, TypeInv, ControlType, TaskType,
   SpeechType, WireType, EntryRecord, Goto, Release, Sent

LEMMA SentListeningType ==
    ASSUME TypeInv, SentListening PROVE TypeInv'
<1>1. ControlType'
  BY DEF SentListening, TypeInv, ControlType, Goto
<1>2. TaskType'
  BY DEF SentListening, TypeInv, TaskType
<1>3. SpeechType'
  <2>1. PICK decodes \in BOOLEAN : BufferChunk(decodes)
    BY DEF SentListening
  <2>2. frames \in Nat /\ frames <= MaxFrames /\ chunks < frames
    BY VoiceAssumption DEF SentListening, Goto, TypeInv, SpeechType
  <2>3. UNCHANGED <<frames, heard, history>> /\ reader' # "send_listening"
    BY DEF SentListening, Goto
  <2> QED
    BY <2>1, <2>2, <2>3, BufferChunkType, VoiceAssumption
       DEF TypeInv, SpeechType
<1>4. WireType'
  BY QueueTypes DEF SentListening, TypeInv, WireType, Sent, Release
<1> QED
  BY <1>1, <1>2, <1>3, <1>4 DEF TypeInv

LEMMA TurnAwaitedType ==
    ASSUME TypeInv, TurnAwaited PROVE TypeInv'
BY VoiceAssumption DEF TurnAwaited, TypeInv, ControlType, TaskType,
   SpeechType, WireType, EntryRecord, Summarize

LEMMA CancelSentIdleType ==
    ASSUME TypeInv, CancelSentIdle PROVE TypeInv'
BY VoiceAssumption, QueueTypes DEF CancelSentIdle, TypeInv, ControlType,
   TaskType, SpeechType, WireType, EntryRecord, Release, Sent, Summarize

LEMMA EvaluatedType ==
    ASSUME TypeInv, Evaluated PROVE TypeInv'
BY VoiceAssumption DEF Evaluated, TypeInv, ControlType, TaskType, SpeechType,
   WireType, EntryRecord, Goto, Send

LEMMA SentSummaryType ==
    ASSUME TypeInv, SentSummary PROVE TypeInv'
BY VoiceAssumption, QueueTypes DEF SentSummary, TypeInv, ControlType,
   TaskType, SpeechType, WireType, EntryRecord, Goto, Release, Sent

LEMMA ReaderSendFailsType ==
    ASSUME TypeInv, ReaderSendFails PROVE TypeInv'
BY VoiceAssumption, QueueTypes DEF ReaderSendFails, TypeInv, ControlType,
   TaskType, SpeechType, WireType, EntryRecord, Raised

LEMMA CloseType ==
    ASSUME TypeInv, Close PROVE TypeInv'
BY VoiceAssumption DEF Close, TypeInv, ControlType, TaskType, SpeechType,
   WireType, EntryRecord, Goto

LEMMA UnregisterType ==
    ASSUME TypeInv, Unregister PROVE TypeInv'
<1>1. ControlType'
  BY DEF Unregister, Goto, TypeInv, ControlType
<1>2. TaskType'
  <2>1. watch' \in [Watchers -> WatcherPositions]
    BY DEF Unregister, TypeInv, TaskType, CancelWatcher, CancelledWatch
  <2> QED
    BY <2>1, CancelTurnType DEF Unregister, TypeInv, TaskType
<1>3. SpeechType'
  BY DEF Unregister, Goto, TypeInv, SpeechType
<1>4. WireType'
  BY CancelTurnType DEF Unregister, TypeInv, WireType
<1> QED
  BY <1>1, <1>2, <1>3, <1>4 DEF TypeInv

LEMMA UnregisteredType ==
    ASSUME TypeInv, Unregistered PROVE TypeInv'
BY VoiceAssumption DEF Unregistered, TypeInv, ControlType, TaskType,
   SpeechType, WireType, EntryRecord, Goto, LiveTurn

LEMMA ClientLeavesType ==
    ASSUME TypeInv, ClientLeaves PROVE TypeInv'
BY VoiceAssumption DEF ClientLeaves, TypeInv, ControlType, TaskType,
   SpeechType, WireType, EntryRecord

LEMMA TransmitType ==
    ASSUME TypeInv, Transmit PROVE TypeInv'
<1>1. \A p : Announces(p) \in States \cup {"none"}
  BY DEF Announces
<1>2. shown' \in States \cup {"none"}
  BY <1>1 DEF Transmit, TypeInv, WireType
<1>3. WireType'
  BY <1>2 DEF Transmit, TypeInv, WireType
<1> QED
  BY <1>3 DEF Transmit, TypeInv, ControlType, TaskType, SpeechType

LEMMA FallQuietType ==
    ASSUME TypeInv, FallQuiet PROVE TypeInv'
BY VoiceAssumption DEF FallQuiet, TypeInv, ControlType, TaskType, SpeechType,
   WireType, EntryRecord

LEMMA TypeStep ==
    ASSUME TypeInv, [Next]_vars PROVE TypeInv'
<1>1. CASE UNCHANGED vars
  BY <1>1 DEF vars, TypeInv, ControlType, TaskType, SpeechType, WireType
<1>2. CASE Frame
  BY <1>2, ReceiveInvalidType, ReceiveAudioBusyType, ReceiveAudioType,
     ReceiveTurnType, ReceiveCancelType DEF Frame
<1>3. CASE ReaderStep
  BY <1>3, ReceiveFailsType, ReaderSentType, SentListeningType,
     TurnAwaitedType, CancelSentIdleType, EvaluatedType, SentSummaryType,
     ReaderSendFailsType, CloseType, UnregisterType, UnregisteredType
  DEF ReaderStep
<1>4. ASSUME NEW t \in Turns, TurnStep(t) PROVE TypeInv'
  BY <1>4, RefuseTurnType, BeginTurnType, WatcherJoinedType,
     SentProcessingType, TranscribedType, SentUserType, RepliedType,
     SentReplyType, SentSpeakingType, SynthesizedType, SentAudioType,
     SentIdleType, InterruptedType, TurnSendFailsType
  DEF TurnStep
<1>5. ASSUME NEW w \in Watchers, WatcherStep(w) PROVE TypeInv'
  BY <1>5, WatcherRunsType, WatcherEndsType, WatcherAbortsType,
     WatcherFiresType
  DEF WatcherStep
<1> QED
  BY <1>1, <1>2, <1>3, <1>4, <1>5, ClientLeavesType, TransmitType,
     FallQuietType
  DEF Next

\* Every variable keeps its type, for any number of tasks and frames.
THEOREM TypeCorrect == Spec => []TypeOK
<1>1. Spec => []TypeInv
  BY TypeInit, TypeStep, PTL DEF Spec
<1> QED
  BY <1>1, TypeParts, PTL

-----------------------------------------------------------------------------
(* One turn at a time.                                                     *)

Stopping == {"interrupted", "send_cancelled"}
Active(t) == turn[t] \in Pipeline \cup Stopping
Live(w) == watch[w] \in {"new", "sleep"}

\* The handler after it has left the session idle.
Finishing ==
    {"evaluate", "send_summary", "closing", "leaving", "joining", "left"}

OneActive == \A t, u \in Turns : Active(t) /\ Active(u) => t = u

\* A cancel that aborts nothing leaves the session idle while its turn runs,
\* and then nothing else can start.
ActiveIsBusy ==
    (\E t \in Turns : Active(t)) =>
        \/ state \in Busy
        \/ ready = <<>> /\ state = "idle" /\ reader \in Finishing

BusyIsRunning ==
    reader \in Serving /\ conn = "open" /\ state \in Busy =>
        \E t \in Turns : turn[t] \in Pipeline

\* A turn stops only when it is cancelled.
StoppingIsLeaving ==
    reader \in Serving \cup {"send_idle"} =>
        \A t \in Turns : turn[t] \notin Stopping

\* While a cancel says idle, one last turn may be started by silence.
LastTurn ==
    reader = "send_idle" /\ ready # <<>> =>
        /\ Len(ready) = 1
        /\ \A t \in Turns : ~Active(t)
        /\ \A w \in Watchers : ~Live(w)

\* The session knows the one watcher that may still fire.  A watcher is being
\* stopped for a turn that waits for it, or by unregister.
OneWatcher ==
    /\ \A w \in Watchers : Live(w) => w = silenceTask
    /\ (\E w \in Watchers : watch[w] \in WatcherEnding) =>
        /\ \A w \in Watchers : ~Live(w)
        /\ reader \in Serving => \E t \in Turns : turn[t] = "join"

\* The queue of created tasks; the last of them is the one the session knows.
ReadyQueue ==
    /\ \A i \in 1 .. Len(ready) : turn[ready[i]] = "new"
    /\ \A i, j \in 1 .. Len(ready) : ready[i] = ready[j] => i = j
    /\ reader \in Serving /\ ready # <<>> =>
        turnTask \in {None, ready[Len(ready)]}

TurnInv ==
    /\ OneActive /\ ActiveIsBusy /\ BusyIsRunning /\ StoppingIsLeaving
    /\ LastTurn /\ OneWatcher /\ ReadyQueue

USE DEF Stopping, Active, Live, Finishing

\* The handler goes on, or only the socket and the client do.
LEMMA OthersMove ==
    ASSUME TypeInv, TurnInv,
           UNCHANGED <<turn, ready, watch, state, silenceTask, turnTask>>,
           conn' = "open" => conn = "open",
           reader' \in Serving => reader \in Serving,
           reader' = "send_idle" => reader = "send_idle",
           reader \in Finishing => reader' \in Finishing
    PROVE  TurnInv'
<1>1. OneActive' /\ ActiveIsBusy'
  BY DEF TurnInv, OneActive, ActiveIsBusy
<1>2. BusyIsRunning' /\ StoppingIsLeaving' /\ LastTurn'
  BY DEF TurnInv, BusyIsRunning, StoppingIsLeaving, LastTurn
<1>3. OneWatcher' /\ ReadyQueue'
  BY DEF TurnInv, OneWatcher, ReadyQueue
<1> QED
  BY <1>1, <1>2, <1>3 DEF TurnInv

\* A running turn goes on.
LEMMA TurnAdvances ==
    ASSUME TypeInv, TurnInv, NEW t \in Turns, NEW p \in Pipeline \ {"join"},
           turn[t] \in Pipeline, turn' = [turn EXCEPT ![t] = p],
           turn[t] = "join" => NoWatcherEnding,
           UNCHANGED <<conn, reader, ready, watch, silenceTask, turnTask>>,
           state' = state \/ state' \in Busy
    PROVE  TurnInv'
<1>1. \A u \in Turns : turn'[u] = IF u = t THEN p ELSE turn[u]
  BY DEF TypeInv, TaskType
<1>2. \A u \in Turns : Active(u)' <=> Active(u)
  BY <1>1
<1>3. OneActive' /\ ActiveIsBusy'
  BY <1>2 DEF TurnInv, OneActive, ActiveIsBusy
<1>4. BusyIsRunning' /\ StoppingIsLeaving'
  BY <1>1 DEF TurnInv, BusyIsRunning, StoppingIsLeaving
<1>5. LastTurn'
  BY <1>2 DEF TurnInv, LastTurn
<1>6. OneWatcher'
  BY <1>1 DEF TurnInv, OneWatcher, NoWatcherEnding
<1>7. ReadyQueue'
  <2>1. \A i \in 1 .. Len(ready) : ready[i] \in Turns
    BY DEF TypeInv, TaskType
  <2> QED
    BY <1>1, <2>1 DEF TurnInv, ReadyQueue
<1> QED
  BY <1>3, <1>4, <1>5, <1>6, <1>7 DEF TurnInv

\* A turn that is no longer wanted starts to stop, or ends.
LEMMA TurnStops ==
    ASSUME TypeInv, TurnInv, NEW t \in Turns, NEW p \in Ended,
           turn[t] \in (Pipeline \cup Stopping) \ {"join"},
           turn' = [turn EXCEPT ![t] = p],
           UNCHANGED <<reader, ready, watch, silenceTask>>,
           conn' = "open" => conn = "open",
           turnTask' = None,
           state' = "idle" \/ (state' = state /\ conn # "open")
    PROVE  TurnInv'
<1>1. \A u \in Turns : turn'[u] = IF u = t THEN turn'[t] ELSE turn[u]
  BY DEF TypeInv, TaskType
<1>2. turn'[t] \in Ended
  BY DEF TypeInv, TaskType
<1>3. \A u \in Turns : ~Active(u)'
  BY <1>1, <1>2 DEF TurnInv, OneActive
<1>4. OneActive' /\ ActiveIsBusy' /\ LastTurn'
  BY <1>3 DEF TurnInv, OneActive, ActiveIsBusy, LastTurn
<1>5. BusyIsRunning'
  BY DEF BusyIsRunning
<1>6. StoppingIsLeaving'
  BY <1>3 DEF StoppingIsLeaving
<1>7. OneWatcher'
  <2>1. \A u \in Turns : turn[u] = "join" <=> turn'[u] = "join"
    BY <1>1, <1>2
  <2> QED
    BY <2>1 DEF TurnInv, OneWatcher
<1>8. ReadyQueue'
  <2>1. \A i \in 1 .. Len(ready) : ready[i] \in Turns /\ ready[i] # t
    BY DEF TypeInv, TaskType, TurnInv, ReadyQueue
  <2> QED
    BY <1>1, <2>1 DEF TurnInv, ReadyQueue
<1> QED
  BY <1>4, <1>5, <1>6, <1>7, <1>8 DEF TurnInv

LEMMA TurnInit == Init => TurnInv
<1> SUFFICES ASSUME Init PROVE TurnInv
  OBVIOUS
<1>1. \A t \in Turns : turn[t] = "done"
  BY DEF Init
<1>2. \A w \in Watchers : watch[w] = "done"
  BY DEF Init
<1>3. ready = <<>> /\ state = "idle" /\ reader = "hello"
  BY DEF Init
<1>4. OneActive /\ ActiveIsBusy /\ BusyIsRunning /\ StoppingIsLeaving
  BY <1>1, <1>3 DEF OneActive, ActiveIsBusy, BusyIsRunning, StoppingIsLeaving
<1>5. LastTurn /\ OneWatcher /\ ReadyQueue
  BY <1>2, <1>3 DEF LastTurn, OneWatcher, ReadyQueue
<1> QED
  BY <1>4, <1>5 DEF TurnInv

\* The turn that runs first is new, leaves the queue in order, and is no other
\* turn of it.
LEMMA NextReady ==
    ASSUME TypeInv, ReadyQueue, ready # <<>>, NEW p \in TurnPositions,
           turn' = [turn EXCEPT ![Head(ready)] = p],
           ready' = Tail(ready), UNCHANGED <<reader, turnTask>>
    PROVE  ReadyQueue' /\ turn[Head(ready)] = "new" /\ Head(ready) \in Turns
<1>1. /\ ready \in Seq(Turns)
      /\ Len(ready) \in Nat \ {0}
      /\ Head(ready) = ready[1]
      /\ Len(ready') = Len(ready) - 1
      /\ \A i \in 1 .. Len(ready') : ready'[i] = ready[i + 1]
  BY HeadTailProperties DEF TypeInv, TaskType
<1>2. \A i \in 1 .. Len(ready) : ready[i] \in Turns
  BY <1>1
<1>3. turn[Head(ready)] = "new" /\ Head(ready) \in Turns
  BY <1>1, <1>2 DEF ReadyQueue
<1>4. \A i \in 1 .. Len(ready') : i + 1 \in 1 .. Len(ready) /\ i + 1 # 1
  BY <1>1
<1>5. \A i \in 1 .. Len(ready') : turn'[ready'[i]] = "new"
  <2> SUFFICES ASSUME NEW i \in 1 .. Len(ready') PROVE turn'[ready'[i]] = "new"
    OBVIOUS
  <2>1. ready'[i] = ready[i + 1] /\ ready[i + 1] \in Turns
    BY <1>1, <1>2, <1>4
  <2>2. ready[i + 1] # Head(ready)
    BY <1>1, <1>4 DEF ReadyQueue
  <2>3. turn[ready[i + 1]] = "new"
    BY <1>4 DEF ReadyQueue
  <2> QED
    BY <2>1, <2>2, <2>3 DEF TypeInv, TaskType
<1>6. \A i, j \in 1 .. Len(ready') : ready'[i] = ready'[j] => i = j
  <2> SUFFICES ASSUME NEW i \in 1 .. Len(ready'), NEW j \in 1 .. Len(ready'),
                      ready'[i] = ready'[j]
               PROVE  i = j
    OBVIOUS
  <2>1. ready[i + 1] = ready[j + 1]
    BY <1>1
  <2>2. i + 1 = j + 1
    BY <2>1, <1>4 DEF ReadyQueue
  <2> QED
    BY <2>2
<1>7. ready' # <<>> => ready'[Len(ready')] = ready[Len(ready)]
  <2> SUFFICES ASSUME ready' # <<>>
               PROVE  ready'[Len(ready')] = ready[Len(ready)]
    OBVIOUS
  <2>1. Len(ready') \in 1 .. Len(ready')
    BY <1>1
  <2> QED
    BY <1>1, <2>1
<1> QED
  BY <1>3, <1>5, <1>6, <1>7 DEF ReadyQueue

\* A created task is a new turn at the end of the queue, and the one the
\* session knows.
LEMMA StartedTurn ==
    ASSUME TypeInv, ReadyQueue, NEW isText, StartTurn(isText)
    PROVE  /\ FreeTurn \in Turns
           /\ turn[FreeTurn] \in Ended
           /\ \A u \in Turns :
                turn'[u] = IF u = FreeTurn THEN "new" ELSE turn[u]
           /\ ready' # <<>>
           /\ ready = <<>> => Len(ready') = 1
           /\ ReadyQueue'
<1>1. FreeTurn \in FreeTurns
  BY DEF StartTurn, FreeTurn
<1>2. FreeTurn \in Turns /\ turn[FreeTurn] \in Ended
  BY <1>1 DEF FreeTurns
<1> DEFINE f == FreeTurn
<1>3. f \in Turns /\ turn[f] \in Ended
  BY <1>2
<1>4. /\ turn' = [turn EXCEPT ![f] = "new"]
      /\ ready' = Append(ready, f)
      /\ turnTask' = f
  BY DEF StartTurn
<1> HIDE DEF f
<1>5. \A u \in Turns : turn'[u] = IF u = f THEN "new" ELSE turn[u]
  BY <1>3, <1>4 DEF TypeInv, TaskType
<1>6. /\ Len(ready) \in Nat
      /\ Len(ready') = Len(ready) + 1
      /\ \A i \in 1 .. Len(ready) : ready'[i] = ready[i]
      /\ ready'[Len(ready')] = f
      /\ \A i \in 1 .. Len(ready) : ready[i] \in Turns
  BY <1>3, <1>4, AppendProperties DEF TypeInv, TaskType
<1>7. \A i \in 1 .. Len(ready) : ready[i] # f
  BY <1>3 DEF ReadyQueue
<1>8. \A i \in 1 .. Len(ready') : i \in 1 .. Len(ready) \/ i = Len(ready')
  BY <1>6
<1>9. \A i \in 1 .. Len(ready') : turn'[ready'[i]] = "new"
  BY <1>3, <1>5, <1>6, <1>8 DEF ReadyQueue
<1>10. \A i, j \in 1 .. Len(ready') : ready'[i] = ready'[j] => i = j
  BY <1>6, <1>7, <1>8 DEF ReadyQueue
<1>11. ReadyQueue'
  BY <1>4, <1>6, <1>9, <1>10 DEF ReadyQueue
<1>12. ready' # <<>> /\ (ready = <<>> => Len(ready') = 1)
  BY <1>3, <1>4, <1>6, AppendProperties DEF TypeInv, TaskType
<1> QED
  BY <1>3, <1>5, <1>11, <1>12 DEF f

\* The first and only occurrence of x is what Without removes.
LEMMA WithoutOnce ==
    ASSUME NEW S, NEW s \in Seq(S), NEW x,
           \A i, j \in 1 .. Len(s) : s[i] = s[j] => i = j
    PROVE  LET r == Without(s, x)
           IN  /\ \A i \in 1 .. Len(r) :
                    /\ r[i] # x
                    /\ \E k \in 1 .. Len(s) : r[i] = s[k]
               /\ \A i, j \in 1 .. Len(r) : r[i] = r[j] => i = j
               /\ s = <<>> => r = <<>>
<1>1. CASE \E i \in 1 .. Len(s) : s[i] = x
  <2> DEFINE k == CHOOSE i \in 1 .. Len(s) : s[i] = x
             r == Without(s, x)
             from(i) == IF i < k THEN i ELSE i + 1
             a == SubSeq(s, 1, k - 1)
             b == SubSeq(s, k + 1, Len(s))
  <2>1. k \in 1 .. Len(s) /\ s[k] = x
    BY <1>1
  <2>2. r = a \o b
    BY <1>1 DEF Without, RemoveAt
  <2> HIDE DEF k
  <2>3. /\ a \in Seq(S)
        /\ Len(a) = k - 1
        /\ \A i \in 1 .. k - 1 : a[i] = s[i]
    BY <2>1, SubSeqProperties
  <2>4. /\ b \in Seq(S)
        /\ Len(b) = Len(s) - k
        /\ \A i \in 1 .. Len(s) - k : b[i] = s[k + i]
    BY <2>1, SubSeqProperties
  <2> HIDE DEF a, b, r
  <2>5. /\ Len(r) = Len(a) + Len(b)
        /\ \A i \in 1 .. Len(a) + Len(b) :
             r[i] = IF i <= Len(a) THEN a[i] ELSE b[i - Len(a)]
    BY <2>2, <2>3, <2>4, ConcatProperties
  <2>6. Len(r) = Len(s) - 1
    BY <2>1, <2>3, <2>4, <2>5
  <2>7. \A i \in 1 .. Len(r) : from(i) \in 1 .. Len(s) /\ from(i) # k
    BY <2>1, <2>6
  <2>8. \A i \in 1 .. Len(r) : r[i] = s[from(i)]
    <3> SUFFICES ASSUME NEW i \in 1 .. Len(r) PROVE r[i] = s[from(i)]
      OBVIOUS
    <3>1. CASE i < k
      <4>1. r[i] = a[i] /\ i \in 1 .. k - 1
        BY <3>1, <2>1, <2>3, <2>5
      <4> QED
        BY <4>1, <3>1, <2>3
    <3>2. CASE ~(i < k)
      <4>1. r[i] = b[i - Len(a)] /\ i - Len(a) \in 1 .. Len(s) - k
        BY <3>2, <2>1, <2>3, <2>4, <2>5
      <4>2. b[i - Len(a)] = s[k + (i - Len(a))] /\ k + (i - Len(a)) = i + 1
        BY <4>1, <2>1, <2>3, <2>4
      <4> QED
        BY <4>1, <4>2, <3>2
    <3> QED
      BY <3>1, <3>2
  <2>9. \A i, j \in 1 .. Len(r) : from(i) = from(j) => i = j
    BY <2>1, <2>6
  <2> HIDE DEF from
  <2>10. \A i \in 1 .. Len(r) : r[i] # x /\ \E m \in 1 .. Len(s) : r[i] = s[m]
    BY <2>1, <2>7, <2>8
  <2>11. \A i, j \in 1 .. Len(r) : r[i] = r[j] => i = j
    BY <2>7, <2>8, <2>9
  <2>12. s # <<>>
    BY <2>1
  <2> QED
    BY <2>10, <2>11, <2>12 DEF r
<1>2. CASE ~ \E i \in 1 .. Len(s) : s[i] = x
  BY <1>2 DEF Without
<1> QED
  BY <1>1, <1>2

LEMMA RefuseTurnInv ==
    ASSUME TypeInv, TurnInv, NEW t \in Turns, RefuseTurn(t) PROVE TurnInv'
<1>1. ReadyQueue' /\ turn[t] = "new"
  BY NextReady DEF RefuseTurn, At, TurnInv
<1>2. \A u \in Turns : turn'[u] = IF u = t THEN "done" ELSE turn[u]
  BY DEF RefuseTurn, At, TypeInv, TaskType
<1>3. OneActive' /\ StoppingIsLeaving'
  BY <1>1, <1>2 DEF RefuseTurn, TurnInv, OneActive, StoppingIsLeaving
<1>4. ActiveIsBusy' /\ BusyIsRunning'
  BY <1>1, <1>2 DEF RefuseTurn, TurnInv, ActiveIsBusy, BusyIsRunning, MayBegin
<1>5. ready # <<>> => Len(ready') = Len(ready) - 1
  BY HeadTailProperties DEF RefuseTurn, TypeInv, TaskType
<1>6. LastTurn'
  BY <1>1, <1>2, <1>5 DEF RefuseTurn, TurnInv, LastTurn, hush
<1>7. OneWatcher'
  BY <1>1, <1>2 DEF RefuseTurn, TurnInv, OneWatcher, hush
<1> QED
  BY <1>1, <1>3, <1>4, <1>6, <1>7 DEF TurnInv

\* After watcher.cancel() no watcher is left that may fire.
LEMMA CancelledWatcher ==
    ASSUME TypeInv, OneWatcher, CancelWatcher
    PROVE  /\ \A w \in Watchers : ~Live(w)'
           /\ \A w \in Watchers : watch'[w] \in WatcherEnding =>
                \/ watch[w] \in WatcherEnding
                \/ silenceTask # None /\ watch[silenceTask] \in WatcherAlive
<1>1. CASE silenceTask = None
  BY <1>1, VoiceAssumption DEF CancelWatcher, OneWatcher
<1>2. CASE silenceTask # None
  <2>1. silenceTask \in Watchers
    BY <1>2 DEF TypeInv, TaskType
  <2>2. \A w \in Watchers :
          watch'[w] = IF w = silenceTask THEN CancelledWatch(w) ELSE watch[w]
    BY <1>2, <2>1 DEF CancelWatcher, TypeInv, TaskType
  <2> QED
    BY <1>2, <2>1, <2>2 DEF OneWatcher, CancelledWatch, TypeInv, TaskType
<1> QED
  BY <1>1, <1>2

LEMMA BeginTurnInv ==
    ASSUME TypeInv, TurnInv, NEW t \in Turns, BeginTurn(t) PROVE TurnInv'
<1> DEFINE joins == silenceTask # None /\ watch[silenceTask] \in WatcherAlive
           p == IF joins THEN "join" ELSE "send_processing"
<1>1. turn' = [turn EXCEPT ![t] = p]
  BY DEF BeginTurn, At
<1>2. ReadyQueue' /\ turn[t] = "new"
  BY <1>1, NextReady DEF BeginTurn, TurnInv
<1>3. \A u \in Turns : turn'[u] = IF u = t THEN p ELSE turn[u]
  BY <1>1 DEF TypeInv, TaskType
<1>4. \A u \in Turns : ~Active(u)
  BY DEF BeginTurn, MayBegin, TurnInv, ActiveIsBusy
<1>5. OneActive' /\ StoppingIsLeaving'
  BY <1>3, <1>4 DEF BeginTurn, OneActive, StoppingIsLeaving
<1>6. ActiveIsBusy' /\ BusyIsRunning'
  BY <1>3 DEF BeginTurn, ActiveIsBusy, BusyIsRunning
<1>7. LastTurn'
  <2>1. Len(ready') = Len(ready) - 1 /\ ready' \in Seq(Turns)
    BY HeadTailProperties DEF BeginTurn, TypeInv, TaskType
  <2>2. reader = "send_idle" => ready' = <<>>
    BY <2>1, EmptySeq DEF BeginTurn, TurnInv, LastTurn
  <2> QED
    BY <2>2 DEF BeginTurn, LastTurn
<1>8. OneWatcher'
  <2>1. /\ \A w \in Watchers : ~Live(w)'
        /\ \A w \in Watchers : watch'[w] \in WatcherEnding =>
             watch[w] \in WatcherEnding \/ joins
    BY CancelledWatcher DEF BeginTurn, TakeWatcher, TurnInv
  <2>2. joins => turn'[t] = "join"
    BY <1>3
  <2>3. reader \in Serving =>
          \A w \in Watchers : watch[w] \notin WatcherEnding
    BY <1>4 DEF TurnInv, OneWatcher
  <2> QED
    BY <2>1, <2>2, <2>3 DEF BeginTurn, OneWatcher
<1> QED
  BY <1>2, <1>5, <1>6, <1>7, <1>8 DEF TurnInv

\* The steps of a running turn.
LEMMA PipelineInv ==
    ASSUME TypeInv, TurnInv, NEW t \in Turns,
           \/ WatcherJoined(t) \/ SentProcessing(t) \/ Transcribed(t)
           \/ SentUser(t) \/ Replied(t) \/ SentReply(t) \/ SentSpeaking(t)
           \/ Synthesized(t) \/ SentAudio(t)
    PROVE  TurnInv'
<1>1. CASE WatcherJoined(t)
  BY <1>1, TurnAdvances DEF WatcherJoined, At
<1>2. CASE SentProcessing(t)
  BY <1>2, TurnAdvances DEF SentProcessing, At
<1>3. CASE Transcribed(t)
  BY <1>3, TurnAdvances DEF Transcribed, At
<1>4. CASE SentUser(t)
  BY <1>4, TurnAdvances DEF SentUser, At
<1>5. CASE Replied(t)
  BY <1>5, TurnAdvances DEF Replied, At
<1>6. CASE SentReply(t)
  BY <1>6, TurnAdvances DEF SentReply, At
<1>7. CASE SentSpeaking(t)
  BY <1>7, TurnAdvances DEF SentSpeaking, At
<1>8. CASE Synthesized(t)
  BY <1>8, TurnAdvances DEF Synthesized, At
<1>9. CASE SentAudio(t)
  BY <1>9, TurnAdvances DEF SentAudio, At
<1> QED
  BY <1>1, <1>2, <1>3, <1>4, <1>5, <1>6, <1>7, <1>8, <1>9

LEMMA SentIdleInv ==
    ASSUME TypeInv, TurnInv, NEW t \in Turns, SentIdle(t) PROVE TurnInv'
<1>1. turn[t] \in (Pipeline \cup Stopping) \ {"join"}
  BY DEF SentIdle, At
<1>2. turn' = [turn EXCEPT ![t] = "done"]
  BY DEF SentIdle, At
<1>3. /\ UNCHANGED <<conn, reader, ready, watch, silenceTask>>
      /\ turnTask' = None /\ state' = "idle"
  BY DEF SentIdle
<1> QED
  BY <1>1, <1>2, <1>3, TurnStops

LEMMA TurnSendFailsInv ==
    ASSUME TypeInv, TurnInv, NEW t \in Turns, TurnSendFails(t) PROVE TurnInv'
<1>1. conn # "open" /\ conn' # "open"
  BY DEF TurnSendFails, Raised
<1>2. turn[t] \in (Pipeline \cup Stopping) \ {"join"}
  BY DEF TurnSendFails
<1> QED
  BY <1>1, <1>2, TurnStops DEF TurnSendFails

LEMMA InterruptedInv ==
    ASSUME TypeInv, TurnInv, NEW t \in Turns, Interrupted(t) PROVE TurnInv'
<1>1. \A u \in Turns :
        turn'[u] = IF u = t THEN "send_cancelled" ELSE turn[u]
  BY DEF Interrupted, At, TypeInv, TaskType
<1>2. turn[t] = "interrupted"
  BY DEF Interrupted, At
<1>3. OneActive' /\ ActiveIsBusy' /\ LastTurn'
  BY <1>1, <1>2 DEF Interrupted, TurnInv, OneActive, ActiveIsBusy, LastTurn
<1>4. BusyIsRunning' /\ StoppingIsLeaving' /\ OneWatcher'
  BY <1>1, <1>2 DEF Interrupted, TurnInv, BusyIsRunning, StoppingIsLeaving,
     OneWatcher
<1>5. ReadyQueue'
  <2>1. \A i \in 1 .. Len(ready) : ready[i] \in Turns /\ ready[i] # t
    BY <1>2 DEF TypeInv, TaskType, TurnInv, ReadyQueue
  <2> QED
    BY <1>1, <2>1 DEF Interrupted, TurnInv, ReadyQueue
<1> QED
  BY <1>3, <1>4, <1>5 DEF TurnInv

LEMMA TurnStepInv ==
    ASSUME TypeInv, TurnInv, NEW t \in Turns, TurnStep(t) PROVE TurnInv'
BY RefuseTurnInv, BeginTurnInv, PipelineInv, SentIdleInv, InterruptedInv,
   TurnSendFailsInv DEF TurnStep

\* A watcher that starts, ends or is cancelled.
LEMMA WatcherMoves ==
    ASSUME TypeInv, TurnInv, NEW w \in Watchers,
           WatcherRuns(w) \/ WatcherEnds(w) \/ WatcherAborts(w)
    PROVE  TurnInv'
<1>1. /\ \A v \in Watchers : v # w => watch'[v] = watch[v]
      /\ \/ watch[w] = "new" /\ watch'[w] = "sleep"
            /\ UNCHANGED silenceTask
         \/ watch[w] = "sleep" /\ watch'[w] = "done"
         \/ watch[w] \in WatcherEnding /\ watch'[w] = "done"
  BY DEF WatcherRuns, WatcherEnds, WatcherAborts, WatchAt, TypeInv, TaskType
<1>2. UNCHANGED <<turn, ready, conn, reader, state, turnTask>>
  BY DEF WatcherRuns, WatcherEnds, WatcherAborts
<1>3. \A v \in Watchers : Live(v)' => Live(v)
  BY <1>1
<1>4. OneActive' /\ ActiveIsBusy' /\ BusyIsRunning' /\ StoppingIsLeaving'
  BY <1>2 DEF TurnInv, OneActive, ActiveIsBusy, BusyIsRunning,
     StoppingIsLeaving
<1>5. LastTurn' /\ ReadyQueue'
  BY <1>2, <1>3 DEF TurnInv, LastTurn, ReadyQueue
<1>6. OneWatcher'
  BY <1>1, <1>2, <1>3 DEF TurnInv, OneWatcher
<1> QED
  BY <1>4, <1>5, <1>6 DEF TurnInv

\* Silence fires while the session listens, so no turn runs, and it is the
\* only watcher that could.
LEMMA WatcherFiresInv ==
    ASSUME TypeInv, TurnInv, NEW w \in Watchers, WatcherFires(w) PROVE TurnInv'
<1>1. \A u \in Turns : ~Active(u)
  BY DEF WatcherFires, TurnInv, ActiveIsBusy
<1>2. /\ \A u \in Turns :
           turn'[u] = IF u = FreeTurn THEN "new" ELSE turn[u]
      /\ ready = <<>> => Len(ready') = 1
      /\ ReadyQueue'
  BY StartedTurn DEF WatcherFires, TurnInv
<1>3. \A u \in Turns : ~Active(u)'
  BY <1>1, <1>2
<1>4. \A v \in Watchers : watch'[v] = IF v = w THEN "done" ELSE watch[v]
  BY DEF WatcherFires, WatchAt, TypeInv, TaskType
<1>5. Live(w)
  BY DEF WatcherFires, WatchAt
<1>6. \A v \in Watchers : ~Live(v)' /\ watch'[v] \notin WatcherEnding
  BY <1>4, <1>5 DEF TurnInv, OneWatcher
<1>7. OneActive' /\ ActiveIsBusy' /\ StoppingIsLeaving'
  BY <1>3 DEF OneActive, ActiveIsBusy, StoppingIsLeaving
<1>8. BusyIsRunning'
  BY DEF WatcherFires, BusyIsRunning
<1>9. LastTurn'
  BY <1>2, <1>3, <1>5, <1>6 DEF WatcherFires, TurnInv, LastTurn
<1>10. OneWatcher'
  BY <1>6 DEF OneWatcher
<1> QED
  BY <1>2, <1>7, <1>8, <1>9, <1>10 DEF TurnInv

LEMMA ReceiveAudioInv ==
    ASSUME TypeInv, TurnInv, ReceiveAudio PROVE TurnInv'
<1>1. reader \in Serving /\ reader' \in Serving
  BY DEF ReceiveAudio, Receive
<1>2. \A u \in Turns : ~Active(u)
  BY <1>1 DEF ReceiveAudio, TurnInv, ActiveIsBusy
<1>3. \A w \in Watchers : watch[w] \notin WatcherEnding
  BY <1>1, <1>2 DEF TurnInv, OneWatcher
<1>4. UNCHANGED <<turn, ready, turnTask, conn>> /\ state' = "listening"
  BY DEF ReceiveAudio, Receive
<1>5. OneActive' /\ ActiveIsBusy' /\ BusyIsRunning'
  BY <1>2, <1>4 DEF OneActive, ActiveIsBusy, BusyIsRunning
<1>6. StoppingIsLeaving' /\ LastTurn' /\ ReadyQueue'
  BY <1>1, <1>2, <1>4 DEF StoppingIsLeaving, TurnInv, LastTurn, ReadyQueue
<1>7. CASE silenceTask = None
  <2>1. \A w \in Watchers : ~Live(w)
    BY <1>7, VoiceAssumption DEF TurnInv, OneWatcher
  <2> DEFINE f == FreeWatcher
  <2>2. watch' = [watch EXCEPT ![f] = "new"] /\ silenceTask' = f
    BY <1>7 DEF ReceiveAudio
  <2> HIDE DEF f
  <2>3. \A w \in Watchers : watch'[w] = IF w = f THEN "new" ELSE watch[w]
    BY <2>2 DEF TypeInv, TaskType
  <2>4. OneWatcher'
    BY <1>3, <2>1, <2>2, <2>3 DEF OneWatcher
  <2> QED
    BY <1>5, <1>6, <2>4 DEF TurnInv
<1>8. CASE silenceTask # None
  <2>1. UNCHANGED <<watch, silenceTask>>
    BY <1>8 DEF ReceiveAudio
  <2>2. OneWatcher'
    BY <1>3, <2>1 DEF TurnInv, OneWatcher
  <2> QED
    BY <1>5, <1>6, <2>2 DEF TurnInv
<1> QED
  BY <1>7, <1>8

LEMMA ReceiveTurnInv ==
    ASSUME TypeInv, TurnInv, ReceiveTurn PROVE TurnInv'
<1>1. /\ FreeTurn \in Turns /\ turn[FreeTurn] \in Ended
      /\ \A u \in Turns :
           turn'[u] = IF u = FreeTurn THEN "new" ELSE turn[u]
      /\ ReadyQueue'
  BY StartedTurn DEF ReceiveTurn, TurnInv
<1>2. \A u \in Turns : /\ Active(u)' <=> Active(u)
                       /\ turn'[u] \in Pipeline <=> turn[u] \in Pipeline
                       /\ turn'[u] = "join" <=> turn[u] = "join"
                       /\ turn'[u] \in Stopping <=> turn[u] \in Stopping
  BY <1>1
<1>3. UNCHANGED <<reader, conn, state, watch, silenceTask>>
  BY DEF ReceiveTurn, Receive, hush
<1>4. reader = "receive"
  BY DEF ReceiveTurn, Receive
<1>5. OneActive' /\ ActiveIsBusy' /\ BusyIsRunning'
  BY <1>2, <1>3, <1>4 DEF TurnInv, OneActive, ActiveIsBusy, BusyIsRunning
<1>6. StoppingIsLeaving' /\ LastTurn' /\ OneWatcher'
  BY <1>2, <1>3, <1>4 DEF TurnInv, StoppingIsLeaving, LastTurn, OneWatcher
<1> QED
  BY <1>1, <1>5, <1>6 DEF TurnInv

\* Cancelling a turn activates none, and takes it out of the queue.
LEMMA CancelledTurnTask ==
    ASSUME TypeInv, TurnInv, NEW t \in Turns, CancelTurn(t)
    PROVE  /\ \A u \in Turns : Active(u)' => Active(u)
           /\ \A i \in 1 .. Len(ready') : turn'[ready'[i]] = "new"
           /\ \A i, j \in 1 .. Len(ready') : ready'[i] = ready'[j] => i = j
           /\ ready = <<>> => ready' = <<>>
<1>1. \A u \in Turns :
        turn'[u] = IF u = t THEN CancelledTurn(t) ELSE turn[u]
  BY DEF CancelTurn, TypeInv, TaskType
<1>2. \A u \in Turns : Active(u)' => Active(u)
  BY <1>1 DEF CancelledTurn
<1>3. /\ \A i \in 1 .. Len(ready') :
           /\ ready'[i] # t
           /\ \E k \in 1 .. Len(ready) : ready'[i] = ready[k]
      /\ \A i, j \in 1 .. Len(ready') : ready'[i] = ready'[j] => i = j
      /\ ready = <<>> => ready' = <<>>
  BY WithoutOnce DEF CancelTurn, TypeInv, TaskType, TurnInv, ReadyQueue
<1>4. \A k \in 1 .. Len(ready) : ready[k] \in Turns /\ turn[ready[k]] = "new"
  BY DEF TypeInv, TaskType, TurnInv, ReadyQueue
<1>5. \A i \in 1 .. Len(ready') : turn'[ready'[i]] = "new"
  BY <1>1, <1>3, <1>4
<1> QED
  BY <1>2, <1>3, <1>5

LEMMA ReceiveCancelInv ==
    ASSUME TypeInv, TurnInv, ReceiveCancel PROVE TurnInv'
<1>1. reader = "receive" /\ (turnTask = None => ready = <<>>)
  BY DEF ReceiveCancel, Receive
<1>2. UNCHANGED <<conn, state, watch, silenceTask, turnTask>>
  BY DEF ReceiveCancel, Receive, hush
<1>3. CASE LiveTurn(turnTask)
  <2>1. turnTask \in Turns
    BY <1>3 DEF LiveTurn, TypeInv, ControlType
  <2>2. CancelTurn(turnTask) /\ reader' = "await_turn"
    BY <1>3 DEF ReceiveCancel
  <2>3. /\ \A u \in Turns : Active(u)' => Active(u)
        /\ \A i \in 1 .. Len(ready') : turn'[ready'[i]] = "new"
        /\ \A i, j \in 1 .. Len(ready') : ready'[i] = ready'[j] => i = j
    BY <2>1, <2>2, CancelledTurnTask
  <2>4. OneActive' /\ ActiveIsBusy'
    BY <1>1, <1>2, <2>3 DEF TurnInv, OneActive, ActiveIsBusy
  <2>5. BusyIsRunning' /\ StoppingIsLeaving' /\ LastTurn'
    BY <2>2 DEF BusyIsRunning, StoppingIsLeaving, LastTurn
  <2>6. OneWatcher' /\ ReadyQueue'
    BY <1>2, <2>2, <2>3 DEF TurnInv, OneWatcher, ReadyQueue
  <2> QED
    BY <2>4, <2>5, <2>6 DEF TurnInv
<1>4. CASE ~LiveTurn(turnTask)
  <2>1. reader' = "send_idle" /\ UNCHANGED <<turn, ready>>
    BY <1>4 DEF ReceiveCancel
  <2>2. ready = <<>>
    <3> SUFFICES ASSUME ready # <<>> PROVE FALSE
      OBVIOUS
    <3>1. Len(ready) \in 1 .. Len(ready)
      BY DEF TypeInv, TaskType
    <3>2. turnTask # None /\ turnTask = ready[Len(ready)]
      BY <1>1 DEF TurnInv, ReadyQueue
    <3>3. turn[turnTask] = "new"
      BY <3>1, <3>2 DEF TurnInv, ReadyQueue
    <3> QED
      BY <1>4, <3>2, <3>3 DEF LiveTurn
  <2>3. OneActive' /\ ActiveIsBusy' /\ BusyIsRunning'
    BY <1>1, <1>2, <2>1 DEF TurnInv, OneActive, ActiveIsBusy, BusyIsRunning
  <2>4. StoppingIsLeaving' /\ LastTurn'
    BY <1>1, <2>1, <2>2 DEF TurnInv, StoppingIsLeaving, LastTurn
  <2>5. OneWatcher' /\ ReadyQueue'
    BY <1>2, <2>1 DEF TurnInv, OneWatcher, ReadyQueue
  <2> QED
    BY <2>3, <2>4, <2>5 DEF TurnInv
<1> QED
  BY <1>3, <1>4

LEMMA CancelSentIdleInv ==
    ASSUME TypeInv, TurnInv, CancelSentIdle PROVE TurnInv'
<1>1. reader = "send_idle" /\ reader' \in {"closing", "evaluate"}
  BY DEF CancelSentIdle, Summarize
<1>2. UNCHANGED <<turn, ready, watch, silenceTask, turnTask>> /\ state' = "idle"
  BY DEF CancelSentIdle
<1>3. OneActive' /\ ActiveIsBusy'
  BY <1>1, <1>2 DEF TurnInv, OneActive, ActiveIsBusy, LastTurn
<1>4. BusyIsRunning' /\ StoppingIsLeaving' /\ LastTurn'
  BY <1>1 DEF BusyIsRunning, StoppingIsLeaving, LastTurn
<1>5. OneWatcher' /\ ReadyQueue'
  BY <1>1, <1>2 DEF TurnInv, OneWatcher, ReadyQueue
<1> QED
  BY <1>3, <1>4, <1>5 DEF TurnInv

LEMMA UnregisterInv ==
    ASSUME TypeInv, TurnInv, Unregister PROVE TurnInv'
<1>1. reader = "leaving" /\ reader' = "joining"
  BY DEF Unregister, Goto
<1>2. UNCHANGED <<state, silenceTask>> /\ CancelWatcher
  BY DEF Unregister
<1>3. /\ \A u \in Turns : Active(u)' => Active(u)
      /\ \A i \in 1 .. Len(ready') : turn'[ready'[i]] = "new"
      /\ \A i, j \in 1 .. Len(ready') : ready'[i] = ready'[j] => i = j
      /\ ready = <<>> => ready' = <<>>
  <2>1. CASE LiveTurn(turnTask)
    <3>1. turnTask \in Turns /\ CancelTurn(turnTask)
      BY <2>1 DEF Unregister, LiveTurn, TypeInv, ControlType
    <3> QED
      BY <3>1, CancelledTurnTask
  <2>2. CASE ~LiveTurn(turnTask)
    <3>1. UNCHANGED <<turn, ready>>
      BY <2>2 DEF Unregister
    <3> QED
      BY <3>1 DEF TurnInv, ReadyQueue
  <2> QED
    BY <2>1, <2>2
<1>4. OneActive' /\ ActiveIsBusy'
  BY <1>1, <1>2, <1>3 DEF TurnInv, OneActive, ActiveIsBusy
<1>5. BusyIsRunning' /\ StoppingIsLeaving' /\ LastTurn'
  BY <1>1 DEF BusyIsRunning, StoppingIsLeaving, LastTurn
<1>6. OneWatcher'
  BY <1>1, <1>2, CancelledWatcher DEF TurnInv, OneWatcher
<1>7. ReadyQueue'
  BY <1>1, <1>3 DEF ReadyQueue
<1> QED
  BY <1>4, <1>5, <1>6, <1>7 DEF TurnInv

\* The steps of the handler that start and cancel nothing.
LEMMA ReaderMoves ==
    ASSUME TypeInv, TurnInv,
           \/ ReceiveFails \/ ReaderSent \/ SentListening \/ TurnAwaited
           \/ Evaluated \/ SentSummary \/ ReaderSendFails \/ Close
           \/ Unregistered \/ ReceiveInvalid \/ ReceiveAudioBusy
    PROVE  TurnInv'
<1>1. UNCHANGED <<turn, ready, watch, state, silenceTask, turnTask>>
  BY DEF ReceiveFails, ReaderSent, SentListening, TurnAwaited, Evaluated,
     SentSummary, ReaderSendFails, Close, Unregistered, ReceiveInvalid,
     ReceiveAudioBusy
<1>2. conn' = "open" => conn = "open"
  BY DEF ReceiveFails, ReaderSent, SentListening, TurnAwaited, Evaluated,
     SentSummary, ReaderSendFails, Close, Unregistered, ReceiveInvalid,
     ReceiveAudioBusy, Receive, Raised
<1>3. /\ reader' \in Serving => reader \in Serving
      /\ reader' = "send_idle" => reader = "send_idle"
      /\ reader \in Finishing => reader' \in Finishing
  BY DEF ReceiveFails, ReaderSent, SentListening, TurnAwaited, Evaluated,
     SentSummary, ReaderSendFails, Close, Unregistered, ReceiveInvalid,
     ReceiveAudioBusy, Receive, Goto, Summarize
<1> QED
  BY <1>1, <1>2, <1>3, OthersMove

LEMMA TurnInvStep ==
    ASSUME TypeInv, TurnInv, [Next]_vars PROVE TurnInv'
<1>1. CASE Frame
  <2>1. CASE ReceiveInvalid \/ ReceiveAudioBusy
    BY <2>1, ReaderMoves
  <2> QED
    BY <1>1, <2>1, ReceiveAudioInv, ReceiveTurnInv, ReceiveCancelInv DEF Frame
<1>2. CASE ReaderStep
  <2>1. CASE CancelSentIdle \/ Unregister
    BY <2>1, CancelSentIdleInv, UnregisterInv
  <2> QED
    BY <1>2, <2>1, ReaderMoves DEF ReaderStep
<1>3. ASSUME NEW t \in Turns, TurnStep(t) PROVE TurnInv'
  BY <1>3, TurnStepInv
<1>4. ASSUME NEW w \in Watchers, WatcherStep(w) PROVE TurnInv'
  BY <1>4, WatcherMoves, WatcherFiresInv DEF WatcherStep
<1>5. CASE ClientLeaves \/ Transmit \/ FallQuiet \/ UNCHANGED vars
  <2>1. /\ UNCHANGED <<turn, ready, watch, state, silenceTask, turnTask,
                        reader>>
        /\ conn' = "open" => conn = "open"
    BY <1>5 DEF ClientLeaves, Transmit, FallQuiet, vars
  <2> QED
    BY <2>1, OthersMove
<1> QED
  BY <1>1, <1>2, <1>3, <1>4, <1>5 DEF Next

LEMMA RunningAlone ==
    ASSUME TypeInv, TurnInv PROVE OneTurnWhenBusy
<1>1. Cardinality(Running) <= 1
  <2>1. CASE Running = {}
    BY <2>1, FS_EmptySet
  <2>2. CASE Running # {}
    <3>1. PICK t \in Turns : t \in Running
      BY <2>2 DEF Running
    <3>2. Running = {t}
      BY <3>1 DEF Running, TurnInv, OneActive
    <3> QED
      BY <3>2, FS_Singleton
  <2> QED
    BY <2>1, <2>2
<1>2. reader \in Serving =>
        /\ Running # {} => state \in Busy
        /\ state \in Busy /\ conn = "open" => Running # {}
  BY DEF Running, TurnInv, ActiveIsBusy, BusyIsRunning
<1> QED
  BY <1>1, <1>2 DEF OneTurnWhenBusy

\* However many turns are asked for, refused and cancelled, one runs at a time,
\* and a session that serves its client is busy exactly while one does.
THEOREM OneTurnAtATime == Spec => []OneTurnWhenBusy
<1>1. Init => TypeInv /\ TurnInv
  BY TypeInit, TurnInit
<1>2. TypeInv /\ TurnInv /\ [Next]_vars => (TypeInv /\ TurnInv)'
  BY TypeStep, TurnInvStep
<1>3. TypeInv /\ TurnInv => OneTurnWhenBusy
  BY RunningAlone
<1> QED
  BY <1>1, <1>2, <1>3, PTL DEF Spec

-----------------------------------------------------------------------------
(* Listening is watched.                                                   *)

HandleIsLive ==
    reader \in Serving /\ silenceTask # None => Live(silenceTask)

WatchInv == HandleIsLive /\ ListeningIsWatched

LEMMA WatchInit == Init => WatchInv
BY DEF Init, WatchInv, HandleIsLive, ListeningIsWatched

\* A step that does not start listening, stop the watcher or run a created turn.
LEMMA StillWatched ==
    ASSUME WatchInv, UNCHANGED <<watch, silenceTask, ready>>,
           state' = "listening" => state = "listening",
           reader' \in Serving => reader \in Serving
    PROVE  WatchInv'
BY DEF WatchInv, HandleIsLive, ListeningIsWatched

LEMMA TurnWatched ==
    ASSUME WatchInv, NEW t \in Turns, TurnStep(t) PROVE WatchInv'
<1>1. CASE RefuseTurn(t)
  BY <1>1 DEF RefuseTurn, MayBegin, WatchInv, HandleIsLive, ListeningIsWatched
<1>2. CASE BeginTurn(t)
  BY <1>2 DEF BeginTurn, TakeWatcher, WatchInv, HandleIsLive,
     ListeningIsWatched
<1>3. CASE ~RefuseTurn(t) /\ ~BeginTurn(t)
  <2>1. UNCHANGED <<watch, silenceTask, ready, reader>>
    BY <1>3 DEF TurnStep, WatcherJoined, SentProcessing, Transcribed, SentUser,
       Replied, SentReply, SentSpeaking, Synthesized, SentAudio, SentIdle,
       Interrupted, TurnSendFails
  <2>2. state' = "listening" => state = "listening"
    BY <1>3 DEF TurnStep, WatcherJoined, SentProcessing, Transcribed, SentUser,
       Replied, SentReply, SentSpeaking, Synthesized, SentAudio, SentIdle,
       Interrupted, TurnSendFails
  <2> QED
    BY <2>1, <2>2, StillWatched
<1> QED
  BY <1>1, <1>2, <1>3

\* No watcher is being stopped while the session listens, and the one that
\* fires leaves a turn in its place.
LEMMA WatcherWatched ==
    ASSUME TypeInv, TurnInv, WatchInv, NEW w \in Watchers, WatcherStep(w)
    PROVE  WatchInv'
<1>1. CASE WatcherRuns(w)
  <2>1. \A v \in Watchers : Live(v) => Live(v)'
    BY <1>1 DEF WatcherRuns, WatchAt, TypeInv, TaskType
  <2>2. UNCHANGED <<silenceTask, reader, state, ready>>
    BY <1>1 DEF WatcherRuns
  <2> QED
    BY <2>1, <2>2 DEF WatchInv, HandleIsLive, ListeningIsWatched, TypeInv,
       TaskType
<1>2. CASE WatcherEnds(w)
  <2>1. silenceTask' = None /\ UNCHANGED <<reader, state, ready>>
    BY <1>2 DEF WatcherEnds
  <2>2. reader \in Serving => state # "listening"
    BY <1>2 DEF WatcherEnds, WatchAt, TurnInv, OneWatcher, ActiveIsBusy
  <2> QED
    BY <2>1, <2>2 DEF WatchInv, HandleIsLive, ListeningIsWatched
<1>3. CASE WatcherAborts(w)
  <2>1. \A v \in Watchers : Live(v) => Live(v)'
    BY <1>3 DEF WatcherAborts, WatchAt, TypeInv, TaskType
  <2>2. UNCHANGED <<silenceTask, reader, state, ready>>
    BY <1>3 DEF WatcherAborts
  <2> QED
    BY <2>1, <2>2 DEF WatchInv, HandleIsLive, ListeningIsWatched, TypeInv,
       TaskType
<1>4. CASE WatcherFires(w)
  <2>1. ready' # <<>>
    BY <1>4, StartedTurn DEF WatcherFires, TurnInv
  <2>2. silenceTask' = None
    BY <1>4 DEF WatcherFires
  <2> QED
    BY <2>1, <2>2 DEF WatchInv, HandleIsLive, ListeningIsWatched
<1> QED
  BY <1>1, <1>2, <1>3, <1>4 DEF WatcherStep

LEMMA ReaderWatched ==
    ASSUME TypeInv, TurnInv, WatchInv, Frame \/ ReaderStep PROVE WatchInv'
<1>1. CASE ReceiveAudio
  <2>1. reader \in Serving
    BY <1>1 DEF ReceiveAudio, Receive
  <2>2. CASE silenceTask = None
    <3>1. PICK w \in Watchers : w = FreeWatcher
      BY <1>1, <2>2 DEF ReceiveAudio, FreeWatcher, FreeWatchers
    <3>2. watch' = [watch EXCEPT ![w] = "new"] /\ silenceTask' = w
      BY <1>1, <2>2, <3>1 DEF ReceiveAudio
    <3>3. watch'[silenceTask'] = "new" /\ silenceTask' # None
      BY <3>2, VoiceAssumption DEF TypeInv, TaskType
    <3> QED
      BY <3>3 DEF WatchInv, HandleIsLive, ListeningIsWatched
  <2>3. CASE silenceTask # None
    <3>1. UNCHANGED <<watch, silenceTask>>
      BY <1>1, <2>3 DEF ReceiveAudio
    <3> QED
      BY <2>1, <2>3, <3>1 DEF WatchInv, HandleIsLive, ListeningIsWatched
  <2> QED
    BY <2>2, <2>3
<1>2. CASE ReceiveTurn
  <2>1. ready' # <<>>
    BY <1>2, StartedTurn DEF ReceiveTurn, TurnInv
  <2>2. UNCHANGED <<watch, silenceTask, reader>>
    BY <1>2 DEF ReceiveTurn
  <2> QED
    BY <2>1, <2>2 DEF WatchInv, HandleIsLive, ListeningIsWatched
<1>3. CASE ReceiveCancel \/ CancelSentIdle \/ Unregister
  <2>1. reader' \notin Serving
    BY <1>3 DEF ReceiveCancel, CancelSentIdle, Unregister, Goto, Summarize
  <2> QED
    BY <2>1 DEF WatchInv, HandleIsLive, ListeningIsWatched
<1>4. CASE \/ ReceiveInvalid \/ ReceiveAudioBusy \/ ReceiveFails \/ ReaderSent
           \/ SentListening \/ TurnAwaited \/ Evaluated \/ SentSummary
           \/ ReaderSendFails \/ Close \/ Unregistered
  <2>1. UNCHANGED <<watch, silenceTask, ready, state>>
    BY <1>4 DEF ReceiveFails, ReaderSent, SentListening, TurnAwaited,
       Evaluated, SentSummary, ReaderSendFails, Close, Unregistered,
       ReceiveInvalid, ReceiveAudioBusy
  <2>2. reader' \in Serving => reader \in Serving
    BY <1>4 DEF ReceiveFails, ReaderSent, SentListening, TurnAwaited,
       Evaluated, SentSummary, ReaderSendFails, Close, Unregistered,
       ReceiveInvalid, ReceiveAudioBusy, Receive, Goto, Summarize
  <2> QED
    BY <2>1, <2>2, StillWatched
<1> QED
  BY <1>1, <1>2, <1>3, <1>4 DEF Frame, ReaderStep

LEMMA WatchStep ==
    ASSUME TypeInv, TurnInv, WatchInv, [Next]_vars PROVE WatchInv'
<1>1. CASE ClientLeaves \/ Transmit \/ FallQuiet \/ UNCHANGED vars
  <2>1. UNCHANGED <<watch, silenceTask, ready, state, reader>>
    BY <1>1 DEF ClientLeaves, Transmit, FallQuiet, vars
  <2> QED
    BY <2>1, StillWatched
<1>2. CASE Frame \/ ReaderStep
  BY <1>2, ReaderWatched
<1>3. ASSUME NEW t \in Turns, TurnStep(t) PROVE WatchInv'
  BY <1>3, TurnWatched
<1>4. ASSUME NEW w \in Watchers, WatcherStep(w) PROVE WatchInv'
  BY <1>4, WatcherWatched
<1> QED
  BY <1>1, <1>2, <1>3, <1>4 DEF Next

\* While frames are served, a session that listens has a live watcher under its
\* handle or a turn about to start: no begin_turn, watcher end or late finally
\* leaves the learner listened to for ever.
THEOREM ListeningStaysWatched == Spec => []ListeningIsWatched
<1>1. Init => TypeInv /\ TurnInv /\ WatchInv
  BY TypeInit, TurnInit, WatchInit
<1>2. /\ TypeInv /\ TurnInv /\ WatchInv
      /\ [Next]_vars
      => (TypeInv /\ TurnInv /\ WatchInv)'
  BY TypeStep, TurnInvStep, WatchStep
<1>3. WatchInv => ListeningIsWatched
  BY DEF WatchInv
<1> QED
  BY <1>1, <1>2, <1>3, PTL DEF Spec

-----------------------------------------------------------------------------
(* The transcript alternates.                                              *)
(*                                                                         *)
(* A turn that runs has quoted the learner and not answered yet exactly    *)
(* when the history's length is odd.  A turn that ends in between leaves   *)
(* it odd for good: then the session stays busy on a broken connection, or *)
(* is leaving with nothing left that could begin another turn.             *)

Answering == {"send_user", "llm"}

Odd(n) == n % 2 = 1

OddWhileAnswering ==
    \A t \in Turns : turn[t] \in Pipeline =>
        (turn[t] \in Answering <=> Odd(Len(history)))

UnansweredIsLast ==
    Odd(Len(history)) /\ (\A t \in Turns : turn[t] \notin Answering) =>
        \/ state \in Busy /\ conn \in {"broken", "closed"}
        \/ ready = <<>> /\ state # "listening" /\ reader \notin Serving

\* The task a cancel may abort is the newest, so none waits behind it.
NewestIsKnown ==
    LiveTurn(turnTask) /\ ready # <<>> => turnTask = ready[Len(ready)]

StoppingIsLast == (\E t \in Turns : turn[t] \in Stopping) => ready = <<>>

\* No frame goes out on a broken connection; the handler's own close is its
\* last word.
SilentWhenBroken ==
    conn \in {"broken", "closed"} /\ onwire =>
        reader \in {"leaving", "joining", "left"}

TranscriptInv ==
    /\ HistoryAlternates /\ OddWhileAnswering /\ UnansweredIsLast
    /\ NewestIsKnown /\ StoppingIsLast /\ SilentWhenBroken

LEMMA OddNext ==
    /\ ~Odd(0)
    /\ \A n \in Nat : Odd(n + 1) <=> ~Odd(n)
BY DEF Odd

\* Both roles alternate while each is said in its turn.
LEMMA SayAlternates ==
    ASSUME history \in Seq(EntryRecord), HistoryAlternates, NEW role, NEW S,
           Say(role, S), role = IF Odd(Len(history)) THEN "assistant" ELSE "user"
    PROVE  /\ HistoryAlternates'
           /\ Odd(Len(history')) <=> ~Odd(Len(history))
<1> DEFINE n == Len(history)
<1>1. n \in Nat /\ Len(history') = n + 1
  BY DEF Say
<1>2. /\ history'[n + 1] = Entry(role, S)
      /\ \A i \in 1 .. n : history'[i] = history[i]
  BY AppendProperties DEF Say
<1>3. Odd(n + 1) <=> ~Odd(n)
  BY <1>1, OddNext
<1>4. \A i \in 1 .. n : history'[i].role = IF Odd(i) THEN "user" ELSE "assistant"
  BY <1>2 DEF HistoryAlternates, Odd
<1>5. history'[n + 1].role = IF Odd(n + 1) THEN "user" ELSE "assistant"
  BY <1>2, <1>3 DEF Entry
<1>6. \A i \in 1 .. n + 1 : i \in 1 .. n \/ i = n + 1
  BY <1>1
<1>7. \A i \in 1 .. Len(history') :
          history'[i].role = IF Odd(i) THEN "user" ELSE "assistant"
  BY <1>1, <1>4, <1>5, <1>6
<1> QED
  BY <1>1, <1>3, <1>7 DEF HistoryAlternates, Odd

LEMMA TranscriptInit == Init => TranscriptInv
<1> SUFFICES ASSUME Init PROVE TranscriptInv
  OBVIOUS
<1>1. history = <<>> /\ Len(history) = 0 /\ ~Odd(Len(history))
  BY OddNext DEF Init
<1>2. HistoryAlternates
  BY <1>1 DEF HistoryAlternates
<1>3. OddWhileAnswering /\ StoppingIsLast
  BY DEF Init, OddWhileAnswering, StoppingIsLast
<1>4. UnansweredIsLast
  BY <1>1 DEF UnansweredIsLast
<1>5. NewestIsKnown /\ SilentWhenBroken
  BY DEF Init, NewestIsKnown, SilentWhenBroken
<1> QED
  BY <1>2, <1>3, <1>4, <1>5 DEF TranscriptInv

\* A step that touches none of the turns.
LEMMA TurnsUntouched ==
    ASSUME TranscriptInv, UNCHANGED <<turn, ready, turnTask, history>>,
           conn' \in {"broken", "closed"} \/ conn \notin {"broken", "closed"},
           state' = state \/ (state' = "idle" /\ reader = "send_idle" /\ onwire),
           reader' \in Serving => reader \in Serving,
           SilentWhenBroken'
    PROVE  TranscriptInv'
<1>1. HistoryAlternates' /\ OddWhileAnswering'
  BY DEF TranscriptInv, HistoryAlternates, OddWhileAnswering
<1>2. NewestIsKnown' /\ StoppingIsLast'
  BY DEF TranscriptInv, NewestIsKnown, LiveTurn, StoppingIsLast
<1>3. UnansweredIsLast'
  BY DEF TranscriptInv, UnansweredIsLast, SilentWhenBroken
<1> QED
  BY <1>1, <1>2, <1>3 DEF TranscriptInv

\* A turn that runs goes on to "to".
LEMMA TurnOnward ==
    ASSUME TypeInv, TurnInv, TranscriptInv, NEW t \in Turns, NEW to,
           turn[t] \in Pipeline, to \in Pipeline,
           turn' = [turn EXCEPT ![t] = to],
           UNCHANGED <<ready, turnTask, conn, reader>>,
           onwire' \in {onwire, FALSE},
           HistoryAlternates',
           to \in Answering <=> Odd(Len(history'))
    PROVE  TranscriptInv'
<1>1. \A u \in Turns : turn'[u] = IF u = t THEN to ELSE turn[u]
  BY DEF TypeInv, TaskType
<1>2. \A u \in Turns : u # t => ~Active(u)
  BY DEF TurnInv, OneActive
<1>3. OddWhileAnswering'
  BY <1>1, <1>2 DEF OddWhileAnswering
<1>4. UnansweredIsLast'
  BY <1>1 DEF UnansweredIsLast
<1>5. NewestIsKnown' /\ StoppingIsLast'
  BY <1>1 DEF TranscriptInv, NewestIsKnown, LiveTurn, StoppingIsLast
<1>6. SilentWhenBroken'
  BY DEF TranscriptInv, SilentWhenBroken
<1> QED
  BY <1>3, <1>4, <1>5, <1>6 DEF TranscriptInv

\* A turn that is active ends, is interrupted, or says idle after that.
LEMMA TurnCeases ==
    ASSUME TypeInv, TurnInv, TranscriptInv, NEW t \in Turns, NEW to,
           Active(t), to \in Stopping \cup Ended,
           turn' = [turn EXCEPT ![t] = to],
           history' = history, ready' = ready, reader' = reader,
           turnTask' \in {turnTask, None},
           to \in Stopping => ready = <<>>,
           onwire' => onwire,
           \/ /\ turn[t] \in Pipeline
              /\ \/ state' = state
                    /\ conn' \in {"broken", "closed"}
                 \/ turn[t] \notin Answering /\ conn' = conn
           \/ /\ turn[t] \in Stopping /\ state' \in {"idle", state}
              /\ conn' = conn \/ conn' \in {"broken", "closed"},
           SilentWhenBroken'
    PROVE  TranscriptInv'
<1>1. \A u \in Turns : turn'[u] = IF u = t THEN to ELSE turn[u]
  BY DEF TypeInv, TaskType
<1>2. \A u \in Turns : u # t => ~Active(u)
  BY DEF TurnInv, OneActive
<1>3. HistoryAlternates' /\ OddWhileAnswering'
  BY <1>1 DEF TranscriptInv, HistoryAlternates, OddWhileAnswering
<1>4. NewestIsKnown' /\ StoppingIsLast'
  <2>1. NewestIsKnown'
    BY <1>1 DEF TranscriptInv, NewestIsKnown, LiveTurn
  <2>2. StoppingIsLast'
    BY <1>1, <1>2 DEF TranscriptInv, StoppingIsLast
  <2> QED
    BY <2>1, <2>2
<1>5. UnansweredIsLast'
  <2> SUFFICES ASSUME Odd(Len(history)) PROVE UnansweredIsLast'
    BY DEF UnansweredIsLast
  <2>1. CASE turn[t] \in Pipeline
    <3>1. turn[t] \in Answering
      BY <2>1 DEF TranscriptInv, OddWhileAnswering
    <3>2. state' = state /\ conn' \in {"broken", "closed"}
      BY <2>1, <3>1
    <3>3. \/ state \in Busy
          \/ ready = <<>> /\ state = "idle" /\ reader \in Finishing
      BY DEF TurnInv, ActiveIsBusy
    <3> QED
      BY <3>2, <3>3 DEF UnansweredIsLast
  <2>2. CASE turn[t] \in Stopping
    <3>1. ready = <<>> /\ reader \notin Serving
      BY <2>2 DEF TranscriptInv, StoppingIsLast, TurnInv, StoppingIsLeaving
    <3>2. state # "listening"
      BY DEF TurnInv, ActiveIsBusy
    <3> QED
      BY <2>2, <3>1, <3>2 DEF UnansweredIsLast
  <2> QED
    BY <2>1, <2>2
<1> QED
  BY <1>3, <1>4, <1>5 DEF TranscriptInv

\* The first step of a turn, refused or begun.
LEMMA FirstStepOfTurn ==
    ASSUME TypeInv, TurnInv, TranscriptInv, NEW t \in Turns,
           RefuseTurn(t) \/ BeginTurn(t)
    PROVE  TranscriptInv'
<1>1. /\ ready # <<>> /\ Head(ready) = t /\ ready' = Tail(ready)
      /\ turn[t] = "new" /\ UNCHANGED <<turnTask, conn, reader, history>>
      /\ onwire' = onwire
  BY DEF RefuseTurn, BeginTurn, At, Send
<1>2. PICK p \in {"done", "join", "send_processing"} :
        /\ turn' = [turn EXCEPT ![t] = p]
        /\ RefuseTurn(t) => p = "done" /\ state \in Busy /\ state' = state
        /\ ~RefuseTurn(t) => p # "done" /\ state \notin Busy
  BY DEF RefuseTurn, BeginTurn, At, MayBegin
<1>3. \A u \in Turns : turn'[u] = IF u = t THEN p ELSE turn[u]
  BY <1>2 DEF TypeInv, TaskType
<1>4. HistoryAlternates' /\ SilentWhenBroken'
  BY <1>1 DEF TranscriptInv, HistoryAlternates, SilentWhenBroken
<1>5. NewestIsKnown'
  <2> SUFFICES ASSUME LiveTurn(turnTask)', ready' # <<>>
               PROVE  turnTask' = ready'[Len(ready')]
    BY DEF NewestIsKnown
  <2>1. turnTask \in Turns /\ turnTask' = turnTask
    BY <1>1 DEF TypeInv, ControlType, LiveTurn
  <2>2. LiveTurn(turnTask)
    BY <1>1, <1>3, <2>1 DEF LiveTurn
  <2>3. ready'[Len(ready')] = ready[Len(ready)]
    <3>1. /\ Len(ready) \in Nat \ {0} /\ Len(ready') = Len(ready) - 1
          /\ \A i \in 1 .. Len(ready') : ready'[i] = ready[i + 1]
          /\ Len(ready') # 0
      BY <1>1, HeadTailProperties, EmptySeq DEF TypeInv, TaskType
    <3>2. Len(ready') \in 1 .. Len(ready') /\ Len(ready') + 1 = Len(ready)
      BY <3>1
    <3> QED
      BY <3>1, <3>2
  <2> QED
    BY <1>1, <2>1, <2>2, <2>3 DEF TranscriptInv, NewestIsKnown
<1>6. StoppingIsLast'
  BY <1>1, <1>2, <1>3 DEF TranscriptInv, StoppingIsLast
<1>7. CASE RefuseTurn(t)
  <2>1. OddWhileAnswering'
    BY <1>1, <1>2, <1>3, <1>7 DEF TranscriptInv, OddWhileAnswering
  <2>2. UnansweredIsLast'
    BY <1>1, <1>2, <1>3, <1>7 DEF TranscriptInv, UnansweredIsLast, Answering
  <2> QED
    BY <1>4, <1>5, <1>6, <2>1, <2>2 DEF TranscriptInv
<1>8. CASE ~RefuseTurn(t)
  <2>1. \A u \in Turns : ~Active(u)
    BY <1>1, <1>2, <1>8 DEF TurnInv, ActiveIsBusy
  <2>2. ~Odd(Len(history))
    BY <1>1, <1>2, <1>8, <2>1 DEF TranscriptInv, UnansweredIsLast, Answering
  <2>3. OddWhileAnswering' /\ UnansweredIsLast'
    BY <1>1, <1>2, <1>3, <1>8, <2>1, <2>2
       DEF OddWhileAnswering, UnansweredIsLast, Answering
  <2> QED
    BY <1>4, <1>5, <1>6, <2>3 DEF TranscriptInv
<1> QED
  BY <1>7, <1>8

LEMMA PipelineTranscript ==
    ASSUME TypeInv, TurnInv, TranscriptInv, NEW t \in Turns,
           \/ WatcherJoined(t) \/ SentProcessing(t) \/ Transcribed(t)
           \/ SentUser(t) \/ Replied(t) \/ SentReply(t) \/ SentSpeaking(t)
           \/ Synthesized(t) \/ SentAudio(t)
    PROVE  TranscriptInv'
<1>1. history \in Seq(EntryRecord)
  BY DEF TypeInv, SpeechType
<1>2. /\ UNCHANGED <<ready, turnTask, conn, reader>>
      /\ onwire' \in {onwire, FALSE} /\ turn[t] \in Pipeline
  BY DEF WatcherJoined, SentProcessing, Transcribed, SentUser, Replied,
     SentReply, SentSpeaking, Synthesized, SentAudio, Sent, At, Send
<1>3. turn[t] \in Answering <=> Odd(Len(history))
  BY <1>2 DEF TranscriptInv, OddWhileAnswering
<1>4. PICK to \in Pipeline :
        /\ turn' = [turn EXCEPT ![t] = to]
        /\ \/ history' = history /\ (to \in Answering <=> turn[t] \in Answering)
           \/ /\ turn[t] \notin Answering /\ to \in Answering
              /\ \E S : Say("user", S)
           \/ /\ turn[t] \in Answering /\ to \notin Answering
              /\ \E S : Say("assistant", S)
  <2>1. CASE WatcherJoined(t)
    BY <2>1 DEF WatcherJoined, At, Answering
  <2>2. CASE SentProcessing(t)
    BY <2>2 DEF SentProcessing, At, Answering
  <2>3. CASE Transcribed(t)
    BY <2>3 DEF Transcribed, At, Answering
  <2>4. CASE SentUser(t)
    BY <2>4 DEF SentUser, At, Answering
  <2>5. CASE Replied(t)
    BY <2>5 DEF Replied, At, Answering
  <2>6. CASE SentReply(t)
    BY <2>6 DEF SentReply, At, Answering
  <2>7. CASE SentSpeaking(t)
    BY <2>7 DEF SentSpeaking, At, Answering
  <2>8. CASE Synthesized(t)
    BY <2>8 DEF Synthesized, At, Answering
  <2>9. CASE SentAudio(t)
    BY <2>9 DEF SentAudio, At, Answering
  <2> QED
    BY <2>1, <2>2, <2>3, <2>4, <2>5, <2>6, <2>7, <2>8, <2>9
<1>5. HistoryAlternates' /\ (to \in Answering <=> Odd(Len(history')))
  <2>1. CASE history' = history /\ (to \in Answering <=> turn[t] \in Answering)
    BY <1>3, <2>1 DEF TranscriptInv, HistoryAlternates
  <2>2. CASE /\ turn[t] \notin Answering /\ to \in Answering
             /\ \E S : Say("user", S)
    <3>1. PICK S : Say("user", S)
      BY <2>2
    <3> QED
      BY <1>1, <1>3, <2>2, <3>1, SayAlternates DEF TranscriptInv
  <2>3. CASE /\ turn[t] \in Answering /\ to \notin Answering
             /\ \E S : Say("assistant", S)
    <3>1. PICK S : Say("assistant", S)
      BY <2>3
    <3> QED
      BY <1>1, <1>3, <2>3, <3>1, SayAlternates DEF TranscriptInv
  <2> QED
    BY <1>4, <2>1, <2>2, <2>3
<1>6. turn' = [turn EXCEPT ![t] = to]
  BY <1>4
<1> QED
  BY <1>2, <1>5, <1>6, TurnOnward

LEMMA TurnTranscript ==
    ASSUME TypeInv, TurnInv, TranscriptInv, NEW t \in Turns, TurnStep(t)
    PROVE  TranscriptInv'
<1>1. CASE SentIdle(t)
  <2>1. /\ turn[t] \in {"send_idle", "send_cancelled"}
        /\ turn' = [turn EXCEPT ![t] = "done"]
        /\ UNCHANGED <<history, ready, reader, conn>>
        /\ turnTask' = None /\ state' = "idle" /\ onwire' = FALSE
    BY <1>1 DEF SentIdle, At, Sent
  <2>2. SilentWhenBroken'
    BY <2>1 DEF SilentWhenBroken
  <2> QED
    BY <2>1, <2>2, TurnCeases DEF Answering
<1>2. CASE Interrupted(t)
  <2>1. /\ turn[t] = "interrupted"
        /\ turn' = [turn EXCEPT ![t] = "send_cancelled"]
        /\ UNCHANGED <<history, ready, reader, conn, turnTask, state, onwire>>
    BY <1>2 DEF Interrupted, At, Send
  <2>2. SilentWhenBroken' /\ ready = <<>>
    BY <2>1 DEF TranscriptInv, SilentWhenBroken, StoppingIsLast
  <2> QED
    BY <2>1, <2>2, TurnCeases
<1>3. CASE TurnSendFails(t)
  <2>1. /\ turn[t] \in Sending /\ conn # "open"
        /\ \E to \in Ended : turn' = [turn EXCEPT ![t] = to]
        /\ UNCHANGED <<history, ready, reader>>
        /\ turnTask' = None /\ onwire' = FALSE
        /\ state' = state \/ (turn[t] = "send_cancelled" /\ state' = "idle")
    BY <1>3 DEF TurnSendFails, Raised
  <2>2. conn' \in {"broken", "closed"}
    BY <1>3, <2>1 DEF TurnSendFails, Raised, TypeInv, ControlType
  <2>3. SilentWhenBroken'
    BY <2>1 DEF SilentWhenBroken
  <2>4. PICK to \in Ended : turn' = [turn EXCEPT ![t] = to]
    BY <2>1
  <2> QED
    BY <2>1, <2>2, <2>3, <2>4, TurnCeases
<1> QED
  BY <1>1, <1>2, <1>3, FirstStepOfTurn, PipelineTranscript DEF TurnStep

\* A turn is created while the last one, if any, was answered.
LEMMA StartTranscript ==
    ASSUME TypeInv, TurnInv, TranscriptInv, NEW isText, StartTurn(isText),
           UNCHANGED <<history, conn, reader, state, onwire>>,
           \A t \in Turns : turn[t] \notin Stopping,
           \/ state = "listening"
           \/ reader = "receive" /\ conn \in {"open", "gone"}
    PROVE  TranscriptInv'
<1>1. /\ FreeTurn \in Turns /\ turn[FreeTurn] \in Ended
      /\ \A u \in Turns : turn'[u] = IF u = FreeTurn THEN "new" ELSE turn[u]
  BY StartedTurn DEF TurnInv
<1>2. turnTask' = FreeTurn /\ ready' = Append(ready, FreeTurn)
  BY DEF StartTurn
<1>3. HistoryAlternates' /\ SilentWhenBroken'
  BY DEF TranscriptInv, HistoryAlternates, SilentWhenBroken
<1>4. OddWhileAnswering' /\ StoppingIsLast'
  BY <1>1 DEF TranscriptInv, OddWhileAnswering, StoppingIsLast
<1>5. NewestIsKnown'
  BY <1>1, <1>2, AppendProperties DEF NewestIsKnown, TypeInv, TaskType
<1>6. UnansweredIsLast'
  BY <1>1 DEF TranscriptInv, UnansweredIsLast, Answering
<1> QED
  BY <1>3, <1>4, <1>5, <1>6 DEF TranscriptInv

\* A cancel ends a task that has not begun, or interrupts a turn behind which
\* none waits.
LEMMA CancelTranscript ==
    ASSUME TypeInv, TurnInv, TranscriptInv, LiveTurn(turnTask),
           CancelTurn(turnTask), reader' \notin Serving,
           UNCHANGED <<history, state, conn, turnTask>>, SilentWhenBroken'
    PROVE  TranscriptInv'
<1>1. /\ turnTask \in Turns /\ turn[turnTask] \notin Ended
      /\ \A u \in Turns :
           turn'[u] = IF u = turnTask THEN CancelledTurn(turnTask) ELSE turn[u]
  BY DEF CancelTurn, LiveTurn, TypeInv, TaskType, ControlType
<1>2. ready = <<>> => ready' = <<>>
  BY <1>1, CancelledTurnTask
<1>3. HistoryAlternates'
  BY DEF TranscriptInv, HistoryAlternates
<1>4. OddWhileAnswering'
  BY <1>1 DEF CancelledTurn, TranscriptInv, OddWhileAnswering
<1>5. CASE turn[turnTask] = "new"
  <2>1. CancelledTurn(turnTask) = "done"
    BY <1>5 DEF CancelledTurn
  <2>2. NewestIsKnown'
    BY <1>1, <2>1 DEF NewestIsKnown, LiveTurn
  <2>3. StoppingIsLast'
    BY <1>1, <1>2, <2>1 DEF TranscriptInv, StoppingIsLast
  <2>4. UnansweredIsLast'
    BY <1>1, <1>2, <1>5, <2>1 DEF TranscriptInv, UnansweredIsLast, Answering
  <2> QED
    BY <1>3, <1>4, <2>2, <2>3, <2>4 DEF TranscriptInv
<1>6. CASE turn[turnTask] # "new"
  <2>1. Active(turnTask)
    BY <1>1, <1>6 DEF TypeInv, TaskType
  <2>2. ready = <<>>
    <3> SUFFICES ASSUME ready # <<>> PROVE FALSE
      OBVIOUS
    <3>1. Len(ready) \in 1 .. Len(ready)
      BY DEF TypeInv, TaskType
    <3> QED
      BY <1>6, <3>1 DEF TranscriptInv, NewestIsKnown, TurnInv, ReadyQueue
  <2>3. ready' = <<>> /\ state # "listening"
    BY <1>1, <1>2, <2>1, <2>2 DEF TurnInv, ActiveIsBusy
  <2> QED
    BY <1>3, <1>4, <2>3
       DEF TranscriptInv, NewestIsKnown, StoppingIsLast, UnansweredIsLast
<1> QED
  BY <1>5, <1>6

LEMMA ReaderTranscript ==
    ASSUME TypeInv, TurnInv, TranscriptInv, Frame \/ ReaderStep
    PROVE  TranscriptInv'
<1>1. CASE ReceiveTurn
  <2>1. \A t \in Turns : turn[t] \notin Stopping
    BY <1>1 DEF ReceiveTurn, Receive, TurnInv, StoppingIsLeaving
  <2> QED
    BY <1>1, <2>1, StartTranscript DEF ReceiveTurn, Receive
<1>2. CASE ReceiveCancel
  <2>1. conn \in {"open", "gone"} /\ conn' = conn /\ reader = "receive"
    BY <1>2 DEF ReceiveCancel, Receive
  <2>2. SilentWhenBroken'
    BY <2>1 DEF SilentWhenBroken
  <2>3. UNCHANGED <<history, state, turnTask>>
    BY <1>2 DEF ReceiveCancel
  <2>4. CASE LiveTurn(turnTask)
    BY <1>2, <2>1, <2>2, <2>3, <2>4, CancelTranscript DEF ReceiveCancel
  <2>5. CASE ~LiveTurn(turnTask)
    BY <1>2, <2>1, <2>2, <2>3, <2>5, TurnsUntouched DEF ReceiveCancel
  <2> QED
    BY <2>4, <2>5
<1>3. CASE Unregister
  <2>1. reader' = "joining" /\ UNCHANGED <<history, state, conn, turnTask>>
    BY <1>3 DEF Unregister, Goto
  <2>2. SilentWhenBroken'
    BY <2>1 DEF SilentWhenBroken
  <2>3. CASE LiveTurn(turnTask)
    BY <1>3, <2>1, <2>2, <2>3, CancelTranscript DEF Unregister
  <2>4. CASE ~LiveTurn(turnTask)
    BY <1>3, <2>1, <2>2, <2>4, TurnsUntouched DEF Unregister
  <2> QED
    BY <2>3, <2>4
<1>4. CASE ReceiveAudio
  <2>1. /\ reader = "receive" /\ conn \in {"open", "gone"}
        /\ UNCHANGED <<turn, ready, turnTask, history, conn, onwire>>
    BY <1>4 DEF ReceiveAudio, Receive, Send
  <2>2. HistoryAlternates' /\ OddWhileAnswering' /\ NewestIsKnown' /\ StoppingIsLast'
    BY <2>1 DEF TranscriptInv, HistoryAlternates, OddWhileAnswering,
       NewestIsKnown, LiveTurn, StoppingIsLast
  <2>3. UnansweredIsLast' /\ SilentWhenBroken'
    BY <2>1 DEF TranscriptInv, UnansweredIsLast, SilentWhenBroken
  <2> QED
    BY <2>2, <2>3 DEF TranscriptInv
<1>5. CASE \/ ReceiveInvalid \/ ReceiveAudioBusy \/ ReceiveFails \/ ReaderSent
           \/ SentListening \/ TurnAwaited \/ CancelSentIdle \/ Evaluated
           \/ SentSummary \/ ReaderSendFails \/ Close \/ Unregistered
  <2>1. UNCHANGED <<turn, ready, turnTask, history>>
    BY <1>5 DEF ReceiveInvalid, ReceiveAudioBusy, ReceiveFails, ReaderSent,
       SentListening, TurnAwaited, CancelSentIdle, Evaluated, SentSummary,
       ReaderSendFails, Close, Unregistered
  <2>2. conn' \in {"broken", "closed"} \/ conn \notin {"broken", "closed"}
    BY <1>5 DEF ReceiveInvalid, ReceiveAudioBusy, Receive, ReceiveFails,
       ReaderSent, SentListening, TurnAwaited, CancelSentIdle, Evaluated,
       SentSummary, ReaderSendFails, Raised, Close, Unregistered
  <2>3. state' = state \/ (state' = "idle" /\ reader = "send_idle" /\ onwire)
    BY <1>5 DEF ReceiveInvalid, ReceiveAudioBusy, ReceiveFails, ReaderSent,
       SentListening, TurnAwaited, CancelSentIdle, Evaluated, SentSummary,
       ReaderSendFails, Close, Unregistered, Sent
  <2>4. reader' \in Serving => reader \in Serving
    BY <1>5 DEF ReceiveInvalid, ReceiveAudioBusy, Receive, ReceiveFails,
       ReaderSent, SentListening, TurnAwaited, CancelSentIdle, Summarize,
       Evaluated, SentSummary, ReaderSendFails, Close, Unregistered, Goto
  <2>5. SilentWhenBroken'
    <3>1. CASE ReceiveFails \/ Close \/ Unregistered
      BY <3>1 DEF ReceiveFails, Close, Unregistered, Goto, SilentWhenBroken
    <3>2. CASE ReaderSendFails
      BY <3>2 DEF ReaderSendFails, Raised, SilentWhenBroken
    <3>3. CASE \/ ReceiveInvalid \/ ReceiveAudioBusy \/ ReaderSent
               \/ SentListening \/ TurnAwaited \/ CancelSentIdle \/ Evaluated
               \/ SentSummary
      <4>1. conn' = conn /\ (onwire' => onwire)
        BY <3>3 DEF ReceiveInvalid, ReceiveAudioBusy, Receive, ReaderSent,
           SentListening, TurnAwaited, CancelSentIdle, Evaluated, SentSummary,
           Sent, Send
      <4>2. reader \notin {"leaving", "joining", "left"}
        BY <3>3 DEF ReceiveInvalid, ReceiveAudioBusy, Receive, ReaderSent,
           SentListening, TurnAwaited, CancelSentIdle, Evaluated, SentSummary,
           Goto
      <4> QED
        BY <4>1, <4>2 DEF TranscriptInv, SilentWhenBroken
    <3> QED
      BY <1>5, <3>1, <3>2, <3>3
  <2> QED
    BY <2>1, <2>2, <2>3, <2>4, <2>5, TurnsUntouched
<1> QED
  BY <1>1, <1>2, <1>3, <1>4, <1>5 DEF Frame, ReaderStep

LEMMA TranscriptStep ==
    ASSUME TypeInv, TurnInv, TranscriptInv, [Next]_vars PROVE TranscriptInv'
<1>1. CASE ClientLeaves \/ Transmit \/ FallQuiet \/ UNCHANGED vars
  <2>1. /\ UNCHANGED <<turn, ready, turnTask, history, state, reader>>
        /\ conn' \in {"broken", "closed"} \/ conn \notin {"broken", "closed"}
    BY <1>1 DEF ClientLeaves, Transmit, FallQuiet, vars, TypeInv, ControlType
  <2>2. SilentWhenBroken'
    BY <1>1 DEF ClientLeaves, Transmit, FallQuiet, vars, TranscriptInv,
       SilentWhenBroken
  <2> QED
    BY <2>1, <2>2, TurnsUntouched
<1>2. CASE Frame \/ ReaderStep
  BY <1>2, ReaderTranscript
<1>3. ASSUME NEW t \in Turns, TurnStep(t) PROVE TranscriptInv'
  BY <1>3, TurnTranscript
<1>4. ASSUME NEW w \in Watchers, WatcherStep(w) PROVE TranscriptInv'
  <2>1. CASE WatcherFires(w)
    <3>1. \A t \in Turns : turn[t] \notin Stopping
      BY <2>1 DEF WatcherFires, TurnInv, ActiveIsBusy
    <3> QED
      BY <2>1, <3>1, StartTranscript DEF WatcherFires
  <2>2. CASE WatcherRuns(w) \/ WatcherEnds(w) \/ WatcherAborts(w)
    <3>1. UNCHANGED <<turn, ready, turnTask, history, state, reader, conn, onwire>>
      BY <2>2 DEF WatcherRuns, WatcherEnds, WatcherAborts
    <3>2. SilentWhenBroken'
      BY <3>1 DEF TranscriptInv, SilentWhenBroken
    <3> QED
      BY <3>1, <3>2, TurnsUntouched
  <2> QED
    BY <1>4, <2>1, <2>2 DEF WatcherStep
<1> QED
  BY <1>1, <1>2, <1>3, <1>4 DEF Next

\* Whatever is cancelled, fails or races, the transcript that prompts the tutor
\* alternates between the learner and the tutor: a turn that ended unanswered
\* is the session's last.
THEOREM TranscriptAlternates == Spec => []HistoryAlternates
<1>1. Init => TypeInv /\ TurnInv /\ TranscriptInv
  BY TypeInit, TurnInit, TranscriptInit
<1>2. /\ TypeInv /\ TurnInv /\ TranscriptInv
      /\ [Next]_vars
      => (TypeInv /\ TurnInv /\ TranscriptInv)'
  BY TypeStep, TurnInvStep, TranscriptStep
<1>3. TranscriptInv => HistoryAlternates
  BY DEF TranscriptInv
<1> QED
  BY <1>1, <1>2, <1>3, PTL DEF Spec

-----------------------------------------------------------------------------
(* No speech is lost.                                                      *)
(*                                                                         *)
(* While frames are served, a chunk is buffered, or heard by the turn that *)
(* is being transcribed, or quoted by one entry of the history.            *)

Hears(t, c) == turn[t] = "stt" /\ c \in heard[t]
Quotes(i, c) == c \in history[i].chunks
Heard(c) == \E t \in Turns : Hears(t, c)
Quoted(c) == \E i \in 1 .. Len(history) : Quotes(i, c)

QuotedOnce ==
    \A i, j \in 1 .. Len(history) : \A c :
        Quotes(i, c) /\ Quotes(j, c) => i = j

EachSomewhere ==
    /\ \A c \in 1 .. chunks : c \in audio \/ Heard(c) \/ Quoted(c)
    /\ \A c : Quoted(c) => c \in 1 .. chunks

NoneTwice ==
    /\ \A c \in audio : ~Heard(c) /\ ~Quoted(c)
    /\ \A c : ~(Heard(c) /\ Quoted(c))

SpeechInv == reader \in Serving => QuotedOnce /\ EachSomewhere /\ NoneTwice

LEMMA SpeechInit == Init => SpeechInv
<1> SUFFICES ASSUME Init PROVE SpeechInv
  OBVIOUS
<1>1. /\ history = <<>> /\ 1 .. Len(history) = {} /\ chunks = 0
      /\ 1 .. chunks = {} /\ audio = {}
  BY DEF Init
<1>2. \A c : ~Quoted(c)
  BY <1>1 DEF Quoted
<1> QED
  BY <1>1, <1>2 DEF SpeechInv, QuotedOnce, EachSomewhere, NoneTwice

\* The entry that is said is the only news of the history.
LEMMA SayQuotes ==
    ASSUME TypeInv, NEW role, NEW S, Say(role, S)
    PROVE  /\ \A c : Quoted(c)' <=> Quoted(c) \/ c \in S
           /\ (\A c \in S : ~Quoted(c)) /\ QuotedOnce => QuotedOnce'
<1>0. history \in Seq(EntryRecord)
  BY DEF TypeInv, SpeechType
<1> PICK n \in Nat : n = Len(history)
  BY <1>0
<1>1. /\ Len(history) = n /\ Len(history') = n + 1
      /\ \A i \in 1 .. n + 1 : i \in 1 .. n \/ i = n + 1
      /\ \A i \in 1 .. n : i \in 1 .. n + 1
      /\ n + 1 \in 1 .. n + 1
  BY <1>0 DEF Say
<1>2. /\ history'[n + 1] = Entry(role, S)
      /\ \A i \in 1 .. n : history'[i] = history[i]
  BY <1>0, AppendProperties DEF Say
<1>3. \A c : Quotes(n + 1, c)' <=> c \in S
  BY <1>1, <1>2 DEF Quotes, Entry
<1>4. \A i \in 1 .. n : \A c : Quotes(i, c)' <=> Quotes(i, c)
  BY <1>1, <1>2 DEF Quotes
<1>5. \A c : Quoted(c)' <=> Quoted(c) \/ c \in S
  BY <1>1, <1>3, <1>4 DEF Quoted
<1>6. ASSUME \A c \in S : ~Quoted(c), QuotedOnce PROVE QuotedOnce'
  BY <1>1, <1>3, <1>4, <1>6 DEF QuotedOnce, Quoted
<1> QED
  BY <1>5, <1>6

\* A step that takes, transcribes and buffers nothing.
LEMMA SpeechUntouched ==
    ASSUME SpeechInv, UNCHANGED <<audio, chunks>>,
           reader' \in Serving => reader \in Serving,
           reader' \in Serving => \A t \in Turns :
               /\ turn'[t] = "stt" <=> turn[t] = "stt"
               /\ turn[t] = "stt" => heard'[t] = heard[t],
           \A c : Quoted(c)' <=> Quoted(c),
           QuotedOnce => QuotedOnce'
    PROVE  SpeechInv'
<1> SUFFICES ASSUME reader' \in Serving
             PROVE  QuotedOnce' /\ EachSomewhere' /\ NoneTwice'
  BY DEF SpeechInv
<1>1. \A t \in Turns : \A c : Hears(t, c)' <=> Hears(t, c)
  BY DEF Hears
<1>2. \A c : Heard(c)' <=> Heard(c)
  BY <1>1 DEF Heard
<1> QED
  BY <1>2 DEF SpeechInv, EachSomewhere, NoneTwice

\* The turn that runs hears alone.
LEMMA HearsAlone ==
    ASSUME TurnInv, NEW t \in Turns, Active(t)
    PROVE  \A c : Heard(c) <=> Hears(t, c)
BY DEF TurnInv, OneActive, Heard, Hears

\* A chunk that is buffered is a new one.
LEMMA BufferedOnce ==
    ASSUME TypeInv, SpeechInv, NEW decodes, BufferChunk(decodes),
           UNCHANGED <<turn, heard, history>>, reader \in Serving
    PROVE  SpeechInv'
<1>1. \A c : (Heard(c)' <=> Heard(c)) /\ (Quoted(c)' <=> Quoted(c))
  BY DEF Heard, Hears, Quoted, Quotes
<1>2. QuotedOnce'
  BY DEF SpeechInv, QuotedOnce, Quotes
<1>3. CASE UNCHANGED <<audio, chunks>>
  BY <1>1, <1>2, <1>3 DEF SpeechInv, EachSomewhere, NoneTwice
<1>4. CASE audio' = audio \cup {chunks + 1} /\ chunks' = chunks + 1
  <2>1. /\ chunks \in Nat
        /\ \A c \in 1 .. chunks + 1 : c \in 1 .. chunks \/ c = chunks + 1
        /\ \A c \in 1 .. chunks : c \in 1 .. chunks + 1
        /\ chunks + 1 \notin 1 .. chunks
    BY DEF TypeInv, ControlType, SpeechType
  <2>2. ~Heard(chunks + 1) /\ ~Quoted(chunks + 1)
    BY <2>1 DEF Heard, Hears, SpeechInv, EachSomewhere, TypeInv, SpeechType
  <2> QED
    BY <1>1, <1>2, <1>4, <2>1, <2>2 DEF SpeechInv, EachSomewhere, NoneTwice
<1> QED
  BY <1>3, <1>4 DEF BufferChunk

LEMMA TurnSpeech ==
    ASSUME TypeInv, TurnInv, SpeechInv, NEW t \in Turns, TurnStep(t)
    PROVE  SpeechInv'
<1>1. CASE SentProcessing(t) /\ text[t]
  <2>1. /\ turn[t] = "send_processing" /\ Say("user", {})
        /\ turn' = [turn EXCEPT ![t] = "send_user"]
        /\ UNCHANGED <<audio, heard, chunks, reader>>
    BY <1>1 DEF SentProcessing, At
  <2>2. \A u \in Turns : turn'[u] = "stt" <=> turn[u] = "stt"
    BY <2>1 DEF TypeInv, TaskType
  <2> QED
    BY <2>1, <2>2, SayQuotes, SpeechUntouched
<1>2. CASE SentProcessing(t) /\ ~text[t]
  <2>1. /\ turn[t] = "send_processing" /\ TakeAudio(t)
        /\ turn' = [turn EXCEPT ![t] = "stt"]
        /\ UNCHANGED <<history, chunks, reader>>
    BY <1>2 DEF SentProcessing, At
  <2>2. \A c : ~Heard(c)
    BY <2>1, HearsAlone DEF Hears
  <2>3. \A u \in Turns : turn'[u] = "stt" <=> u = t
    BY <2>1 DEF TypeInv, TaskType, TurnInv, OneActive
  <2>4. heard'[t] = audio /\ audio' = {}
    BY <2>1 DEF TakeAudio, TypeInv, SpeechType
  <2>5. \A c : Heard(c)' <=> c \in audio
    BY <2>3, <2>4 DEF Heard, Hears
  <2>6. /\ \A c : Quoted(c)' <=> Quoted(c)
        /\ QuotedOnce' <=> QuotedOnce
    BY <2>1 DEF Quoted, Quotes, QuotedOnce
  <2> QED
    BY <2>1, <2>2, <2>4, <2>5, <2>6 DEF SpeechInv, EachSomewhere, NoneTwice
<1>3. CASE Transcribed(t)
  <2>1. /\ turn[t] = "stt" /\ Say("user", heard[t])
        /\ turn' = [turn EXCEPT ![t] = "send_user"]
        /\ UNCHANGED <<audio, chunks, reader>>
    BY <1>3 DEF Transcribed, At
  <2>2. \A c : Heard(c) <=> c \in heard[t]
    BY <2>1, HearsAlone DEF Hears
  <2>3. \A u \in Turns : turn'[u] # "stt"
    BY <2>1 DEF TypeInv, TaskType, TurnInv, OneActive
  <2>4. \A c : ~Heard(c)'
    BY <2>3 DEF Heard, Hears
  <2>5. \A c : Quoted(c)' <=> Quoted(c) \/ Heard(c)
    BY <2>1, <2>2, SayQuotes
  <2>6. (\A c : ~(Heard(c) /\ Quoted(c))) /\ QuotedOnce => QuotedOnce'
    BY <2>1, <2>2, SayQuotes
  <2>7. \A c : Heard(c) => c \in 1 .. chunks
    BY <2>2 DEF TypeInv, SpeechType
  <2> QED
    BY <2>1, <2>4, <2>5, <2>6, <2>7 DEF SpeechInv, EachSomewhere, NoneTwice
<1>4. CASE Replied(t)
  <2>1. /\ turn[t] = "llm" /\ Say("assistant", {})
        /\ turn' = [turn EXCEPT ![t] = "send_ai"]
        /\ UNCHANGED <<audio, heard, chunks, reader>>
    BY <1>4 DEF Replied, At
  <2>2. \A u \in Turns : turn'[u] = "stt" <=> turn[u] = "stt"
    BY <2>1 DEF TypeInv, TaskType
  <2> QED
    BY <2>1, <2>2, SayQuotes, SpeechUntouched
<1>5. CASE \/ RefuseTurn(t) \/ BeginTurn(t) \/ WatcherJoined(t) \/ SentUser(t)
           \/ SentReply(t) \/ SentSpeaking(t) \/ Synthesized(t) \/ SentAudio(t)
           \/ SentIdle(t) \/ Interrupted(t) \/ TurnSendFails(t)
  <2>1. /\ UNCHANGED <<audio, heard, chunks, history, reader>>
        /\ turn[t] # "stt"
        /\ \E p \in TurnPositions \ {"stt"} : turn' = [turn EXCEPT ![t] = p]
    <3>1. CASE RefuseTurn(t) \/ BeginTurn(t)
      BY <3>1 DEF RefuseTurn, BeginTurn, At
    <3>2. CASE WatcherJoined(t) \/ SentUser(t) \/ SentReply(t)
      BY <3>2 DEF WatcherJoined, SentUser, SentReply, At
    <3>3. CASE SentSpeaking(t) \/ Synthesized(t) \/ SentAudio(t)
      BY <3>3 DEF SentSpeaking, Synthesized, SentAudio, At
    <3>4. CASE SentIdle(t) \/ Interrupted(t)
      BY <3>4 DEF SentIdle, Interrupted, At
    <3>5. CASE TurnSendFails(t)
      BY <3>5 DEF TurnSendFails
    <3> QED
      BY <1>5, <3>1, <3>2, <3>3, <3>4, <3>5
  <2>2. \A u \in Turns : turn'[u] = "stt" <=> turn[u] = "stt"
    BY <2>1 DEF TypeInv, TaskType
  <2>3. /\ \A c : Quoted(c)' <=> Quoted(c)
        /\ QuotedOnce => QuotedOnce'
    BY <2>1 DEF Quoted, Quotes, QuotedOnce
  <2> QED
    BY <2>1, <2>2, <2>3, SpeechUntouched
<1> QED
  BY <1>1, <1>2, <1>3, <1>4, <1>5 DEF TurnStep

LEMMA StartSpeech ==
    ASSUME TypeInv, TurnInv, SpeechInv, NEW isText, StartTurn(isText),
           UNCHANGED <<audio, heard, chunks, history, reader>>
    PROVE  SpeechInv'
<1>1. /\ FreeTurn \in Turns /\ turn[FreeTurn] \in Ended
      /\ \A u \in Turns : turn'[u] = IF u = FreeTurn THEN "new" ELSE turn[u]
  BY StartedTurn DEF TurnInv
<1>2. \A u \in Turns : turn'[u] = "stt" <=> turn[u] = "stt"
  BY <1>1
<1>3. /\ \A c : Quoted(c)' <=> Quoted(c)
      /\ QuotedOnce => QuotedOnce'
  BY DEF Quoted, Quotes, QuotedOnce
<1> QED
  BY <1>2, <1>3, SpeechUntouched

LEMMA SpeechStep ==
    ASSUME TypeInv, TurnInv, SpeechInv, [Next]_vars PROVE SpeechInv'
<1>1. CASE \/ ClientLeaves \/ Transmit \/ FallQuiet \/ UNCHANGED vars
           \/ ReceiveInvalid \/ ReceiveAudioBusy \/ ReceiveFails \/ ReaderSent
           \/ TurnAwaited \/ CancelSentIdle \/ Evaluated \/ SentSummary
           \/ ReaderSendFails \/ Close \/ Unregister \/ Unregistered
           \/ ReceiveCancel
           \/ \E w \in Watchers :
                WatcherRuns(w) \/ WatcherEnds(w) \/ WatcherAborts(w)
  <2>1. /\ UNCHANGED <<audio, heard, chunks, history>>
        /\ reader' \in Serving => reader \in Serving /\ turn' = turn
    <3>1. CASE ClientLeaves \/ Transmit \/ FallQuiet \/ UNCHANGED vars
      BY <3>1 DEF ClientLeaves, Transmit, FallQuiet, vars
    <3>2. CASE ReceiveInvalid \/ ReceiveAudioBusy \/ ReceiveFails \/ ReaderSent
      BY <3>2 DEF ReceiveInvalid, ReceiveAudioBusy, ReceiveFails, ReaderSent,
         Receive, Goto
    <3>3. CASE TurnAwaited \/ CancelSentIdle \/ Evaluated \/ SentSummary
      BY <3>3 DEF TurnAwaited, CancelSentIdle, Evaluated, SentSummary,
         Summarize, Goto
    <3>4. CASE ReaderSendFails \/ Close \/ Unregister \/ Unregistered
      BY <3>4 DEF ReaderSendFails, Close, Unregister, Unregistered, Goto
    <3>5. CASE ReceiveCancel
      BY <3>5 DEF ReceiveCancel
    <3>6. ASSUME NEW w \in Watchers,
                 WatcherRuns(w) \/ WatcherEnds(w) \/ WatcherAborts(w)
          PROVE  UNCHANGED <<audio, heard, chunks, history, reader, turn>>
      BY <3>6 DEF WatcherRuns, WatcherEnds, WatcherAborts
    <3> QED
      BY <1>1, <3>1, <3>2, <3>3, <3>4, <3>5, <3>6
  <2>2. /\ \A c : Quoted(c)' <=> Quoted(c)
        /\ QuotedOnce => QuotedOnce'
    BY <2>1 DEF Quoted, Quotes, QuotedOnce
  <2> QED
    BY <2>1, <2>2, SpeechUntouched
<1>2. CASE ReceiveAudio
  <2>1. UNCHANGED <<turn, heard, history>> /\ reader = "receive"
    BY <1>2 DEF ReceiveAudio, Receive
  <2>2. CASE state = "listening"
    <3>1. PICK decodes \in BOOLEAN : BufferChunk(decodes)
      BY <1>2, <2>2 DEF ReceiveAudio
    <3> QED
      BY <2>1, <3>1, BufferedOnce
  <2>3. CASE state # "listening"
    <3>1. UNCHANGED <<audio, chunks>> /\ reader' = "send_listening"
      BY <1>2, <2>3 DEF ReceiveAudio
    <3>2. /\ \A c : Quoted(c)' <=> Quoted(c)
          /\ QuotedOnce => QuotedOnce'
      BY <2>1 DEF Quoted, Quotes, QuotedOnce
    <3> QED
      BY <2>1, <3>1, <3>2, SpeechUntouched
  <2> QED
    BY <2>2, <2>3
<1>3. CASE SentListening
  <2>1. UNCHANGED <<turn, heard, history>> /\ reader = "send_listening"
    BY <1>3 DEF SentListening, Goto
  <2>2. PICK decodes \in BOOLEAN : BufferChunk(decodes)
    BY <1>3 DEF SentListening
  <2> QED
    BY <2>1, <2>2, BufferedOnce
<1>4. CASE ReceiveTurn
  <2>1. PICK isText \in BOOLEAN : StartTurn(isText)
    BY <1>4 DEF ReceiveTurn
  <2> QED
    BY <1>4, <2>1, StartSpeech DEF ReceiveTurn
<1>5. ASSUME NEW t \in Turns, TurnStep(t) PROVE SpeechInv'
  BY <1>5, TurnSpeech
<1>6. ASSUME NEW w \in Watchers, WatcherFires(w) PROVE SpeechInv'
  BY <1>6, StartSpeech DEF WatcherFires
<1> QED
  BY <1>1, <1>2, <1>3, <1>4, <1>5, <1>6 DEF Next, Frame, ReaderStep, WatcherStep

\* A set whose members are all one holds one or none.
LEMMA AtMostOne ==
    ASSUME NEW S, \A x, y \in S : x = y
    PROVE  Cardinality(S) = IF S = {} THEN 0 ELSE 1
<1>1. CASE S = {}
  BY <1>1, FS_EmptySet
<1>2. CASE S # {}
  <2>1. PICK x \in S : S = {x}
    BY <1>2
  <2> QED
    BY <1>2, <2>1, FS_Singleton
<1> QED
  BY <1>1, <1>2

LEMMA SpeechCounted ==
    ASSUME TypeInv, TurnInv, SpeechInv PROVE NoSpeechLost
<1> SUFFICES ASSUME reader \in Serving, NEW c \in 1 .. chunks
             PROVE  Cardinality({t \in Turns : turn[t] = "stt" /\ c \in heard[t]})
                      + Cardinality({i \in 1 .. Len(history) :
                                        c \in history[i].chunks})
                      + (IF c \in audio THEN 1 ELSE 0) = 1
  BY DEF NoSpeechLost
<1> DEFINE H == {t \in Turns : turn[t] = "stt" /\ c \in heard[t]}
           Q == {i \in 1 .. Len(history) : c \in history[i].chunks}
<1>1. Cardinality(H) = IF Heard(c) THEN 1 ELSE 0
  <2>1. \A t, u \in H : t = u
    BY DEF TurnInv, OneActive
  <2>2. H # {} <=> Heard(c)
    BY DEF Heard, Hears
  <2> QED
    BY <2>1, <2>2, AtMostOne
<1>2. Cardinality(Q) = IF Quoted(c) THEN 1 ELSE 0
  <2>1. \A i, j \in Q : i = j
    BY DEF SpeechInv, QuotedOnce, Quotes
  <2>2. Q # {} <=> Quoted(c)
    BY DEF Quoted, Quotes
  <2> QED
    BY <2>1, <2>2, AtMostOne
<1>3. /\ c \in audio \/ Heard(c) \/ Quoted(c)
      /\ ~(Heard(c) /\ Quoted(c))
      /\ c \in audio => ~Heard(c) /\ ~Quoted(c)
  BY DEF SpeechInv, EachSomewhere, NoneTwice
<1> QED
  BY <1>1, <1>2, <1>3

\* Every buffered chunk waits, is being transcribed or was quoted once, for as
\* long as frames are served: mark_audio, begin_turn and process_turn hand the
\* audio over whole, across their suspensions.
THEOREM SpeechIsKept == Spec => []NoSpeechLost
<1>1. Init => TypeInv /\ TurnInv /\ SpeechInv
  BY TypeInit, TurnInit, SpeechInit
<1>2. /\ TypeInv /\ TurnInv /\ SpeechInv
      /\ [Next]_vars
      => (TypeInv /\ TurnInv /\ SpeechInv)'
  BY TypeStep, TurnInvStep, SpeechStep
<1>3. TypeInv /\ TurnInv /\ SpeechInv => NoSpeechLost
  BY SpeechCounted
<1> QED
  BY <1>1, <1>2, <1>3, PTL DEF Spec

-----------------------------------------------------------------------------
(* The client shows the session's state.                                   *)
(*                                                                         *)
(* While frames are served on an open connection, the send queue holds     *)
(* tasks that are at a send, each once, and the frame that is out is the   *)
(* head's.  A state is announced before it is applied, so the client may   *)
(* be ahead of a turn that runs; it agrees when none does.                 *)

In(s, p) == \E i \in 1 .. Len(s) : s[i] = p
Distinct(s) == \A i, j \in 1 .. Len(s) : s[i] = s[j] => i = j

Tasks == Turns \cup {Reader}
Place(p) == IF p = Reader THEN reader ELSE turn[p]
AtSend(p) ==
    IF p = Reader THEN reader \in {"hello", "send_error", "send_listening"}
    ELSE turn[p] \in Sending

QueueInv ==
    /\ \A p : In(sends, p) => p \in Tasks /\ AtSend(p)
    /\ Distinct(sends)
    /\ onwire => sends # <<>> /\ Announces(Head(sends)) \in {"none", shown}

NoTurn == \A t \in Turns : ~Active(t)

\* Nothing has started while the handler greets; a first chunk is announced
\* before any turn that it may start.
ShownInv ==
    /\ reader = "hello" =>
        /\ NoTurn /\ state = "idle" /\ ready = <<>>
        /\ \A w \in Watchers : watch[w] = "done"
    /\ reader = "send_listening" => sends # <<>> /\ Head(sends) = Reader
    /\ NoTurn =>
        /\ reader \in {"receive", "send_error"} => shown = state
        /\ reader = "send_listening" => state = "listening"

Open == conn = "open" /\ reader \in Serving
WireInv == Open => QueueInv /\ ShownInv

LEMMA AppendIn ==
    ASSUME NEW S, NEW s \in Seq(S), NEW p \in S
    PROVE  /\ \A q : In(Append(s, p), q) <=> In(s, q) \/ q = p
           /\ Distinct(s) /\ ~In(s, p) => Distinct(Append(s, p))
           /\ Append(s, p) # <<>>
           /\ s # <<>> => Head(Append(s, p)) = Head(s)
           /\ s = <<>> => Head(Append(s, p)) = p
<1> PICK n \in Nat : n = Len(s)
  OBVIOUS
<1> DEFINE a == Append(s, p)
<1>1. /\ a \in Seq(S) /\ Len(a) = n + 1 /\ a[n + 1] = p
      /\ \A i \in 1 .. n : a[i] = s[i]
  BY AppendProperties
<1>2. /\ \A i \in 1 .. n + 1 : i \in 1 .. n \/ i = n + 1
      /\ \A i \in 1 .. n : i \in 1 .. n + 1
      /\ n + 1 \in 1 .. n + 1
  OBVIOUS
<1>3. /\ a # <<>> /\ Head(a) = a[1]
      /\ s # <<>> => n # 0 /\ Head(s) = s[1]
      /\ s = <<>> => n = 0
  BY <1>1, EmptySeq
<1> HIDE DEF a
<1>4. \A q : In(a, q) <=> In(s, q) \/ q = p
  BY <1>1, <1>2 DEF In
<1>5. Distinct(s) /\ ~In(s, p) => Distinct(a)
  BY <1>1, <1>2 DEF Distinct, In
<1>6. s # <<>> => Head(a) = Head(s)
  <2>1. n # 0 => 1 \in 1 .. n
    OBVIOUS
  <2> QED
    BY <1>1, <1>3, <2>1
<1>7. s = <<>> => Head(a) = p
  BY <1>1, <1>3
<1> QED
  BY <1>3, <1>4, <1>5, <1>6, <1>7 DEF a

LEMMA TailIn ==
    ASSUME NEW S, NEW s \in Seq(S), s # <<>>, Distinct(s)
    PROVE  /\ Tail(s) \in Seq(S) /\ Head(s) \in S /\ In(s, Head(s))
           /\ \A q : In(Tail(s), q) <=> In(s, q) /\ q # Head(s)
           /\ Distinct(Tail(s))
<1> PICK n \in Nat : n + 1 = Len(s)
  BY EmptySeq
<1> DEFINE r == Tail(s)
<1>1. /\ r \in Seq(S) /\ Len(r) = n /\ Head(s) = s[1] /\ Head(s) \in S
      /\ \A i \in 1 .. n : r[i] = s[i + 1]
  BY HeadTailProperties
<1>2. /\ 1 \in 1 .. n + 1 /\ \A i \in 1 .. n : i + 1 \in 1 .. n + 1 /\ i + 1 # 1
      /\ \A i \in 1 .. n + 1 : i = 1 \/ (i - 1 \in 1 .. n /\ (i - 1) + 1 = i)
  OBVIOUS
<1>3. \A i, j \in 1 .. n : i + 1 = j + 1 => i = j
  OBVIOUS
<1> HIDE DEF r
<1>4. \A q : In(r, q) => In(s, q) /\ q # Head(s)
  BY <1>1, <1>2 DEF In, Distinct
<1>5. \A q : In(s, q) /\ q # Head(s) => In(r, q)
  BY <1>1, <1>2 DEF In
<1>6. Distinct(r)
  <2> SUFFICES ASSUME NEW i \in 1 .. n, NEW j \in 1 .. n, r[i] = r[j]
               PROVE  i = j
    BY <1>1 DEF Distinct
  <2>1. s[i + 1] = s[j + 1]
    BY <1>1
  <2> QED
    BY <1>2, <1>3, <2>1 DEF Distinct
<1>7. In(s, Head(s))
  BY <1>1, <1>2 DEF In
<1> QED
  BY <1>1, <1>4, <1>5, <1>6, <1>7 DEF r

\* What a task announces, and whether it is at a send, is told by its place.
LEMMA SamePlace ==
    ASSUME NEW p, Place(p)' = Place(p)
    PROVE  Announces(p)' = Announces(p) /\ (AtSend(p)' <=> AtSend(p))
BY DEF Place, Announces, AtSend

\* The wire is not touched, nor who uses it.
LEMMA QueueStill ==
    ASSUME QueueInv, UNCHANGED wire, TypeInv,
           \A p \in Tasks : AtSend(p) => Place(p)' = Place(p)
    PROVE  QueueInv'
<1>1. \A p \in Tasks : AtSend(p) => AtSend(p)' /\ Announces(p)' = Announces(p)
  BY SamePlace
<1>2. (\A p : In(sends, p) => p \in Tasks /\ AtSend(p))' /\ Distinct(sends)'
  BY <1>1 DEF QueueInv, In, Distinct
<1>3. ASSUME onwire'
      PROVE  sends' # <<>> /\ Announces(Head(sends))' \in {"none", shown'}
  <2>1. onwire /\ sends # <<>>
    BY <1>3 DEF QueueInv
  <2>2. In(sends, Head(sends))
    BY <2>1, TailIn DEF TypeInv, WireType, QueueInv
  <2> QED
    BY <1>1, <2>1, <2>2 DEF QueueInv
<1> QED
  BY <1>2, <1>3 DEF QueueInv

\* p comes to a send, and waits for its turn to send.
LEMMA QueueJoined ==
    ASSUME QueueInv, TypeInv, NEW p \in Tasks, Send(p), ~AtSend(p), AtSend(p)',
           \A q \in Tasks : q # p => Place(q)' = Place(q)
    PROVE  /\ QueueInv'
           /\ sends' # <<>>
           /\ sends # <<>> => Head(sends') = Head(sends)
           /\ sends = <<>> => Head(sends') = p
<1>1. \A q \in Tasks : AtSend(q) => AtSend(q)' /\ Announces(q)' = Announces(q)
  BY SamePlace
<1>2. sends \in Seq(Tasks) /\ sends' = Append(sends, p) /\ UNCHANGED <<onwire, shown>>
  BY DEF TypeInv, WireType, Send, Tasks
<1>3. /\ \A q : In(sends', q) <=> In(sends, q) \/ q = p
      /\ Distinct(sends) /\ ~In(sends, p) => Distinct(sends')
      /\ sends' # <<>>
      /\ sends # <<>> => Head(sends') = Head(sends)
      /\ sends = <<>> => Head(sends') = p
  BY <1>2, AppendIn
<1>4. ~In(sends, p)
  BY DEF QueueInv
<1>5. (\A q : In(sends, q) => q \in Tasks /\ AtSend(q))' /\ Distinct(sends)'
  BY <1>1, <1>3, <1>4 DEF QueueInv
<1>6. ASSUME onwire'
      PROVE  Announces(Head(sends))' \in {"none", shown'}
  <2>1. onwire /\ sends # <<>>
    BY <1>2, <1>6 DEF QueueInv
  <2>2. In(sends, Head(sends))
    BY <1>2, <2>1, TailIn DEF QueueInv
  <2>3. Head(sends) \in Tasks /\ AtSend(Head(sends))
    BY <2>2 DEF QueueInv
  <2>4. Announces(Head(sends)) \in {"none", shown}
    BY <2>1 DEF QueueInv
  <2> QED
    BY <1>1, <1>2, <1>3, <2>1, <2>3, <2>4
<1> QED
  BY <1>3, <1>5, <1>6 DEF QueueInv

\* p's send returns: p leaves, or sends its next frame.
LEMMA QueueLeft ==
    ASSUME QueueInv, TypeInv, NEW p \in Tasks, Sent(p),
           \/ sends' = Tail(sends)
           \/ sends' = Append(Tail(sends), p) /\ AtSend(p)',
           \A q \in Tasks : q # p => Place(q)' = Place(q)
    PROVE  QueueInv'
<1>1. \A q \in Tasks : q # p /\ AtSend(q) => AtSend(q)'
  BY SamePlace
<1>2. sends \in Seq(Tasks) /\ sends # <<>> /\ Head(sends) = p /\ onwire' = FALSE
  BY DEF TypeInv, WireType, Sent, Tasks
<1>3. /\ Tail(sends) \in Seq(Tasks) /\ Distinct(Tail(sends))
      /\ \A q : In(Tail(sends), q) <=> In(sends, q) /\ q # p
  BY <1>2, TailIn DEF QueueInv
<1>4. \A q : In(Tail(sends), q) => q \in Tasks /\ q # p /\ AtSend(q)'
  BY <1>1, <1>3 DEF QueueInv
<1>5. CASE sends' = Tail(sends)
  BY <1>2, <1>3, <1>4, <1>5 DEF QueueInv
<1>6. CASE sends' = Append(Tail(sends), p) /\ AtSend(p)'
  <2>1. /\ \A q : In(sends', q) <=> In(Tail(sends), q) \/ q = p
        /\ Distinct(sends')
    BY <1>3, <1>6, AppendIn
  <2> QED
    BY <1>2, <1>4, <1>6, <2>1 DEF QueueInv
<1> QED
  BY <1>5, <1>6

\* An appended queue is another queue.
LEMMA QueueChanges ==
    ASSUME NEW S, NEW s \in Seq(S), NEW p \in S PROVE Append(s, p) # s
BY AppendProperties

LEMMA WireInit == Init => WireInv
<1> SUFFICES ASSUME Init PROVE QueueInv /\ ShownInv
  BY DEF WireInv
<1>1. /\ \A t \in Turns : turn[t] = "done"
      /\ \A w \in Watchers : watch[w] = "done"
      /\ reader = "hello" /\ ready = <<>> /\ state = "idle" /\ onwire = FALSE
  BY DEF Init
<1>2. sends = <<Reader>> /\ Len(sends) = 1 /\ sends[1] = Reader
  BY DEF Init
<1>3. \A i \in 1 .. Len(sends) : i = 1
  BY <1>2
<1>4. QueueInv
  BY <1>1, <1>2, <1>3 DEF QueueInv, In, Distinct, Tasks, AtSend
<1>5. ShownInv
  BY <1>1 DEF ShownInv, NoTurn
<1> QED
  BY <1>4, <1>5

\* A turn that runs before and after leaves the greeting and the first chunk
\* alone.
LEMMA TurnRunsOn ==
    ASSUME ShownInv, NEW t \in Turns, Active(t), Active(t)', reader' = reader,
           reader = "send_listening" => sends' # <<>> /\ Head(sends') = Reader
    PROVE  ShownInv'
<1>1. ~NoTurn /\ ~NoTurn'
  BY DEF NoTurn
<1> QED
  BY <1>1 DEF ShownInv

\* A step of others that starts and ends no turn.
LEMMA SameTurns ==
    ASSUME ShownInv, UNCHANGED <<reader, wire>>,
           NoTurn' <=> NoTurn, NoTurn => state' = state,
           reader # "hello"
    PROVE  ShownInv'
BY DEF ShownInv

LEMMA TurnWire ==
    ASSUME TypeInv, TurnInv, QueueInv, ShownInv, Open, NEW t \in Turns, TurnStep(t),
           Open'
    PROVE  QueueInv' /\ ShownInv'
<1>0. /\ t \in Tasks /\ t # Reader /\ Reader \in Tasks
      /\ Place(t) = turn[t] /\ (AtSend(t) <=> turn[t] \in Sending)
      /\ Place(t)' = turn'[t] /\ (AtSend(t)' <=> turn'[t] \in Sending)
  BY VoiceAssumption DEF Tasks, Place, AtSend
<1>1. CASE RefuseTurn(t)
  <2>1. /\ turn[t] = "new" /\ turn' = [turn EXCEPT ![t] = "done"]
        /\ ready # <<>> /\ UNCHANGED <<reader, wire, state>>
    BY <1>1 DEF RefuseTurn, At
  <2>2. \A u \in Turns : turn'[u] = IF u = t THEN "done" ELSE turn[u]
    BY <2>1 DEF TypeInv, TaskType
  <2>3. NoTurn' <=> NoTurn
    BY <2>1, <2>2 DEF NoTurn
  <2>4. reader # "hello"
    BY <2>1 DEF ShownInv
  <2>5. \A p \in Tasks : AtSend(p) => Place(p)' = Place(p)
    BY <2>1, <2>2 DEF AtSend, Place, Tasks
  <2> QED
    BY <2>1, <2>3, <2>4, <2>5, QueueStill, SameTurns
<1>2. CASE BeginTurn(t) /\ UNCHANGED wire
  <2>1. /\ turn[t] = "new" /\ turn' = [turn EXCEPT ![t] = "join"]
        /\ ready # <<>> /\ reader' = reader
    BY <1>2, <1>0 DEF BeginTurn, At, Send, TypeInv, WireType
  <2>2. \A u \in Turns : turn'[u] = IF u = t THEN "join" ELSE turn[u]
    BY <2>1 DEF TypeInv, TaskType
  <2>3. ~NoTurn' /\ reader # "hello"
    BY <2>1, <2>2 DEF NoTurn, ShownInv
  <2>4. \A p \in Tasks : AtSend(p) => Place(p)' = Place(p)
    BY <2>1, <2>2 DEF AtSend, Place, Tasks
  <2>5. QueueInv'
    BY <1>2, <2>4, QueueStill
  <2>6. ShownInv'
    BY <1>2, <2>1, <2>3 DEF ShownInv
  <2> QED
    BY <2>5, <2>6
<1>3. CASE /\ BeginTurn(t) \/ WatcherJoined(t) \/ Transcribed(t) \/ Replied(t)
              \/ Synthesized(t)
           /\ Send(t)
  <2>1. PICK to \in Sending \cap Pipeline :
          /\ turn' = [turn EXCEPT ![t] = to]
          /\ turn[t] \notin Sending /\ turn[t] \notin Stopping /\ reader' = reader
          /\ turn[t] = "new" => ready # <<>>
          /\ turn[t] # "new" => turn[t] \in Pipeline
    <3>1. CASE BeginTurn(t)
      <4>1. turn' = [turn EXCEPT ![t] = "send_processing"]
        BY <1>3, <3>1, QueueChanges DEF BeginTurn, At, Send, TypeInv, WireType
      <4> QED
        BY <3>1, <4>1 DEF BeginTurn, At
    <3>2. CASE WatcherJoined(t) \/ Transcribed(t) \/ Replied(t) \/ Synthesized(t)
      BY <3>2 DEF WatcherJoined, Transcribed, Replied, Synthesized, At
    <3> QED
      BY <1>3, <3>1, <3>2
  <2>2. \A u \in Turns : turn'[u] = IF u = t THEN to ELSE turn[u]
    BY <2>1 DEF TypeInv, TaskType
  <2>3. \A q \in Tasks : q # t => Place(q)' = Place(q)
    BY <2>1, <2>2 DEF Place, Tasks
  <2>4. ~AtSend(t) /\ AtSend(t)'
    BY <1>0, <2>1, <2>2
  <2>5. /\ QueueInv' /\ sends' # <<>>
        /\ sends # <<>> => Head(sends') = Head(sends)
    BY <1>0, <1>3, <2>3, <2>4, QueueJoined
  <2>6. ~NoTurn' /\ reader # "hello"
    BY <2>1, <2>2 DEF NoTurn, ShownInv
  <2>7. ShownInv'
    BY <2>1, <2>5, <2>6 DEF ShownInv
  <2> QED
    BY <2>5, <2>7
<1>4. CASE \/ SentProcessing(t) \/ SentUser(t) \/ SentReply(t)
           \/ SentSpeaking(t) \/ SentAudio(t)
  <2>1. PICK to \in Pipeline :
          /\ Sent(t) /\ reader' = reader
          /\ turn' = [turn EXCEPT ![t] = to] /\ turn[t] \in Pipeline
          /\ \/ sends' = Tail(sends)
             \/ sends' = Append(Tail(sends), t) /\ to \in Sending
    BY <1>4 DEF SentProcessing, SentUser, SentReply, SentSpeaking, SentAudio,
       At, Release, SendNext
  <2>2. \A u \in Turns : turn'[u] = IF u = t THEN to ELSE turn[u]
    BY <2>1 DEF TypeInv, TaskType
  <2>3. \A q \in Tasks : q # t => Place(q)' = Place(q)
    BY <2>1, <2>2 DEF Place, Tasks
  <2>4. QueueInv'
    BY <1>0, <2>1, <2>2, <2>3, QueueLeft
  <2>5. reader # "send_listening" /\ reader # "hello"
    BY <1>0, <2>1 DEF ShownInv, NoTurn, Sent
  <2>6. ~NoTurn'
    BY <2>2 DEF NoTurn
  <2> QED
    BY <2>1, <2>4, <2>5, <2>6 DEF ShownInv
<1>5. CASE SentIdle(t)
  <2>1. /\ Sent(t) /\ reader' = reader /\ shown' = shown /\ state' = "idle"
        /\ turn' = [turn EXCEPT ![t] = "done"] /\ sends' = Tail(sends)
        /\ turn[t] \in {"send_idle", "send_cancelled"}
    BY <1>5 DEF SentIdle, At, Release
  <2>2. \A u \in Turns : turn'[u] = IF u = t THEN "done" ELSE turn[u]
    BY <2>1 DEF TypeInv, TaskType
  <2>3. \A q \in Tasks : q # t => Place(q)' = Place(q)
    BY <2>1, <2>2 DEF Place, Tasks
  <2>4. QueueInv'
    BY <1>0, <2>1, <2>3, QueueLeft
  <2>5. reader # "send_listening" /\ reader # "hello"
    BY <1>0, <2>1 DEF ShownInv, NoTurn, Sent
  <2>6. shown = "idle"
    BY <1>0, <2>1 DEF QueueInv, Sent, Announces
  <2> QED
    BY <2>1, <2>4, <2>5, <2>6 DEF ShownInv
<1>6. CASE Interrupted(t) \/ TurnSendFails(t)
  <2>1. turn[t] \notin Stopping
    BY DEF Open, TurnInv, StoppingIsLeaving
  <2>2. conn = "open"
    BY DEF Open
  <2> QED
    BY <1>6, <2>1, <2>2 DEF Interrupted, TurnSendFails, Raised, At
<1>7. BeginTurn(t) => UNCHANGED wire \/ Send(t)
  BY DEF BeginTurn
<1>8. \/ WatcherJoined(t) \/ Transcribed(t) \/ Replied(t) \/ Synthesized(t)
      => Send(t)
  BY DEF WatcherJoined, Transcribed, Replied, Synthesized
<1> QED
  BY <1>1, <1>2, <1>3, <1>4, <1>5, <1>6, <1>7, <1>8 DEF TurnStep

\* A connection that is left is not opened again, and a handler that leaves
\* serves no more.
LEMMA ConnNeverReopens == ASSUME Next, conn' = "open" PROVE conn = "open"
<1>1. CASE Frame
  BY <1>1 DEF Frame, ReceiveInvalid, ReceiveAudioBusy, ReceiveAudio,
     ReceiveTurn, ReceiveCancel, Receive
<1>2. CASE ReaderStep
  BY <1>2 DEF ReaderStep, ReceiveFails, ReaderSent, SentListening, TurnAwaited,
     CancelSentIdle, Evaluated, SentSummary, ReaderSendFails, Close,
     Unregister, Unregistered, Raised
<1>3. CASE ClientLeaves \/ Transmit \/ FallQuiet
  BY <1>3 DEF ClientLeaves, Transmit, FallQuiet
<1>4. ASSUME NEW t \in Turns, TurnStep(t) PROVE conn = "open"
  BY <1>4 DEF TurnStep, RefuseTurn, BeginTurn, WatcherJoined, SentProcessing,
     Transcribed, SentUser, Replied, SentReply, SentSpeaking, Synthesized,
     SentAudio, SentIdle, Interrupted, TurnSendFails, Raised
<1>5. ASSUME NEW w \in Watchers, WatcherStep(w) PROVE conn = "open"
  BY <1>5 DEF WatcherStep, WatcherRuns, WatcherEnds, WatcherAborts, WatcherFires
<1> QED
  BY <1>1, <1>2, <1>3, <1>4, <1>5 DEF Next

LEMMA ServingEnds == ASSUME Next, reader' \in Serving PROVE reader \in Serving
<1>1. CASE Frame
  BY <1>1 DEF Frame, ReceiveInvalid, ReceiveAudioBusy, ReceiveAudio,
     ReceiveTurn, ReceiveCancel, Receive
<1>2. CASE ReaderStep
  BY <1>2 DEF ReaderStep, ReceiveFails, ReaderSent, SentListening, TurnAwaited,
     CancelSentIdle, Evaluated, SentSummary, ReaderSendFails, Close,
     Unregister, Unregistered, Goto, Summarize
<1>3. CASE ClientLeaves \/ Transmit \/ FallQuiet
  BY <1>3 DEF ClientLeaves, Transmit, FallQuiet
<1>4. ASSUME NEW t \in Turns, TurnStep(t) PROVE reader \in Serving
  BY <1>4 DEF TurnStep, RefuseTurn, BeginTurn, WatcherJoined, SentProcessing,
     Transcribed, SentUser, Replied, SentReply, SentSpeaking, Synthesized,
     SentAudio, SentIdle, Interrupted, TurnSendFails
<1>5. ASSUME NEW w \in Watchers, WatcherStep(w) PROVE reader \in Serving
  BY <1>5 DEF WatcherStep, WatcherRuns, WatcherEnds, WatcherAborts, WatcherFires
<1> QED
  BY <1>1, <1>2, <1>3, <1>4, <1>5 DEF Next

\* A turn that is created is not at a send, and does not run yet.
LEMMA StartWire ==
    ASSUME TypeInv, TurnInv, QueueInv, ShownInv, NEW isText, StartTurn(isText),
           UNCHANGED <<reader, wire, state>>, reader # "hello"
    PROVE  QueueInv' /\ ShownInv'
<1>1. /\ FreeTurn \in Turns /\ turn[FreeTurn] \in Ended
      /\ \A u \in Turns : turn'[u] = IF u = FreeTurn THEN "new" ELSE turn[u]
  BY StartedTurn DEF TurnInv
<1>2. NoTurn' <=> NoTurn
  BY <1>1 DEF NoTurn
<1>3. \A p \in Tasks : AtSend(p) => Place(p)' = Place(p)
  BY <1>1 DEF AtSend, Place, Tasks
<1> QED
  BY <1>2, <1>3, QueueStill, SameTurns

\* The handler comes to a send from a frame.
LEMMA ReaderJoins ==
    ASSUME TypeInv, QueueInv, Send(Reader), reader = "receive",
           reader' \in {"send_error", "send_listening"}, turn' = turn
    PROVE  /\ QueueInv' /\ sends' # <<>>
           /\ sends = <<>> => Head(sends') = Reader
<1>1. /\ Reader \in Tasks /\ ~AtSend(Reader) /\ AtSend(Reader)'
      /\ \A q \in Tasks : q # Reader => Place(q)' = Place(q)
  BY DEF Tasks, AtSend, Place
<1> QED
  BY <1>1, QueueJoined

\* Nobody sends while no turn runs and the handler reads.
LEMMA NobodySends ==
    ASSUME TypeInv, QueueInv, NoTurn, reader = "receive" PROVE sends = <<>>
<1>1. \A p \in Tasks : ~AtSend(p)
  BY DEF NoTurn, AtSend, Tasks
<1>2. \A p : ~In(sends, p)
  BY <1>1 DEF QueueInv
<1> QED
  BY <1>2, TailIn DEF QueueInv, TypeInv, WireType

LEMMA FrameWire ==
    ASSUME TypeInv, TurnInv, QueueInv, ShownInv, Open, Open', Frame
    PROVE  QueueInv' /\ ShownInv'
<1>1. CASE ReceiveInvalid \/ ReceiveAudioBusy
  <2>1. /\ Send(Reader) /\ reader = "receive" /\ reader' = "send_error"
        /\ UNCHANGED <<turn, state, shown>>
    BY <1>1 DEF ReceiveInvalid, ReceiveAudioBusy, Receive, Send
  <2>2. NoTurn' <=> NoTurn
    BY <2>1 DEF NoTurn
  <2>3. QueueInv'
    BY <2>1, ReaderJoins
  <2> QED
    BY <2>1, <2>2, <2>3 DEF ShownInv
<1>2. CASE ReceiveAudio
  <2>1. /\ state \notin Busy /\ reader = "receive" /\ state' = "listening"
        /\ turn' = turn
    BY <1>2 DEF ReceiveAudio, Receive
  <2>2. NoTurn
    BY <2>1 DEF NoTurn, TurnInv, ActiveIsBusy
  <2>3. NoTurn'
    BY <2>1, <2>2 DEF NoTurn
  <2>4. shown = state /\ sends = <<>>
    BY <2>1, <2>2, NobodySends DEF ShownInv
  <2>5. CASE state = "listening"
    <3>1. UNCHANGED <<reader, wire>>
      BY <1>2, <2>5 DEF ReceiveAudio
    <3>2. \A p \in Tasks : Place(p)' = Place(p)
      BY <2>1, <3>1 DEF Place
    <3>3. QueueInv'
      BY <3>1, <3>2, QueueStill
    <3> QED
      BY <2>1, <2>4, <2>5, <3>1, <3>3 DEF ShownInv
  <2>6. CASE state # "listening"
    <3>1. Send(Reader) /\ reader' = "send_listening"
      BY <1>2, <2>6 DEF ReceiveAudio
    <3>2. QueueInv' /\ sends' # <<>> /\ Head(sends') = Reader
      BY <2>1, <2>4, <3>1, ReaderJoins
    <3> QED
      BY <2>1, <3>1, <3>2 DEF ShownInv
  <2> QED
    BY <2>5, <2>6
<1>3. CASE ReceiveTurn
  <2>1. PICK isText \in BOOLEAN : StartTurn(isText)
    BY <1>3 DEF ReceiveTurn
  <2>2. UNCHANGED <<reader, wire, state>> /\ reader # "hello"
    BY <1>3 DEF ReceiveTurn, Receive
  <2> QED
    BY <2>1, <2>2, StartWire
<1>4. CASE ReceiveCancel
  BY <1>4 DEF ReceiveCancel, Open
<1> QED
  BY <1>1, <1>2, <1>3, <1>4 DEF Frame

LEMMA ReaderWire ==
    ASSUME TypeInv, TurnInv, QueueInv, ShownInv, Open, Open', ReaderStep
    PROVE  QueueInv' /\ ShownInv'
<1>1. CASE ReaderSent \/ SentListening
  <2>1. /\ Sent(Reader) /\ reader' = "receive" /\ sends' = Tail(sends)
        /\ UNCHANGED <<turn, state, shown>>
        /\ reader \in {"hello", "send_error", "send_listening"}
    BY <1>1 DEF ReaderSent, SentListening, Release, Goto
  <2>2. /\ Reader \in Tasks
        /\ \A q \in Tasks : q # Reader => Place(q)' = Place(q)
    BY <2>1 DEF Tasks, Place
  <2>3. QueueInv'
    BY <2>1, <2>2, QueueLeft
  <2>4. Announces(Reader) \in {"none", shown}
    BY <2>1 DEF Sent, QueueInv
  <2>5. NoTurn' <=> NoTurn
    BY <2>1 DEF NoTurn
  <2>6. ASSUME NoTurn PROVE shown = state
    <3>1. CASE reader = "hello"
      BY <2>4, <3>1 DEF Announces, ShownInv
    <3>2. CASE reader = "send_error"
      BY <2>6, <3>2 DEF ShownInv
    <3>3. CASE reader = "send_listening"
      BY <2>4, <2>6, <3>3 DEF Announces, ShownInv
    <3> QED
      BY <2>1, <3>1, <3>2, <3>3
  <2> QED
    BY <2>1, <2>3, <2>5, <2>6 DEF ShownInv
<1>2. CASE \/ ReceiveFails \/ TurnAwaited \/ CancelSentIdle \/ Evaluated
           \/ SentSummary \/ ReaderSendFails \/ Close \/ Unregister
           \/ Unregistered
  BY <1>2 DEF ReceiveFails, TurnAwaited, CancelSentIdle, Evaluated,
     SentSummary, ReaderSendFails, Close, Unregister, Unregistered, Open,
     Goto, Summarize
<1> QED
  BY <1>1, <1>2 DEF ReaderStep

LEMMA WatcherWire ==
    ASSUME TypeInv, TurnInv, QueueInv, ShownInv, NEW w \in Watchers, WatcherStep(w)
    PROVE  QueueInv' /\ ShownInv'
<1>1. reader # "hello"
  BY DEF ShownInv, WatcherStep, WatcherRuns, WatcherEnds, WatcherAborts,
     WatcherFires, WatchAt
<1>2. CASE WatcherRuns(w) \/ WatcherEnds(w) \/ WatcherAborts(w)
  <2>1. UNCHANGED <<turn, state, reader, wire>>
    BY <1>2 DEF WatcherRuns, WatcherEnds, WatcherAborts
  <2>2. NoTurn' <=> NoTurn
    BY <2>1 DEF NoTurn
  <2>3. \A p \in Tasks : Place(p)' = Place(p)
    BY <2>1 DEF Place
  <2> QED
    BY <1>1, <2>1, <2>2, <2>3, QueueStill, SameTurns
<1>3. CASE WatcherFires(w)
  BY <1>1, <1>3, StartWire DEF WatcherFires
<1> QED
  BY <1>2, <1>3 DEF WatcherStep

\* The head's frame goes out: a turn's, or the handler's.
LEMMA TransmitWire ==
    ASSUME TypeInv, QueueInv, ShownInv, Open, Transmit
    PROVE  QueueInv' /\ ShownInv'
<1>1. /\ sends # <<>> /\ UNCHANGED <<turn, state, reader, sends, ready, watch>>
      /\ shown' = IF Announces(Head(sends)) = "none" THEN shown
                  ELSE Announces(Head(sends))
  BY DEF Transmit
<1>2. \A p : Announces(p)' = Announces(p) /\ (AtSend(p)' <=> AtSend(p))
  BY <1>1 DEF Announces, AtSend
<1>3. QueueInv'
  BY <1>1, <1>2 DEF QueueInv, In, Distinct
<1>4. Head(sends) \in Tasks /\ AtSend(Head(sends))
  BY <1>1, TailIn DEF QueueInv, TypeInv, WireType
<1>5. NoTurn' <=> NoTurn
  BY <1>1 DEF NoTurn
<1>6. ASSUME NoTurn, reader \in {"receive", "send_error"} PROVE shown' = shown
  <2>1. Head(sends) = Reader /\ reader = "send_error"
    BY <1>4, <1>6 DEF NoTurn, AtSend, Tasks
  <2> QED
    BY <1>1, <2>1 DEF Announces
<1>7. ShownInv'
  BY <1>1, <1>5, <1>6 DEF ShownInv
<1> QED
  BY <1>3, <1>7

LEMMA WireStep ==
    ASSUME TypeInv, TurnInv, WireInv, [Next]_vars PROVE WireInv'
<1> SUFFICES ASSUME Open' PROVE QueueInv' /\ ShownInv'
  BY DEF WireInv
<1>1. CASE UNCHANGED vars
  <2>1. Open /\ QueueInv /\ ShownInv
    BY <1>1 DEF vars, Open, WireInv
  <2>2. QueueInv'
    <3>1. UNCHANGED wire /\ \A p \in Tasks : Place(p)' = Place(p)
      BY <1>1 DEF vars, Place
    <3> QED
      BY <2>1, <3>1, QueueStill
  <2> QED
    BY <1>1, <2>1, <2>2 DEF vars, ShownInv, NoTurn
<1>2. CASE Next
  <2>1. Open
    <3>1. conn' = "open" => conn = "open"
      BY <1>2, ConnNeverReopens
    <3>2. reader' \in Serving => reader \in Serving
      BY <1>2, ServingEnds
    <3> QED
      BY <3>1, <3>2 DEF Open
  <2>2. QueueInv /\ ShownInv
    BY <2>1 DEF WireInv
  <2>3. CASE Frame
    BY <2>1, <2>2, <2>3, FrameWire
  <2>4. CASE ReaderStep
    BY <2>1, <2>2, <2>4, ReaderWire
  <2>5. CASE Transmit
    BY <2>1, <2>2, <2>5, TransmitWire
  <2>6. CASE ClientLeaves
    BY <2>6 DEF ClientLeaves, Open
  <2>7. CASE FallQuiet
    <3>1. UNCHANGED <<turn, state, reader, wire>> /\ reader # "hello"
      BY <2>2, <2>7 DEF FallQuiet, ShownInv
    <3>2. \A p \in Tasks : Place(p)' = Place(p)
      BY <3>1 DEF Place
    <3>3. NoTurn' <=> NoTurn
      BY <3>1 DEF NoTurn
    <3> QED
      BY <2>2, <3>1, <3>2, <3>3, QueueStill, SameTurns
  <2>8. ASSUME NEW t \in Turns, TurnStep(t) PROVE QueueInv' /\ ShownInv'
    BY <2>1, <2>2, <2>8, TurnWire
  <2>9. ASSUME NEW w \in Watchers, WatcherStep(w) PROVE QueueInv' /\ ShownInv'
    BY <2>2, <2>9, WatcherWire
  <2> QED
    BY <1>2, <2>3, <2>4, <2>5, <2>6, <2>7, <2>8, <2>9 DEF Next
<1> QED
  BY <1>1, <1>2

\* When no turn runs and the handler reads, the last state the client was told
\* is the session's: announcements are sent in the order in which the states
\* are taken, through one lock, and none is left unapplied.
THEOREM ClientIsTold == Spec => []ClientAgreesWhenQuiet
<1>1. Init => TypeInv /\ TurnInv /\ WireInv
  BY TypeInit, TurnInit, WireInit
<1>2. /\ TypeInv /\ TurnInv /\ WireInv
      /\ [Next]_vars
      => (TypeInv /\ TurnInv /\ WireInv)'
  BY TypeStep, TurnInvStep, WireStep
<1>3. WireInv => ClientAgreesWhenQuiet
  BY DEF WireInv, Open, ShownInv, NoTurn, ClientAgreesWhenQuiet
<1> QED
  BY <1>1, <1>2, <1>3, PTL DEF Spec

-----------------------------------------------------------------------------
(* The session never does what the conversation it promises does not do.   *)

Phase ==
    IF ~Open THEN "over" ELSE IF state \in Busy THEN TurnStage ELSE state
Said == IF ~Open THEN 0 ELSE Len(history)

\* The stage of a turn that is at p.
StageAt(p) ==
    CASE p \in {"join", "send_processing", "stt"} -> "transcribing"
      [] p \in {"send_user", "llm"} -> "answering"
      [] p \in {"send_ai", "send_speaking"} -> "answered"
      [] OTHER -> "speaking"

LEMMA Stages ==
    /\ StageAt("send_processing") = "transcribing"
    /\ StageAt("stt") = "transcribing"
    /\ StageAt("send_user") = "answering" /\ StageAt("llm") = "answering"
    /\ StageAt("send_ai") = "answered" /\ StageAt("send_speaking") = "answered"
    /\ StageAt("tts") = "speaking" /\ StageAt("send_idle") = "speaking"
BY DEF StageAt

\* Both are what the conversation is in the eyes of the learner.
LEMMA PhaseIsConversation ==
    /\ Conversation!Init <=> Phase = "idle" /\ Said = 0
    /\ Conversation!Next <=>
        \/ /\ Said' = Said
           /\ \/ Phase = "idle" /\ Phase' = "listening"
              \/ Phase \in {"idle", "listening"} /\ Phase' = "transcribing"
              \/ Phase = "answered" /\ Phase' = "speaking"
              \/ Phase = "speaking" /\ Phase' = "idle"
        \/ /\ Said' = Said + 1
           /\ \/ Phase = "transcribing" /\ Phase' = "answering"
              \/ Phase = "answering" /\ Phase' = "answered"
        \/ Phase # "over" /\ Phase' = "over" /\ Said' = 0
    /\ Conversation!vars = <<Phase, Said>>
    /\ Conversation!vars' = <<Phase', Said'>>
BY DEF Conversation!Init, Conversation!Next, Conversation!vars,
   Conversation!Move, Conversation!Hear, Conversation!TakeTurn,
   Conversation!Quote, Conversation!Answer, Conversation!Speak,
   Conversation!Rest, Conversation!End, Phase, Said, Open

\* While the conversation goes on it is in the stage of the turn that runs, or
\* in the session's state when none does.
PhaseFacts ==
    /\ \A t \in Turns : turn[t] \in Pipeline =>
        Phase = StageAt(turn[t]) /\ state \in Busy
    /\ NoTurn => Phase = state /\ state \in {"idle", "listening"}
    /\ Phase # "over" /\ Said = Len(history)

LEMMA PhaseOfTurn == TypeInv /\ TurnInv /\ Open => PhaseFacts
<1> SUFFICES ASSUME TypeInv, TurnInv, Open PROVE PhaseFacts
  OBVIOUS
<1>1. reader \in Serving /\ conn = "open" /\ state \in States
  BY DEF Open, TypeInv, ControlType
<1>2. ASSUME NEW t \in Turns, turn[t] \in Pipeline
      PROVE  Phase = StageAt(turn[t]) /\ state \in Busy
  <2>1. Running = {t}
    BY <1>2 DEF Running, TurnInv, OneActive
  <2>2. (CHOOSE u \in Running : TRUE) = t
    BY <2>1
  <2>3. TurnStage = StageAt(turn[t])
    BY <2>2 DEF TurnStage, StageAt
  <2>4. state \in Busy
    BY <1>1, <1>2 DEF TurnInv, ActiveIsBusy
  <2> QED
    BY <2>3, <2>4 DEF Phase, Open
<1>3. ASSUME NoTurn PROVE Phase = state /\ state \in {"idle", "listening"}
  <2>1. state \notin Busy
    BY <1>1, <1>3 DEF NoTurn, TurnInv, BusyIsRunning
  <2> QED
    BY <1>1, <2>1 DEF Phase
<1>4. Phase # "over"
  <2>1. CASE NoTurn
    BY <1>3, <2>1
  <2>2. CASE ~NoTurn
    <3>1. PICK t \in Turns : turn[t] \in Pipeline
      BY <1>1, <2>2 DEF NoTurn, TurnInv, StoppingIsLeaving
    <3> QED
      BY <1>2, <3>1 DEF StageAt
  <2> QED
    BY <2>1, <2>2
<1> QED
  BY <1>2, <1>3, <1>4 DEF Said, PhaseFacts

LEMMA PhaseOfNextTurn == (TypeInv /\ TurnInv /\ Open => PhaseFacts)'
BY PhaseOfTurn, PTL

\* A step that moves no turn and says nothing leaves the conversation alone.
LEMMA TurnsStay ==
    ASSUME TypeInv, TurnInv, TypeInv', TurnInv', Open, Open',
           \A t \in Turns : Active(t) => turn'[t] = turn[t],
           \A t \in Turns : Active(t)' => Active(t),
           NoTurn => state' = state, history' = history
    PROVE  Phase' = Phase /\ Said' = Said
<1>1. PhaseFacts /\ PhaseFacts'
  BY PhaseOfTurn, PhaseOfNextTurn
<1>2. Said' = Said
  BY <1>1 DEF PhaseFacts
<1>3. CASE NoTurn
  <2>1. NoTurn'
    BY <1>3 DEF NoTurn
  <2> QED
    BY <1>1, <1>2, <1>3, <2>1 DEF PhaseFacts
<1>4. CASE ~NoTurn
  <2>1. PICK t \in Turns : turn[t] \in Pipeline
    BY <1>4 DEF NoTurn, TurnInv, StoppingIsLeaving, Open
  <2>2. turn'[t] = turn[t]
    BY <2>1
  <2> QED
    BY <1>1, <1>2, <2>1, <2>2 DEF PhaseFacts, StageAt
<1> QED
  BY <1>3, <1>4

\* The turn that runs moves from one place to another, or ends.
LEMMA TurnMoves ==
    ASSUME TypeInv, TurnInv, TypeInv', TurnInv', Open, Open', NEW t \in Turns,
           turn[t] \in Pipeline, NEW to \in Pipeline \cup {"done"},
           turn' = [turn EXCEPT ![t] = to]
    PROVE  /\ Phase = StageAt(turn[t]) /\ Said = Len(history)
           /\ to \in Pipeline => Phase' = StageAt(to)
           /\ to = "done" => Phase' = state'
           /\ Said' = Len(history')
<1>1. PhaseFacts /\ PhaseFacts'
  BY PhaseOfTurn, PhaseOfNextTurn
<1>2. \A u \in Turns : turn'[u] = IF u = t THEN to ELSE turn[u]
  BY DEF TypeInv, TaskType
<1>3. to = "done" => NoTurn'
  BY <1>2 DEF NoTurn, TurnInv, OneActive
<1> QED
  BY <1>1, <1>2, <1>3 DEF PhaseFacts

LEMMA SaidMore ==
    ASSUME TypeInv, NEW role, NEW S, Say(role, S)
    PROVE  Len(history') = Len(history) + 1
<1>1. history \in Seq(EntryRecord)
  BY DEF TypeInv, SpeechType
<1> QED
  BY <1>1 DEF Say

LEMMA TurnConverses ==
    ASSUME TypeInv, TurnInv, TypeInv', TurnInv', Open, Open',
           NEW t \in Turns, TurnStep(t)
    PROVE  [Conversation!Next]_(Conversation!vars)
<1>1. CASE RefuseTurn(t)
  <2>1. /\ turn[t] = "new" /\ turn' = [turn EXCEPT ![t] = "done"]
        /\ UNCHANGED <<state, history>>
    BY <1>1 DEF RefuseTurn, At
  <2>2. \A u \in Turns : turn'[u] = IF u = t THEN "done" ELSE turn[u]
    BY <2>1 DEF TypeInv, TaskType
  <2> QED
    BY <2>1, <2>2, TurnsStay, PhaseIsConversation
<1>2. CASE BeginTurn(t)
  <2>1. PICK p \in {"join", "send_processing"} :
          /\ turn[t] = "new" /\ turn' = [turn EXCEPT ![t] = p]
          /\ state \notin Busy /\ history' = history
    BY <1>2 DEF BeginTurn, At, MayBegin
  <2>2. turn'[t] = p
    BY <2>1 DEF TypeInv, TaskType
  <2>3. PhaseFacts /\ PhaseFacts'
    BY PhaseOfTurn, PhaseOfNextTurn
  <2>4. NoTurn
    BY <2>1 DEF NoTurn, TurnInv, ActiveIsBusy, Open
  <2>5. Phase \in {"idle", "listening"} /\ Phase' = "transcribing" /\ Said' = Said
    BY <2>1, <2>2, <2>3, <2>4 DEF PhaseFacts, StageAt
  <2> QED
    BY <2>5, PhaseIsConversation
<1>3. ASSUME turn[t] \in {"send_processing", "stt"},
             turn' = [turn EXCEPT ![t] = "send_user"],
             Len(history') = Len(history) + 1
      PROVE  [Conversation!Next]_(Conversation!vars)
  <2>1. Phase = StageAt(turn[t]) /\ Phase' = StageAt("send_user")
    BY <1>3, TurnMoves
  <2>2. Said' = Said + 1
    BY <1>3, TurnMoves
  <2> QED
    BY <1>3, <2>1, <2>2, Stages, PhaseIsConversation
<1>4. CASE Replied(t)
  <2>1. /\ turn[t] = "llm" /\ turn' = [turn EXCEPT ![t] = "send_ai"]
        /\ Len(history') = Len(history) + 1
    BY <1>4, SaidMore DEF Replied, At
  <2>2. /\ Phase = StageAt("llm") /\ Phase' = StageAt("send_ai")
        /\ Said' = Said + 1
    BY <2>1, TurnMoves
  <2> QED
    BY <2>2, Stages, PhaseIsConversation
<1>5. ASSUME turn[t] \in Pipeline,
             NEW to \in Pipeline, turn' = [turn EXCEPT ![t] = to],
             history' = history, StageAt(to) = StageAt(turn[t])
      PROVE  [Conversation!Next]_(Conversation!vars)
  BY <1>5, TurnMoves, PhaseIsConversation
<1>6. CASE \/ WatcherJoined(t) \/ SentUser(t) \/ SentReply(t)
           \/ Synthesized(t) \/ SentAudio(t)
  <2>1. PICK to \in Pipeline :
          /\ turn[t] \in Pipeline /\ turn' = [turn EXCEPT ![t] = to]
          /\ history' = history /\ StageAt(to) = StageAt(turn[t])
    BY <1>6 DEF WatcherJoined, SentUser, SentReply, Synthesized, SentAudio,
       At, StageAt
  <2> QED
    BY <1>5, <2>1
<1>7. CASE SentProcessing(t)
  <2>1. \/ /\ turn[t] = "send_processing" /\ Say("user", {})
           /\ turn' = [turn EXCEPT ![t] = "send_user"]
        \/ /\ turn[t] = "send_processing" /\ history' = history
           /\ turn' = [turn EXCEPT ![t] = "stt"]
    BY <1>7 DEF SentProcessing, At
  <2>2. CASE Say("user", {}) /\ turn' = [turn EXCEPT ![t] = "send_user"]
    <3>1. turn[t] = "send_processing" /\ Len(history') = Len(history) + 1
      BY <2>1, <2>2, SaidMore
    <3> QED
      BY <1>3, <2>2, <3>1
  <2>3. CASE history' = history /\ turn' = [turn EXCEPT ![t] = "stt"]
    <3>1. turn[t] = "send_processing"
      BY <2>1
    <3>2. /\ Phase = StageAt("send_processing") /\ Phase' = StageAt("stt")
          /\ Said' = Said
      BY <2>3, <3>1, TurnMoves
    <3> QED
      BY <3>2, Stages, PhaseIsConversation
  <2> QED
    BY <2>1, <2>2, <2>3
<1>8. CASE Transcribed(t)
  BY <1>3, <1>8, SaidMore DEF Transcribed, At
<1>9. CASE SentSpeaking(t)
  <2>1. /\ turn[t] = "send_speaking" /\ turn' = [turn EXCEPT ![t] = "tts"]
        /\ history' = history
    BY <1>9 DEF SentSpeaking, At
  <2>2. /\ Phase = StageAt("send_speaking") /\ Phase' = StageAt("tts")
        /\ Said' = Said
    BY <2>1, TurnMoves
  <2> QED
    BY <2>2, Stages, PhaseIsConversation
<1>10. CASE SentIdle(t)
  <2>1. turn[t] \notin Stopping
    BY DEF Open, TurnInv, StoppingIsLeaving
  <2>2. /\ turn[t] = "send_idle" /\ turn' = [turn EXCEPT ![t] = "done"]
        /\ history' = history /\ state' = "idle"
    BY <1>10, <2>1 DEF SentIdle, At
  <2>3. Phase = StageAt("send_idle") /\ Phase' = "idle" /\ Said' = Said
    BY <2>2, TurnMoves
  <2> QED
    BY <2>3, Stages, PhaseIsConversation
<1>11. CASE Interrupted(t) \/ TurnSendFails(t)
  <2>1. turn[t] \notin Stopping
    BY DEF Open, TurnInv, StoppingIsLeaving
  <2> QED
    BY <1>11, <2>1 DEF Interrupted, TurnSendFails, Raised, At, Open
<1> QED
  BY <1>1, <1>2, <1>4, <1>6, <1>7, <1>8, <1>9, <1>10, <1>11 DEF TurnStep

LEMMA StartConverses ==
    ASSUME TypeInv, TurnInv, TypeInv', TurnInv', Open, Open',
           NEW isText, StartTurn(isText), UNCHANGED <<state, history>>
    PROVE  [Conversation!Next]_(Conversation!vars)
<1>1. /\ FreeTurn \in Turns /\ turn[FreeTurn] \in Ended
      /\ \A u \in Turns : turn'[u] = IF u = FreeTurn THEN "new" ELSE turn[u]
  BY StartedTurn DEF TurnInv
<1> QED
  BY <1>1, TurnsStay, PhaseIsConversation

LEMMA OthersConverse ==
    ASSUME TypeInv, TurnInv, TypeInv', TurnInv', Open, Open',
           \/ Frame \/ ReaderStep \/ ClientLeaves \/ Transmit \/ FallQuiet
           \/ \E w \in Watchers : WatcherStep(w)
    PROVE  [Conversation!Next]_(Conversation!vars)
<1>1. CASE ReceiveAudio
  <2>1. /\ state \notin Busy /\ state' = "listening"
        /\ UNCHANGED <<turn, history>>
    BY <1>1 DEF ReceiveAudio
  <2>2. PhaseFacts /\ PhaseFacts'
    BY PhaseOfTurn, PhaseOfNextTurn
  <2>3. NoTurn /\ NoTurn'
    BY <2>1 DEF NoTurn, TurnInv, ActiveIsBusy, Open
  <2> QED
    BY <2>1, <2>2, <2>3, PhaseIsConversation DEF PhaseFacts
<1>2. CASE ReceiveTurn
  BY <1>2, StartConverses DEF ReceiveTurn
<1>3. CASE ReceiveCancel
  BY <1>3 DEF ReceiveCancel, Open
<1>4. CASE \/ ReceiveInvalid \/ ReceiveAudioBusy \/ ReaderSent \/ SentListening
           \/ ClientLeaves \/ Transmit \/ FallQuiet
  <2>1. UNCHANGED <<turn, state, history>>
    BY <1>4 DEF ReceiveInvalid, ReceiveAudioBusy, ReaderSent, SentListening,
       ClientLeaves, Transmit, FallQuiet
  <2> QED
    BY <2>1, TurnsStay, PhaseIsConversation
<1>5. CASE \/ ReceiveFails \/ TurnAwaited \/ CancelSentIdle \/ Evaluated
           \/ SentSummary \/ ReaderSendFails \/ Close \/ Unregister
           \/ Unregistered
  BY <1>5 DEF ReceiveFails, TurnAwaited, CancelSentIdle, Evaluated,
     SentSummary, ReaderSendFails, Close, Unregister, Unregistered, Open,
     Goto, Summarize
<1>6. ASSUME NEW w \in Watchers, WatcherStep(w)
      PROVE  [Conversation!Next]_(Conversation!vars)
  <2>1. CASE WatcherFires(w)
    BY <2>1, StartConverses DEF WatcherFires
  <2>2. CASE WatcherRuns(w) \/ WatcherEnds(w) \/ WatcherAborts(w)
    <3>1. UNCHANGED <<turn, state, history>>
      BY <2>2 DEF WatcherRuns, WatcherEnds, WatcherAborts
    <3> QED
      BY <3>1, TurnsStay, PhaseIsConversation
  <2> QED
    BY <1>6, <2>1, <2>2 DEF WatcherStep
<1> QED
  BY <1>1, <1>2, <1>3, <1>4, <1>5, <1>6 DEF Frame, ReaderStep

LEMMA ConversationStep ==
    TypeInv /\ TurnInv /\ TypeInv' /\ TurnInv' /\ [Next]_vars
        => [Conversation!Next]_(Conversation!vars)
<1> SUFFICES ASSUME TypeInv, TurnInv, TypeInv', TurnInv', [Next]_vars
             PROVE  [Conversation!Next]_(Conversation!vars)
  OBVIOUS
<1>1. CASE UNCHANGED vars
  BY <1>1 DEF vars, Conversation!vars, TurnStage, Running
<1>2. CASE Next
  <2>1. Open' => Open
    BY <1>2, ConnNeverReopens, ServingEnds DEF Open
  <2>2. CASE ~Open
    BY <2>1, <2>2, PhaseIsConversation DEF Phase, Said
  <2>3. CASE Open /\ ~Open'
    <3>1. Phase # "over"
      BY <2>3, PhaseOfTurn DEF PhaseFacts
    <3> QED
      BY <2>3, <3>1, PhaseIsConversation DEF Phase, Said
  <2>4. CASE Open /\ Open'
    <3>1. ASSUME NEW t \in Turns, TurnStep(t)
          PROVE  [Conversation!Next]_(Conversation!vars)
      BY <2>4, <3>1, TurnConverses
    <3> QED
      BY <1>2, <2>4, <3>1, OthersConverse DEF Next
  <2> QED
    BY <2>2, <2>3, <2>4
<1> QED
  BY <1>1, <1>2

\* The session does nothing that the conversation it promises does not do: one
\* turn at a time, each quoting the learner once, answering once and speaking
\* before it rests, until the learner leaves or ends it.
THEOREM SessionConverses == Spec => Conversation!Safety
<1>1. Init => TypeInv /\ TurnInv
  BY TypeInit, TurnInit
<1>2. TypeInv /\ TurnInv /\ [Next]_vars => (TypeInv /\ TurnInv)'
  BY TypeStep, TurnInvStep
<1>3. Init => Conversation!Init
  BY PhaseIsConversation DEF Init, Phase, Said, Open
<1> QED
  BY <1>1, <1>2, <1>3, ConversationStep, PTL DEF Spec, Conversation!Safety
=============================================================================
