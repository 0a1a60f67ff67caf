-------------------------- MODULE VoiceClientProofs --------------------------
(***************************************************************************)
(* Theorems about VoiceClient for any number of taps, recordings and       *)
(* attempts to complete the session.                                       *)
(***************************************************************************)
EXTENDS VoiceClient, SequenceTheorems, WellFoundedInduction, TLAPS

\* TypeOK by the part of the state.
RecTypes ==
    {"none", "on", "stopping", "reading", "dropping", "sent", "lost"}

PlaceTyped ==
    /\ user \in Users
    /\ screen \in {"session", "feedback", "left"}
    /\ phase \in Phases
    /\ taps \in 0 .. MaxTaps

LineTyped ==
    /\ ws \in {"connecting", "open", "closing", "closed"}
    /\ up \in Seq(Frames)
    /\ down \in Seq(Phases \cup {"bye"})
    /\ server \in Phases \cup {"absent", "over", "lost"}

MicTyped ==
    /\ mode \in {"idle", "recording", "denied", "unavailable"}
    /\ held \in 0 .. MaxRecordings
    /\ rec \in [Recordings -> RecTypes]
    /\ starting \in 0 .. MaxTaps

CompletionTyped ==
    /\ finishing \in BOOLEAN
    /\ attempt \in 0 .. MaxFinishes
    /\ posts \subseteq Attempts
    /\ answers \subseteq Answer
    /\ recorded \in 0 .. MaxFinishes

LEMMA TypeParts ==
    TypeOK <=> PlaceTyped /\ LineTyped /\ MicTyped /\ CompletionTyped
BY DEF TypeOK, PlaceTyped, LineTyped, MicTyped, CompletionTyped, RecTypes

LEMMA TypePartsNext ==
    TypeOK' <=> PlaceTyped' /\ LineTyped' /\ MicTyped' /\ CompletionTyped'
BY DEF TypeOK, PlaceTyped, LineTyped, MicTyped, CompletionTyped, RecTypes

-----------------------------------------------------------------------------
(* The line *)

LEMMA FramesType ==
    /\ <<"audio">> \in Seq(Frames) /\ <<"end_turn">> \in Seq(Frames)
    /\ <<"cancel">> \in Seq(Frames) /\ <<"audio", "end_turn">> \in Seq(Frames)
    /\ <<>> \in Seq(Frames) /\ <<>> \in Seq(Phases \cup {"bye"})
    /\ <<"idle">> \in Seq(Phases \cup {"bye"})
BY DEF Frames, Phases

LEMMA SendType ==
    ASSUME LineTyped, NEW frames \in Seq(Frames), Send(frames)
    PROVE  up' \in Seq(Frames)
BY DEF Send, LineTyped

LEMMA HangupType ==
    ASSUME LineTyped, Hangup
    PROVE  LineTyped'
<1>1. CASE ws \in {"connecting", "open"}
  BY <1>1, FramesType DEF Hangup, LineTyped
<1>2. CASE ~(ws \in {"connecting", "open"})
  BY <1>2 DEF Hangup, LineTyped, line
<1>3. QED
  BY <1>1, <1>2

\* A step that takes frames and announces states.
LEMMA ServerStepTyped ==
    ASSUME LineTyped, Serve \/ ServeCancel \/ Silence \/ TurnGoesOn
    PROVE  LineTyped'
<1>1. ws' = ws
  BY DEF Serve, ServeCancel, Silence, TurnGoesOn, ServerStep
<1>2. up' \in Seq(Frames)
  <2>1. CASE up # <<>> /\ up' = Tail(up)
    BY <2>1, HeadTailProperties DEF LineTyped
  <2>2. CASE up' = up
    BY <2>2 DEF LineTyped
  <2>3. QED
    BY <2>1, <2>2 DEF Serve, ServeCancel, Silence, TurnGoesOn
<1>3. ASSUME NEW state \in Phases, Announce(state)
      PROVE  server' \in Phases /\ down' \in Seq(Phases \cup {"bye"})
  BY <1>3, AppendProperties DEF Announce, LineTyped
<1>4. CASE Serve
  BY <1>1, <1>2, <1>3, <1>4 DEF Serve, LineTyped, Phases
<1>5. CASE ServeCancel
  <2>1. PICK late \in {<<>>, <<"speaking">>, <<"idle">>} :
             down' = down \o <<"idle">> \o late \o <<"bye">>
    BY <1>5 DEF ServeCancel
  <2>2. /\ <<"idle">> \in Seq(Phases \cup {"bye"})
        /\ <<"bye">> \in Seq(Phases \cup {"bye"})
        /\ <<"speaking">> \in Seq(Phases \cup {"bye"})
        /\ <<>> \in Seq(Phases \cup {"bye"})
    BY DEF Phases
  <2>3. late \in Seq(Phases \cup {"bye"}) /\ down \in Seq(Phases \cup {"bye"})
    BY <2>2 DEF LineTyped
  <2>4. down' \in Seq(Phases \cup {"bye"})
    BY <2>1, <2>2, <2>3, ConcatProperties
  <2>5. server' = "over"
    BY <1>5 DEF ServeCancel
  <2>6. QED
    BY <1>1, <1>2, <2>4, <2>5 DEF LineTyped
<1>6. CASE Silence
  BY <1>1, <1>2, <1>3, <1>6 DEF Silence, LineTyped, Phases
<1>7. CASE TurnGoesOn
  BY <1>1, <1>2, <1>3, <1>7 DEF TurnGoesOn, LineTyped, Phases
<1>8. QED
  BY <1>4, <1>5, <1>6, <1>7

-----------------------------------------------------------------------------
(* The recorder *)

LEMMA CleanupType ==
    ASSUME MicTyped, Cleanup, starting' = starting
    PROVE  MicTyped'
BY VoiceClientAssumption
   DEF Cleanup, MicTyped, VoiceClientAssumption, RecTypes, Recordings

LEMMA MicStepTyped ==
    ASSUME TypeOK, starting <= taps,
           \/ TapIdle \/ StartSettles \/ TapListening \/ TapSpeaking
           \/ \E i \in Recordings : StopSettles(i) \/ DropSettles(i)
    PROVE  TypeOK' /\ starting' <= taps'
<1> USE VoiceClientAssumption DEF VoiceClientAssumption
<1>0. PlaceTyped /\ LineTyped /\ MicTyped /\ CompletionTyped
  BY TypeParts
<1>1. CompletionTyped'
  <2>1. UNCHANGED completion
    BY DEF TapIdle, StartSettles, TapListening, TapSpeaking, StopSettles,
       Unloaded, Collected,
           DropSettles, Tap
  <2>2. QED
    BY <1>0, <2>1 DEF completion, CompletionTyped
<1>2. /\ UNCHANGED <<user, screen, phase, ws, down, server>>
      /\ taps' = taps \/ (taps < MaxTaps /\ taps' = taps + 1)
  BY DEF TapIdle, StartSettles, TapListening, TapSpeaking, StopSettles,
     Unloaded, Collected,
         DropSettles, Tap, line
<1>3. PlaceTyped'
  BY <1>0, <1>2 DEF PlaceTyped
<1>4. up' \in Seq(Frames)
  <2>1. CASE up' = up
    BY <1>0, <2>1 DEF LineTyped
  <2>2. CASE \/ Send(<<"audio">>) \/ Send(<<"end_turn">>) \/ Send(<<"cancel">>)
             \/ Send(<<"audio", "end_turn">>)
    BY <1>0, <2>2, FramesType, SendType
  <2>3. QED
    BY <2>1, <2>2 DEF TapIdle, StartSettles, StartGranted, StartDenied,
       StartFails, TapListening, TapSpeaking, StopSettles, Unloaded,
       Collected, DropSettles, Tap, line
<1>5. LineTyped'
  BY <1>0, <1>2, <1>4 DEF LineTyped
<1>6. starting \in Nat /\ taps \in Nat /\ taps <= MaxTaps
  BY <1>0 DEF MicTyped, PlaceTyped
<1>7. MicTyped' /\ starting' <= taps'
  <2>1. CASE TapIdle
    BY <1>0, <1>6, <2>1 DEF TapIdle, Tap, MicTyped, mic
  <2>2. CASE StartSettles
    <3>1. starting' = starting - 1 /\ starting > 0 /\ taps' = taps
      BY <2>2 DEF StartSettles, StartGranted, StartDenied, StartFails
    <3>2. CASE StartGranted
      <4>1. PICK i \in Recordings : rec' = [rec EXCEPT ![i] = "on"] /\ held' = i
        <5> DEFINE first == CHOOSE i \in Unused : \A j \in Unused : i <= j
        <5>1. Unused # {} /\ Unused \subseteq Nat
          BY <3>2 DEF StartGranted, Unused, Recordings
        <5>2. \E i \in Unused : \A j \in Unused : i <= j
          <6> DEFINE R == OpToRel(<, Nat)
          <6>1. \E i \in Unused : \A j \in Unused : ~(<<j, i>> \in R)
            <7> HIDE DEF R
            <7>1. IsWellFoundedOn(R, Nat)
              BY NatLessThanWellFounded DEF R
            <7>2. QED
              BY <5>1, <7>1, WFMin
          <6>2. \A i, j \in Unused : <<j, i>> \notin R => i <= j
            BY <5>1 DEF OpToRel
          <6>3. QED
            BY <6>1, <6>2
        <5>3. first \in Unused
          BY <5>2
        <5>4. rec' = [rec EXCEPT ![first] = "on"] /\ held' = first
          BY <3>2 DEF StartGranted
        <5>5. QED
          BY <5>3, <5>4 DEF Unused
      <4>2. mode' = "recording"
        BY <3>2 DEF StartGranted
      <4>3. QED
        BY <1>0, <1>6, <3>1, <4>1, <4>2 DEF MicTyped, RecTypes, Recordings
    <3>3. CASE StartDenied \/ StartFails
      BY <1>0, <1>6, <3>1, <3>3 DEF StartDenied, StartFails, MicTyped
    <3>4. QED
      BY <2>2, <3>2, <3>3 DEF StartSettles
  <2>3. CASE TapListening
    BY <1>0, <1>6, <2>3 DEF TapListening, Tap, MicTyped, RecTypes, mic
  <2>4. CASE TapSpeaking
    BY <1>0, <1>6, <2>4, CleanupType, <1>2 DEF TapSpeaking
  <2>5. CASE \E i \in Recordings : StopSettles(i) \/ DropSettles(i)
    <3>1. PICK i \in Recordings : StopSettles(i) \/ DropSettles(i)
      BY <2>5
    <3>2. /\ \E v \in {"reading", "sent", "lost"} : rec' = [rec EXCEPT ![i] = v]
          /\ mode' \in {"idle", mode} /\ UNCHANGED <<held, starting, taps>>
      BY <3>1 DEF StopSettles, Unloaded, Collected, DropSettles
    <3>3. QED
      BY <1>0, <1>6, <3>2 DEF MicTyped, RecTypes
  <2>6. QED
    BY <2>1, <2>2, <2>3, <2>4, <2>5
<1>8. QED
  BY <1>1, <1>3, <1>5, <1>7, TypePartsNext

\* The socket, the server and the completion.
LEMMA LineStepTyped ==
    ASSUME TypeOK, starting <= taps,
           \/ Open \/ Unauthorized \/ Drop \/ Receive \/ Closed \/ Leave
           \/ Serve \/ ServeCancel \/ Silence \/ TurnGoesOn
           \/ Finish \/ TakePost \/ Saved \/ Refused \/ Timeout
    PROVE  TypeOK' /\ starting' <= taps'
<1> USE VoiceClientAssumption DEF VoiceClientAssumption
<1>0. PlaceTyped /\ LineTyped /\ MicTyped /\ CompletionTyped
  BY TypeParts
<1>1. UNCHANGED <<user, starting, taps>> /\ screen' \in {screen, "left", "feedback"}
  BY DEF Open, Unauthorized, Drop, Receive, Closed, Leave, Serve, ServeCancel,
         Silence, TurnGoesOn, ServerStep, Finish, TakePost, Saved, Refused,
         Timeout, GiveUp, mic
<1>2. MicTyped'
  <2>1. Cleanup \/ UNCHANGED <<mode, held, rec>>
    BY DEF Open, Unauthorized, Drop, Receive, Closed, Leave, Serve, ServeCancel,
           Silence, TurnGoesOn, ServerStep, Finish, TakePost, Saved, Refused,
           Timeout, GiveUp, mic
  <2>2. CASE Cleanup
    BY <1>0, <1>1, <2>2, CleanupType
  <2>3. CASE UNCHANGED <<mode, held, rec>>
    BY <1>0, <1>1, <2>3 DEF MicTyped
  <2>4. QED
    BY <2>1, <2>2, <2>3
<1>3. LineTyped' /\ phase' \in Phases
  <2>1. CASE Serve \/ ServeCancel \/ Silence \/ TurnGoesOn
    BY <1>0, <2>1, ServerStepTyped
       DEF Serve, ServeCancel, Silence, TurnGoesOn, ServerStep, PlaceTyped
  <2>2. CASE Open
    BY <1>0, <2>2, FramesType DEF Open, LineTyped, PlaceTyped, Phases
  <2>3. CASE Unauthorized
    BY <1>0, <2>3 DEF Unauthorized, LineTyped, PlaceTyped
  <2>4. CASE Drop
    BY <1>0, <2>4, FramesType DEF Drop, LineTyped, PlaceTyped, PhaseOnDrop, Phases
  <2>5. CASE Receive
    <3>1. /\ Head(down) \in Phases \cup {"bye"}
          /\ Tail(down) \in Seq(Phases \cup {"bye"})
      BY <1>0, <2>5, HeadTailProperties DEF Receive, LineTyped
    <3>2. QED
      BY <1>0, <2>5, <3>1 DEF Receive, LineTyped, PlaceTyped
  <2>6. CASE Closed
    BY <1>0, <2>6 DEF Closed, LineTyped, PlaceTyped
  <2>7. CASE Leave \/ Saved
    BY <1>0, <2>7, HangupType DEF Leave, Saved, PlaceTyped
  <2>8. CASE Finish \/ TakePost \/ Refused \/ Timeout
    <3>1. UNCHANGED <<line, phase>>
      BY <2>8 DEF Finish, TakePost, Refused, Timeout, GiveUp
    <3>2. QED
      BY <1>0, <3>1 DEF line, LineTyped, PlaceTyped
  <2>9. QED
    BY <2>1, <2>2, <2>3, <2>4, <2>5, <2>6, <2>7, <2>8
<1>4. PlaceTyped'
  BY <1>0, <1>1, <1>3 DEF PlaceTyped
<1>5. CompletionTyped'
  <2>1. CASE Finish
    <3>1. attempt \in Nat /\ attempt + 1 \in Attempts
      BY <1>0, <2>1 DEF Finish, Attempts, CompletionTyped
    <3>2. QED
      BY <1>0, <2>1, <3>1 DEF Finish, CompletionTyped, EndedAt, Attempts
  <2>2. CASE TakePost
    <3>1. UNCHANGED <<finishing, attempt>>
      BY <2>2 DEF TakePost
    <3>2. PICK a \in posts :
            /\ posts' = posts \ {a}
            /\ recorded' \in {recorded, a}
            /\ \E kind \in {"saved", "conflict", "failed"} :
                 answers' = answers \cup {[to |-> a, kind |-> kind]}
      BY <2>2 DEF TakePost
    <3>3. a \in Attempts /\ a \in 0 .. MaxFinishes
      BY <1>0 DEF CompletionTyped, Attempts
    <3>4. answers' \subseteq Answer
      BY <1>0, <3>2, <3>3 DEF CompletionTyped, Answer
    <3>5. QED
      BY <1>0, <3>1, <3>2, <3>3, <3>4 DEF CompletionTyped
  <2>3. CASE Refused \/ Timeout
    BY <1>0, <2>3 DEF Refused, Timeout, GiveUp, CompletionTyped
  <2>4. CASE UNCHANGED completion
    BY <1>0, <2>4 DEF completion, CompletionTyped
  <2>5. QED
    BY <2>1, <2>2, <2>3, <2>4 DEF Open, Unauthorized, Drop, Receive, Closed,
       Leave, Serve, ServeCancel, Silence, TurnGoesOn, ServerStep, Saved
<1>6. QED
  BY <1>1, <1>2, <1>3, <1>4, <1>5, TypePartsNext

LEMMA InitTyped == ASSUME Init PROVE TypeOK /\ starting <= taps
<1> USE VoiceClientAssumption DEF VoiceClientAssumption
<1>1. PlaceTyped
  <2>1. user \in Users /\ screen = "session" /\ phase = "idle" /\ taps = 0
    BY DEF Init
  <2>2. QED
    BY <2>1 DEF PlaceTyped, Phases
<1>4. CompletionTyped
  <2>1. /\ finishing \in BOOLEAN /\ attempt = 0
        /\ posts = {} /\ answers = {} /\ recorded = 0
    BY DEF Init
  <2>2. QED
    BY <2>1 DEF CompletionTyped
<1>2. LineTyped
  BY FramesType DEF Init, LineTyped
<1>3. MicTyped /\ starting <= taps
  BY DEF Init, MicTyped, RecTypes
<1>5. QED
  BY <1>1, <1>2, <1>3, <1>4, TypeParts

\* Every variable keeps its type, however the promises of the recorder, the
\* frames and the requests settle; no start is awaited that no tap asked for.
THEOREM ClientTyped == Spec => [](TypeOK /\ starting <= taps)
<1>1. Init => TypeOK /\ starting <= taps
  BY InitTyped
<1>2. TypeOK /\ starting <= taps /\ [Next]_vars => (TypeOK /\ starting <= taps)'
  <2> SUFFICES ASSUME TypeOK, starting <= taps, [Next]_vars
               PROVE  TypeOK' /\ starting' <= taps'
    OBVIOUS
  <2>1. CASE UNCHANGED vars
    BY <2>1 DEF vars, line, mic, completion, TypeOK
  <2>2. CASE Next
    BY <2>2, MicStepTyped, LineStepTyped DEF Next
  <2>3. QED
    BY <2>1, <2>2
<1>3. QED
  BY <1>1, <1>2, PTL DEF Spec

-----------------------------------------------------------------------------
(* The microphone.                                                         *)
(*                                                                         *)
(* Only the recording that is held may be on.  For the learner who awaits  *)
(* what a tap began, no start is awaited while the socket connects, while  *)
(* the session is being finished, or on another screen: each of the three  *)
(* could otherwise leave the screen with a start yet to be granted.        *)

OnlyHeldIsOn == \A i \in Recordings : rec[i] = "on" => held = i

PatientAwaits ==
    user = "patient" =>
        /\ ws = "connecting" => starting = 0
        /\ finishing => starting = 0
        /\ screen # "session" =>
              starting = 0 /\ \A i \in Recordings : rec[i] # "on"

LEMMA CleanupStops ==
    ASSUME MicTyped, OnlyHeldIsOn, Cleanup
    PROVE  \A i \in Recordings : rec'[i] # "on"
BY DEF Cleanup, OnlyHeldIsOn, MicTyped

LEMMA OnlyHeldIsOnStep ==
    ASSUME TypeOK, OnlyHeldIsOn, [Next]_vars
    PROVE  OnlyHeldIsOn'
<1>0. MicTyped
  BY TypeParts
<1>1. CASE Cleanup
  BY <1>0, <1>1, CleanupStops DEF OnlyHeldIsOn
<1>2. CASE UNCHANGED <<held, rec>>
  BY <1>2 DEF OnlyHeldIsOn
<1>3. CASE StartGranted
  <2>1. PICK i : rec' = [rec EXCEPT ![i] = "on"] /\ held' = i
    BY <1>3 DEF StartGranted
  <2>2. \A j \in Recordings : rec[j] # "on"
    BY <1>3 DEF StartGranted, MicrophoneBusy
  <2>3. QED
    BY <1>0, <2>1, <2>2 DEF OnlyHeldIsOn, MicTyped
<1>4. CASE TapListening
  BY <1>0, <1>4 DEF TapListening, OnlyHeldIsOn, MicTyped, mic
<1>5. CASE \E i \in Recordings : StopSettles(i) \/ DropSettles(i)
  BY <1>0, <1>5 DEF StopSettles, Unloaded, Collected, DropSettles,
     OnlyHeldIsOn, MicTyped
<1>6. QED
  <2>1. CASE UNCHANGED vars
    BY <1>2, <2>1 DEF vars, mic
  <2>2. CASE TapIdle \/ StartSettles \/ TapSpeaking
    BY <1>1, <1>2, <1>3, <2>2
       DEF TapIdle, StartSettles, StartDenied, StartFails, TapSpeaking, mic
  <2>3. CASE \/ Open \/ Unauthorized \/ Drop \/ Receive \/ Closed \/ Leave
             \/ Serve \/ ServeCancel \/ Silence \/ TurnGoesOn
             \/ Finish \/ TakePost \/ Saved \/ Refused \/ Timeout
    BY <1>1, <1>2, <2>3
       DEF Open, Unauthorized, Drop, Receive, Closed, Leave, Serve,
           ServeCancel, Silence, TurnGoesOn, ServerStep, Finish, TakePost,
           Saved, Refused, Timeout, GiveUp, mic
  <2>4. QED
    BY <1>4, <1>5, <2>1, <2>2, <2>3 DEF Next

LEMMA PatientAwaitsStep ==
    ASSUME TypeOK, OnlyHeldIsOn, PatientAwaits, [Next]_vars
    PROVE  PatientAwaits'
<1> SUFFICES ASSUME user' = "patient" PROVE PatientAwaits'
  BY DEF PatientAwaits
<1>0. MicTyped
  BY TypeParts
<1>1. user = "patient"
  BY DEF Next, vars, TapIdle, StartSettles, TapListening, TapSpeaking, Tap,
     StopSettles, Unloaded, Collected, DropSettles, Open, Unauthorized, Drop,
     Receive, Closed, Leave,
     Serve, ServeCancel, Silence, TurnGoesOn, ServerStep, Finish, TakePost,
     Saved, Refused, Timeout, GiveUp
\* The learner leaves the screen, or begins to finish.
<1>2. CASE Unauthorized \/ Leave \/ Saved \/ Finish
  <2>1. starting = 0 /\ starting' = starting
    <3>1. CASE Unauthorized
      BY <1>1, <3>1 DEF Unauthorized, PatientAwaits
    <3>2. CASE Leave \/ Finish
      <4>1. ~(starting > 0) /\ starting \in Nat
        BY <1>0, <1>1, <3>2, VoiceClientAssumption
           DEF Leave, Finish, MayAct, MicPending, MicTyped, VoiceClientAssumption
      <4>2. QED
        BY <3>2, <4>1 DEF Leave, Finish
    <3>3. CASE Saved
      BY <1>1, <3>3 DEF Saved, Awaited, PatientAwaits
    <3>4. QED
      BY <1>2, <3>1, <3>2, <3>3
  <2>2. Cleanup
    BY <1>2 DEF Unauthorized, Leave, Saved, Finish
  <2>3. QED
    BY <1>0, <2>1, <2>2, CleanupStops DEF PatientAwaits
\* A tap, on the screen, connected and not finishing.
<1>3. CASE TapIdle \/ TapListening \/ TapSpeaking
  <2>1. screen = "session" /\ ~finishing /\ ws # "connecting"
    BY <1>1, <1>3 DEF TapIdle, TapListening, TapSpeaking, Tap, MayTap, MayAct
  <2>2. UNCHANGED <<screen, finishing, ws>>
    BY <1>3 DEF TapIdle, TapListening, TapSpeaking, Tap, completion
  <2>3. QED
    BY <2>1, <2>2 DEF PatientAwaits
\* A start that settles was awaited: the learner is still on the screen.
<1>4. CASE StartSettles
  <2>1. starting > 0 /\ starting \in Nat
    BY <1>0, <1>4, VoiceClientAssumption
       DEF StartSettles, StartGranted, StartDenied, StartFails, MicTyped,
           VoiceClientAssumption
  <2>2. screen = "session" /\ ~finishing /\ ws # "connecting"
    BY <1>1, <2>1 DEF PatientAwaits
  <2>3. UNCHANGED <<screen, finishing, ws>>
    BY <1>4 DEF StartSettles, completion
  <2>4. QED
    BY <2>2, <2>3 DEF PatientAwaits
<1>5. CASE \E i \in Recordings : StopSettles(i) \/ DropSettles(i)
  <2>1. PICK i \in Recordings : StopSettles(i) \/ DropSettles(i)
    BY <1>5
  <2>2. /\ \/ rec[i] = "stopping" /\ rec' = [rec EXCEPT ![i] = "reading"]
           \/ rec' = [rec EXCEPT ![i] = "sent"]
           \/ rec' = [rec EXCEPT ![i] = "lost"]
        /\ UNCHANGED <<screen, finishing, ws, starting>>
    BY <2>1 DEF StopSettles, Unloaded, Collected, DropSettles, completion, line
  <2>3. QED
    BY <1>0, <1>1, <2>2 DEF PatientAwaits, MicTyped
<1>6. CASE \/ UNCHANGED vars \/ Open \/ Drop \/ Receive \/ Closed
           \/ Serve \/ ServeCancel \/ Silence \/ TurnGoesOn
           \/ TakePost \/ Refused \/ Timeout
  <2>1. UNCHANGED <<screen, starting>>
    BY <1>6 DEF vars, mic, Open, Drop, Receive, Closed, Serve, ServeCancel,
       Silence, TurnGoesOn, ServerStep, TakePost, Refused, Timeout, GiveUp
  <2>2. (ws' = ws \/ ws' # "connecting") /\ finishing' \in {finishing, FALSE}
    BY <1>6 DEF vars, line, completion, Open, Drop, Receive, Closed, Serve,
       ServeCancel, Silence, TurnGoesOn, ServerStep, TakePost, Refused,
       Timeout, GiveUp
  <2>3. Cleanup \/ rec' = rec
    BY <1>6 DEF vars, mic, Open, Drop, Receive, Closed, Serve, ServeCancel,
       Silence, TurnGoesOn, ServerStep, TakePost, Refused, Timeout, GiveUp
  <2>4. QED
    BY <1>0, <1>1, <2>1, <2>2, <2>3, CleanupStops DEF PatientAwaits
<1>7. QED
  BY <1>2, <1>3, <1>4, <1>5, <1>6 DEF Next

\* Whatever order the promises of the recorder settle in, a microphone that
\* records is held, so that the next cleanup stops it; and a patient learner
\* who left the screen, by whichever of its exits, left none on.
THEOREM MicrophoneIsHeld == Spec => []MicrophoneHeld
<1>1. Init => OnlyHeldIsOn /\ PatientAwaits
  BY DEF Init, OnlyHeldIsOn, PatientAwaits
<1>2. /\ TypeOK /\ OnlyHeldIsOn /\ PatientAwaits /\ [Next]_vars
      => (OnlyHeldIsOn /\ PatientAwaits)'
  BY OnlyHeldIsOnStep, PatientAwaitsStep
<1>3. OnlyHeldIsOn /\ PatientAwaits => MicrophoneHeld
  BY DEF OnlyHeldIsOn, PatientAwaits, MicrophoneHeld
<1>4. QED
  BY <1>1, <1>2, <1>3, ClientTyped, PTL DEF Spec

-----------------------------------------------------------------------------
(* The button.                                                             *)
(*                                                                         *)
(* The newest frame on its way is the server's state, so that the button,  *)
(* which shows the last frame taken, shows that state once none is left.   *)

NewestIsState ==
    /\ ws = "open" /\ server \in Phases =>
          IF down = <<>> THEN phase = server ELSE down[Len(down)] = server
    /\ server = "lost" => ws = "closed" /\ phase = "idle"

LEMMA AnnouncedIsNewest ==
    ASSUME LineTyped, NEW state \in Phases, Announce(state)
    PROVE  /\ server' = state /\ down' # <<>> /\ down'[Len(down')] = state
BY AppendProperties DEF Announce, LineTyped

LEMMA NewestIsStateStep ==
    ASSUME TypeOK, NewestIsState, [Next]_vars
    PROVE  NewestIsState'
<1>0. LineTyped
  BY TypeParts
<1>1. CASE UNCHANGED <<ws, down, server, phase>>
  BY <1>1 DEF NewestIsState
<1>2. CASE Open
  BY <1>2 DEF Open, NewestIsState
<1>3. CASE Drop
  BY <1>3 DEF Drop, PhaseOnDrop, NewestIsState, Phases
<1>4. CASE Receive
  <2>1. /\ ws = "open" /\ down # <<>> /\ down' = Tail(down) /\ server' = server
        /\ server # "lost"
    BY <1>4 DEF Receive, NewestIsState
  <2>2. CASE Head(down) = "bye"
    BY <1>4, <2>1, <2>2 DEF Receive, NewestIsState
  <2>3. CASE Head(down) # "bye"
    <3>1. phase' = Head(down) /\ ws' = ws
      BY <1>4, <2>3 DEF Receive
    <3>2. CASE server \in Phases
      <4>1. down[Len(down)] = server
        BY <2>1, <3>2 DEF NewestIsState
      <4>2. /\ Len(down) \in Nat \ {0} /\ Len(Tail(down)) = Len(down) - 1
            /\ Head(down) = down[1]
            /\ \A i \in 1 .. Len(down) - 1 : Tail(down)[i] = down[i + 1]
        BY <1>0, <2>1, HeadTailProperties, EmptySeq DEF LineTyped
      <4>3. CASE Len(down) = 1
        BY <1>0, <2>1, <3>1, <4>1, <4>2, <4>3 DEF NewestIsState, LineTyped
      <4>4. CASE Len(down) # 1
        <5>1. Len(down) - 1 \in 1 .. Len(down) - 1
          BY <4>2, <4>4
        <5>2. down'[Len(down')] = server' /\ Len(down') # 0
          BY <2>1, <4>1, <4>2, <5>1
        <5>3. down' # <<>>
          BY <5>2
        <5>4. QED
          BY <2>1, <5>2, <5>3 DEF NewestIsState
      <4>5. QED
        BY <4>3, <4>4
    <3>3. CASE server \notin Phases
      BY <2>1, <3>3 DEF NewestIsState
    <3>4. QED
      BY <3>2, <3>3
  <2>4. QED
    BY <2>2, <2>3
<1>5. CASE Serve \/ Silence \/ TurnGoesOn
  <2>1. CASE UNCHANGED <<server, down>>
    BY <1>5, <2>1
       DEF Serve, Silence, TurnGoesOn, ServerStep, NewestIsState
  <2>2. CASE \E state \in Phases : Announce(state)
    BY <1>0, <1>5, <2>2, AnnouncedIsNewest
       DEF Serve, Silence, TurnGoesOn, ServerStep, NewestIsState, Phases
  <2>3. QED
    BY <1>5, <2>1, <2>2 DEF Serve, Silence, TurnGoesOn, Phases
<1>6. CASE ServeCancel
  BY <1>6 DEF ServeCancel, NewestIsState, Phases
<1>7. CASE Unauthorized \/ Closed
  BY <1>7 DEF Unauthorized, Closed, NewestIsState, Phases
<1>8. CASE Leave \/ Saved
  <2>1. Hangup /\ phase' = phase
    BY <1>8 DEF Leave, Saved
  <2>2. CASE ws \in {"connecting", "open"}
    BY <2>1, <2>2 DEF Hangup, NewestIsState, Phases
  <2>3. CASE ws \notin {"connecting", "open"}
    BY <1>1, <2>1, <2>3 DEF Hangup, line
  <2>4. QED
    BY <2>2, <2>3
<1>9. CASE \/ UNCHANGED vars \/ TapIdle \/ StartSettles \/ TapListening
           \/ TapSpeaking \/ \E i \in Recordings : StopSettles(i) \/ DropSettles(i)
           \/ Finish \/ TakePost \/ Refused \/ Timeout
  BY <1>1, <1>9
     DEF vars, line, TapIdle, StartSettles, TapListening, TapSpeaking, Tap,
         StopSettles, Unloaded, Collected, DropSettles, Finish, TakePost,
         Refused, Timeout, GiveUp
<1>10. QED
  BY <1>2, <1>3, <1>4, <1>5, <1>6, <1>7, <1>8, <1>9 DEF Next

\* The button never stays on a state the server has left: with no frame on its
\* way it shows the server's, and after a lost line it is idle.
THEOREM ButtonIsServers == Spec => []ButtonFollowsServer
<1>1. Init => NewestIsState
  BY DEF Init, NewestIsState
<1>2. TypeOK /\ NewestIsState /\ [Next]_vars => NewestIsState'
  BY NewestIsStateStep
<1>3. NewestIsState => ButtonFollowsServer
  BY DEF NewestIsState, ButtonFollowsServer
<1>4. QED
  BY <1>1, <1>2, <1>3, ClientTyped, PTL DEF Spec
=============================================================================
