---------------------------- MODULE VoiceClient ----------------------------
(***************************************************************************)
(* The voice screen of the mobile client (useVoiceSession): what it shows  *)
(* follows frames that arrive late, the microphone is started and stopped  *)
(* by promises that settle while the learner goes on tapping or leaves,    *)
(* and the session is completed by a request whose answer may be lost.     *)
(*                                                                         *)
(* The server is the conversation of VoiceSession in brief.  A turn that   *)
(* never ends, as when a provider fails, is one that takes no step.        *)
(***************************************************************************)
EXTENDS Integers, FiniteSets, Sequences

CONSTANTS
    Users,          \* "patient": awaits what a tap began; "hasty": need not
    MaxTaps,        \* bound: taps on the voice button
    MaxRecordings,  \* bound: recordings the microphone makes
    MaxFinishes     \* bound: attempts to complete the session

ASSUME VoiceClientAssumption ==
    /\ Users \subseteq {"patient", "hasty"}
    /\ MaxTaps \in Nat /\ MaxRecordings \in Nat /\ MaxFinishes \in Nat

Recordings == 1 .. MaxRecordings
Attempts == 1 .. MaxFinishes

VARIABLES
    user,
    screen,     \* where the learner is: "session", "feedback" or "left"
    phase,      \* what the voice button shows
    ws,         \* the client's socket
    up, down,   \* frames on their way to the server and to the client
    server,     \* state of the conversation; "over", or "lost" with the line
    mode,       \* AudioRecorderService._state
    held,       \* AudioRecorderService.recording; 0: null
    rec,        \* each recording
    starting,   \* calls of start that await the native module
    finishing,  \* isFinishing
    attempt,    \* the newest ended_at; 0: none yet
    posts,      \* completions on their way to the server
    answers,    \* their answers on the way back
    recorded,   \* ended_at of the stored session; 0: none
    taps

mic == <<mode, held, rec, starting>>
line == <<ws, up, down, server>>
completion == <<finishing, attempt, posts, answers, recorded>>
vars == <<user, screen, phase, line, mic, completion, taps>>

Phases == {"idle", "listening", "thinking", "speaking"}
Frames == {"audio", "end_turn", "cancel"}
Answer == [to : Attempts, kind : {"saved", "conflict", "failed"}]

TypeOK ==
    /\ user \in Users
    /\ screen \in {"session", "feedback", "left"}
    /\ phase \in Phases
    /\ ws \in {"connecting", "open", "closing", "closed"}
    /\ up \in Seq(Frames)
    /\ down \in Seq(Phases \cup {"bye"})
    /\ server \in Phases \cup {"absent", "over", "lost"}
    /\ mode \in {"idle", "recording", "denied", "unavailable"}
    /\ held \in 0 .. MaxRecordings
    /\ rec \in [Recordings ->
                  {"none", "on", "stopping", "reading", "dropping", "sent",
                   "lost"}]
    /\ starting \in 0 .. MaxTaps
    /\ finishing \in BOOLEAN
    /\ attempt \in 0 .. MaxFinishes
    /\ posts \subseteq Attempts
    /\ answers \subseteq Answer
    /\ recorded \in 0 .. MaxFinishes
    /\ taps \in 0 .. MaxTaps

Init ==
    /\ user \in Users
    /\ screen = "session" /\ phase = "idle"
    /\ ws = "connecting" /\ up = <<>> /\ down = <<>> /\ server = "absent"
    /\ mode = "idle" /\ held = 0 /\ rec = [i \in Recordings |-> "none"]
    /\ starting = 0
    /\ finishing = FALSE /\ attempt = 0
    /\ posts = {} /\ answers = {} /\ recorded = 0
    /\ taps = 0

-----------------------------------------------------------------------------
(* The recorder *)

\* expo-av prepares one recording at a time.
MicrophoneBusy ==
    \E i \in Recordings : rec[i] \in {"on", "stopping", "dropping"}

Unused == {i \in Recordings : rec[i] = "none"}

\* A promise of the recorder has not settled.
MicPending ==
    starting > 0 \/ \E i \in Recordings : rec[i] \in {"stopping", "reading"}

\* The patient learner awaits the connection before the first tap, and then
\* what the last one began.
MayAct == user = "hasty" \/ (~MicPending /\ ~finishing)
MayTap == MayAct /\ (user = "hasty" \/ ws # "connecting")

\* (bug) the recording is forgotten and goes on
CleanupForgets ==
    /\ held' = 0
    /\ mode' = "idle"
    /\ UNCHANGED rec

\* cleanup: the recording held is stopped and what it heard dropped.
Cleanup ==
    /\ rec' = [i \in Recordings |-> IF i = held THEN "dropping" ELSE rec[i]]
    /\ held' = 0
    /\ mode' = "idle"

\* A frame is sent on an open socket, and dropped on any other.
Send(frames) == up' = IF ws = "open" THEN up \o frames ELSE up

Tap(p) ==
    /\ screen = "session" /\ phase = p
    /\ MayTap /\ taps < MaxTaps
    /\ taps' = taps + 1
    /\ UNCHANGED <<user, screen, phase, ws, down, server, completion>>

\* A tap while idle.  A recorder that believes it records starts at once.
TapIdle ==
    /\ Tap("idle")
    /\ IF mode = "recording"
       THEN Send(<<"audio">>) /\ UNCHANGED mic
       ELSE starting' = starting + 1 /\ UNCHANGED <<mode, held, rec, up>>

\* The permission is given and the native module records.
StartGranted ==
    /\ starting > 0 /\ ~MicrophoneBusy /\ Unused # {}
    /\ LET i == CHOOSE i \in Unused : \A j \in Unused : i <= j
       IN  rec' = [rec EXCEPT ![i] = "on"] /\ held' = i
    /\ mode' = "recording"
    /\ Send(<<"audio">>)

StartDenied ==
    /\ starting > 0
    /\ mode' = "denied"
    /\ UNCHANGED <<held, rec, up>>

\* The native module refuses, as it does while another recording exists:
\* the screen goes on with a simulated chunk.
StartFails ==
    /\ starting > 0
    /\ mode' = "unavailable"
    /\ Send(<<"audio">>)
    /\ UNCHANGED <<held, rec>>

StartSettles ==
    /\ StartGranted \/ StartDenied \/ StartFails
    /\ starting' = starting - 1
    /\ UNCHANGED <<user, screen, phase, ws, down, server, completion, taps>>

\* A tap while listening.  With no recording held the turn ends at once.
TapListening ==
    /\ Tap("listening")
    /\ IF held = 0
       THEN Send(<<"end_turn">>) /\ UNCHANGED mic
       ELSE /\ rec' = [rec EXCEPT ![held] = "stopping"]
            /\ held' = 0
            /\ UNCHANGED <<mode, starting, up>>

\* The recorder is idle from here on; its file is still to be read.  Without
\* a file the turn is ended at once.
Unloaded(i) ==
    /\ rec[i] = "stopping"
    /\ \/ rec' = [rec EXCEPT ![i] = "reading"] /\ UNCHANGED up
       \/ rec' = [rec EXCEPT ![i] = "lost"] /\ Send(<<"end_turn">>)
    /\ mode' = "idle"

\* The file is read and sent, or lost; the turn is ended in either case.
Collected(i) ==
    /\ rec[i] = "reading"
    /\ \/ rec' = [rec EXCEPT ![i] = "sent"] /\ Send(<<"audio", "end_turn">>)
       \/ rec' = [rec EXCEPT ![i] = "lost"] /\ Send(<<"end_turn">>)
    /\ UNCHANGED mode

\* The two promises stopAndCollect awaits.
StopSettles(i) ==
    /\ Unloaded(i) \/ Collected(i)
    /\ UNCHANGED <<user, screen, phase, ws, down, server, held, starting,
                   completion, taps>>

\* The native module has unloaded a recording that cleanup stopped.
DropSettles(i) ==
    /\ rec[i] = "dropping"
    /\ rec' = [rec EXCEPT ![i] = "lost"]
    /\ UNCHANGED <<user, screen, phase, line, mode, held, starting,
                   completion, taps>>

\* A tap while the tutor speaks.
TapSpeaking ==
    /\ Tap("speaking")
    /\ Send(<<"cancel">>)
    /\ Cleanup
    /\ UNCHANGED starting

-----------------------------------------------------------------------------
(* The socket *)

Open ==
    /\ ws = "connecting" /\ screen = "session"
    /\ ws' = "open" /\ server' = "idle" /\ down' = <<"idle">>
    /\ UNCHANGED <<user, screen, phase, up, mic, completion, taps>>

\* The token is refused: the learner is logged out, which leaves the screen.
Unauthorized ==
    /\ ws = "connecting" /\ screen = "session"
    /\ ws' = "closed" /\ server' = "over"
    /\ Cleanup
    /\ screen' = "left"
    /\ UNCHANGED <<user, phase, up, down, starting, completion, taps>>

\* (bug) the button keeps what it showed
PhaseKept == phase

\* onClose with any other code than 1000.
PhaseOnDrop == "idle"

\* The line is lost, and with it every frame on its way.
Drop ==
    /\ ws \in {"connecting", "open"}
    /\ ws' = "closed" /\ server' = "lost" /\ up' = <<>> /\ down' = <<>>
    /\ Cleanup
    /\ phase' = PhaseOnDrop
    /\ UNCHANGED <<user, screen, starting, completion, taps>>

\* The client takes a frame; the last one is the server's close with 1000.
Receive ==
    /\ ws = "open" /\ down # <<>>
    /\ down' = Tail(down)
    /\ IF Head(down) = "bye"
       THEN ws' = "closed" /\ Cleanup /\ UNCHANGED phase
       ELSE phase' = Head(down) /\ UNCHANGED <<ws, mode, held, rec>>
    /\ UNCHANGED <<user, screen, up, server, starting, completion, taps>>

\* The close event that follows the client's own close.
Closed ==
    /\ ws = "closing"
    /\ ws' = "closed"
    /\ Cleanup
    /\ UNCHANGED <<user, screen, phase, up, down, server, starting,
                   completion, taps>>

\* The client closes a socket that is not closed; what was on its way no
\* longer matters to either side.
Hangup ==
    IF ws \in {"connecting", "open"}
    THEN ws' = "closing" /\ server' = "over" /\ up' = <<>> /\ down' = <<>>
    ELSE UNCHANGED line

\* The learner goes back: the effects are torn down.
Leave ==
    /\ screen = "session" /\ MayAct
    /\ screen' = "left"
    /\ Cleanup
    /\ Hangup
    /\ UNCHANGED <<user, phase, starting, completion, taps>>

-----------------------------------------------------------------------------
(* The server's side of the conversation *)

Announce(state) == server' = state /\ down' = Append(down, state)

ServerStep ==
    /\ ws = "open"
    /\ UNCHANGED <<user, screen, phase, ws, mic, completion, taps>>

Busy == {"thinking", "speaking"}

\* mark_audio, and begin_turn for the frame that ends a turn.
Serve ==
    /\ ServerStep
    /\ server \in Phases /\ up # <<>> /\ Head(up) # "cancel"
    /\ up' = Tail(up)
    /\ IF server \in Busy THEN UNCHANGED <<server, down>>
       ELSE IF Head(up) = "end_turn" THEN Announce("thinking")
       ELSE IF server = "idle" THEN Announce("listening")
       ELSE UNCHANGED <<server, down>>

\* A cancel ends the session.  A turn whose task the handler lost sight of
\* may announce one more state before the close.
ServeCancel ==
    /\ ServerStep
    /\ server \in Phases /\ up # <<>> /\ Head(up) = "cancel"
    /\ up' = Tail(up)
    /\ server' = "over"
    /\ \E late \in {<<>>, <<"speaking">>, <<"idle">>} :
          down' = down \o <<"idle">> \o late \o <<"bye">>

\* The silence watchdog ends a turn.
Silence == ServerStep /\ server = "listening" /\ Announce("thinking") /\ UNCHANGED up

TurnGoesOn ==
    /\ ServerStep
    /\ \/ server = "thinking" /\ Announce("speaking")
       \/ server = "speaking" /\ Announce("idle")
    /\ UNCHANGED up

-----------------------------------------------------------------------------
(* The completion *)

\* Every attempt takes a new ended_at.
EndedAt == attempt + 1

Finish ==
    /\ screen = "session" /\ MayAct
    /\ ~finishing /\ attempt < MaxFinishes
    /\ finishing' = TRUE
    /\ Cleanup
    /\ attempt' = EndedAt /\ posts' = posts \cup {EndedAt}
    /\ UNCHANGED <<user, screen, phase, line, starting, answers, recorded, taps>>

\* complete_session: the first one is stored, the same one replayed, any other
\* refused; or the server fails and nothing is stored.
TakePost ==
    /\ \E a \in posts :
          /\ posts' = posts \ {a}
          /\ \/ /\ recorded \in {0, a}
                /\ recorded' = a
                /\ answers' = answers \cup {[to |-> a, kind |-> "saved"]}
             \/ /\ recorded \notin {0, a}
                /\ answers' = answers \cup {[to |-> a, kind |-> "conflict"]}
                /\ UNCHANGED recorded
             \/ /\ answers' = answers \cup {[to |-> a, kind |-> "failed"]}
                /\ UNCHANGED recorded
    /\ UNCHANGED <<user, screen, phase, line, mic, finishing, attempt, taps>>

\* (bug) any attempt's answer is taken for the newest's
AwaitedAny(answer) == finishing /\ screen # "feedback"

\* The answer the client awaits: an abandoned attempt's is ignored.
Awaited(answer) == finishing /\ screen # "feedback" /\ answer.to = attempt

\* The result is shown, wherever the learner is by now.
Saved ==
    /\ \E answer \in answers : Awaited(answer) /\ answer.kind = "saved"
    /\ screen' = "feedback"
    /\ Hangup
    /\ Cleanup
    /\ UNCHANGED <<user, phase, starting, completion, taps>>

\* The catch of finishSession.
GiveUp ==
    /\ finishing' = FALSE
    /\ UNCHANGED <<user, screen, phase, line, mic, attempt, posts, answers,
                   recorded, taps>>

Refused ==
    /\ \E answer \in answers : Awaited(answer) /\ answer.kind # "saved"
    /\ GiveUp

\* Fifteen seconds without an answer, or no network.
Timeout == finishing /\ screen # "feedback" /\ GiveUp

-----------------------------------------------------------------------------

Next ==
    \/ TapIdle \/ StartSettles \/ TapListening \/ TapSpeaking
    \/ \E i \in Recordings : StopSettles(i) \/ DropSettles(i)
    \/ Open \/ Unauthorized \/ Drop \/ Receive \/ Closed \/ Leave
    \/ Serve \/ ServeCancel \/ Silence \/ TurnGoesOn
    \/ Finish \/ TakePost \/ Saved \/ Refused \/ Timeout

\* axios gives a request up after its timeout.
Spec == Init /\ [][Next]_vars /\ WF_vars(Timeout)

-----------------------------------------------------------------------------
(* Properties *)

\* Whatever order the promises of the recorder settle in, a microphone that
\* records is one the recorder holds and can stop; a patient learner who has
\* left the screen left no microphone on.
MicrophoneHeld ==
    /\ \A i \in Recordings : rec[i] = "on" => held = i
    /\ screen # "session" /\ user = "patient"
          => \A i \in Recordings : rec[i] # "on"

\* With no frame on its way the button shows the server's state; after a drop,
\* which no frame announces, it is idle and not what it was.
ButtonFollowsServer ==
    /\ ws = "open" /\ down = <<>> /\ server \in Phases => phase = server
    /\ server = "lost" => phase = "idle"

\* "Saving session..." does not stay: an attempt to finish ends in an error the
\* learner can act on, or on the feedback screen, and then with the result of
\* the session the server stored, though earlier attempts may have been given
\* up and stored since.
FinishSettles ==
    finishing ~> ~finishing \/ (screen = "feedback" /\ recorded = attempt)

\* A completion that was stored is answered as stored when it is tried again.
\* (It is refused: the retry has another ended_at.)
RetryIsReplayed == \A answer \in answers : answer.kind # "conflict"
=============================================================================
