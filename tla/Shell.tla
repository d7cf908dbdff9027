------------------------------- MODULE Shell -------------------------------
(***************************************************************************)
(* One device's page: the roles, the camera and the display of             *)
(* app/app.js.                                                             *)
(*                                                                         *)
(* JavaScript runs one callback at a time; what interleaves is everything  *)
(* that waits.  startCamera() waits for the browser three times, the       *)
(* receive loop waits for video frames, the switch to sending goes through *)
(* a zero timer and two awaits, the sender's display loop and its scan     *)
(* loop are timers of their own, and the person taps in between.  The      *)
(* loops are told to stop by one shared flag that the next sender clears,  *)
(* and a callback that waits when the switch goes off may still be waiting *)
(* when it comes on again: then two loops run.                             *)
(***************************************************************************)
EXTENDS Naturals, FiniteSets

CONSTANTS
  Start,       \* calls of startCamera, the first one made by beReceiver
  First,
  Sender,      \* calls of beSender
  None,
  Hasty,       \* the person acts while something they started is still opening
  Overlap      \* the person starts a send while another is on screen

ASSUME ShellAssumption ==
  /\ First \in Start
  /\ Start \cap Sender = {}
  /\ None \notin Start \cup Sender
  /\ Hasty \in BOOLEAN /\ Overlap \in BOOLEAN

VARIABLES
  permitted,   \* the browser grants this page a camera
  cameraOn,    \* the switch
  wired,       \* main() got past beReceiver and attached the file picker
  stop, role,  \* state.stop, state.role
  staged, choice,
  spc,         \* where each call of startCamera is
  stream,      \* the receive loop's handle
  attached,    \* video.srcObject
  live,        \* the streams whose tracks are live, named by the call that opened them
  armed,       \* receive callbacks waiting for a frame
  transfer,    \* what the receive loop has concluded: "open", "done" or "auth"
  xpc,         \* where each call of beSender is
  mode, held,  \* of each call of beSender
  ticking,     \* its display loop is running
  crossed      \* history: a callback flipped this page while its camera was opening

vars == <<permitted, cameraOn, wired, stop, role, staged, choice, spc, stream,
          attached, live, armed, transfer, xpc, mode, held, ticking, crossed>>

hardware == <<stream, attached, live>>
intent == <<staged, choice>>
senders == <<xpc, mode, held, ticking, crossed>>

TypeOK ==
  /\ {permitted, cameraOn, wired, stop, staged, crossed} \subseteq BOOLEAN
  /\ role \in {"receive", "send"}
  /\ choice \in {"none", "encrypted"}
  /\ spc \in [Start -> {"unused", "media", "play", "wake", "over"}]
  /\ stream \in Start \cup {None}
  /\ attached \in Start \cup Sender \cup {None}
  /\ live \subseteq Start \cup Sender
  /\ armed \in Nat
  /\ transfer \in {"open", "done", "auth"}
  /\ xpc \in [Sender -> {"unused", "timer", "identity", "wake", "scanMedia",
                         "scanPlay", "scan", "confirm", "over"}]
  /\ mode \in [Sender -> {"pair", "open"}]
  /\ held \in [Sender -> BOOLEAN]
  /\ ticking \in [Sender -> BOOLEAN]
  /\ choice = "encrypted" => staged

(* beReceiver has painted the code and is about to start the camera. *)
Init ==
  /\ permitted \in BOOLEAN
  /\ cameraOn \in BOOLEAN
  /\ wired = ~cameraOn
  /\ stop = FALSE
  /\ role = "receive"
  /\ staged = FALSE
  /\ choice = "none"
  /\ spc = [c \in Start |-> IF c = First /\ cameraOn THEN "media" ELSE "unused"]
  /\ stream = None
  /\ attached = None
  /\ live = {}
  /\ armed = 0
  /\ transfer = "open"
  /\ xpc = [s \in Sender |-> "unused"]
  /\ mode = [s \in Sender |-> "open"]
  /\ held = [s \in Sender |-> FALSE]
  /\ ticking = [s \in Sender |-> FALSE]
  /\ crossed = FALSE

-----------------------------------------------------------------------------
(* startCamera *)

Streaming == stream # None /\ stream \in live

(* Mutant of MayStart: the switch opens the receive camera of a sender too. *)
MayStartAnyRole == ~Streaming /\ ~stop

(* startCamera() returns early over a running camera or another role. *)
MayStart == ~Streaming /\ ~stop /\ role = "receive"

(* schedule(): re-arms only while the loop is wanted. *)
Schedule(n) == armed' = IF stop \/ ~cameraOn THEN n ELSE n + 1

(* getUserMedia resolves: the light is on and the element shows the stream. *)
StartMedia(c) ==
  /\ spc[c] = "media"
  /\ permitted
  /\ spc' = [spc EXCEPT ![c] = "play"]
  /\ live' = live \cup {c}
  /\ attached' = c
  /\ UNCHANGED <<permitted, cameraOn, wired, stop, role, intent, stream, armed,
                 transfer, senders>>

(* play() resolves and the call's stream becomes the loop's handle. *)
StartPlay(c) ==
  /\ spc[c] = "play"
  /\ attached = c
  /\ spc' = [spc EXCEPT ![c] = "wake"]
  /\ stream' = c
  /\ UNCHANGED <<permitted, cameraOn, wired, stop, role, intent, attached, live,
                 armed, transfer, senders>>

(* The wake lock settles either way; then the frame loop starts. *)
StartLoop(c) ==
  /\ spc[c] = "wake"
  /\ spc' = [spc EXCEPT ![c] = "over"]
  /\ Schedule(armed)
  /\ wired' = (wired \/ c = First)
  /\ UNCHANGED <<permitted, cameraOn, stop, role, intent, hardware, transfer, senders>>

(* getUserMedia is refused, or play() is cut short because another call      *)
(* attached its own stream.  The switch handles the error by turning itself  *)
(* off; thrown by the first call it ends main() instead.                     *)
StartFails(c) ==
  /\ \/ spc[c] = "media" /\ ~permitted
     \/ spc[c] = "play" /\ attached # c
  /\ spc' = [spc EXCEPT ![c] = "over"]
  /\ cameraOn' = (cameraOn /\ c = First)
  /\ UNCHANGED <<permitted, wired, stop, role, intent, hardware, armed, transfer, senders>>

-----------------------------------------------------------------------------
(* The person *)

Opening ==
  \/ \E c \in Start : spc[c] \in {"media", "play", "wake"}
  \/ \E s \in Sender : xpc[s] \in {"timer", "identity", "wake", "scanMedia", "scanPlay"}

Sending == \E s \in Sender : ticking[s] \/ xpc[s] \notin {"unused", "over"}

MayAct == Hasty \/ ~Opening
MaySend == wired /\ MayAct /\ (Overlap \/ ~Sending)

(* Mutant of StopCamera: the handle is dropped, its track goes on. *)
StopCameraLive == stream' = None /\ UNCHANGED <<attached, live>>

(* stopCamera() ends the loop's own stream, whatever that is by now. *)
StopCamera ==
  /\ live' = live \ {stream}
  /\ stream' = None
  /\ UNCHANGED attached

ToggleOff ==
  /\ MayAct
  /\ cameraOn
  /\ cameraOn' = FALSE
  /\ StopCamera
  /\ UNCHANGED <<permitted, wired, stop, role, intent, spc, armed, transfer, senders>>

ToggleOn ==
  /\ MayAct
  /\ ~cameraOn
  /\ cameraOn' = TRUE
  /\ IF MayStart
     THEN \E c \in Start \ {First} :
            spc[c] = "unused" /\ spc' = [spc EXCEPT ![c] = "media"]
     ELSE UNCHANGED spc
  /\ UNCHANGED <<permitted, wired, stop, role, intent, hardware, armed, transfer, senders>>

StageSend ==
  /\ MaySend
  /\ ~staged
  /\ staged' = TRUE
  /\ choice' = "none"
  /\ UNCHANGED <<permitted, cameraOn, wired, stop, role, spc, hardware, armed,
                 transfer, senders>>

(* Mutant of Unstage: the armed choice outlives the payload. *)
UnstageKeepsChoice == staged' = FALSE /\ UNCHANGED choice

Unstage == staged' = FALSE /\ choice' = "none"

CancelSend ==
  /\ MayAct
  /\ staged
  /\ Unstage
  /\ UNCHANGED <<permitted, cameraOn, wired, stop, role, spc, hardware, armed,
                 transfer, senders>>

(* With the camera off the choice is refused; otherwise it arms the flip. *)
ChooseEncrypted ==
  /\ MaySend
  /\ staged
  /\ cameraOn
  /\ choice' = "encrypted"
  /\ UNCHANGED <<permitted, cameraOn, wired, stop, role, staged, spc, hardware,
                 armed, transfer, senders>>

(* beSender will be called from a zero timer; until then the flag is up. *)
Enlist(s, m) ==
  /\ xpc[s] = "unused"
  /\ xpc' = [xpc EXCEPT ![s] = "timer"]
  /\ mode' = [mode EXCEPT ![s] = m]
  /\ stop' = TRUE
  /\ UNCHANGED <<held, ticking>>

ChooseOpen(s) ==
  /\ MaySend
  /\ staged
  /\ Enlist(s, "open")
  /\ UNCHANGED crossed
  /\ StopCamera
  /\ Unstage
  /\ UNCHANGED <<permitted, cameraOn, wired, role, spc, armed, transfer>>

-----------------------------------------------------------------------------
(* The receive loop *)

(* Mutant of Wanted: the loops do not look at the switch. *)
WantedSwitchless == ~stop

(* What both frame loops ask before they go on. *)
Wanted == ~stop /\ cameraOn

(* A callback that comes after the loop was stopped ends it.  One armed       *)
(* before the switch went off "still fires once afterwards": at any time, or, *)
(* without a frame to bring it, not before the camera is on again.            *)
FireEnds ==
  /\ armed > 0
  /\ ~Wanted
  /\ armed' = armed - 1
  /\ UNCHANGED <<permitted, cameraOn, wired, stop, role, intent, spc, hardware,
                 transfer, senders>>

(* A callback over a frame of a running camera, whichever call opened it. *)
Fire == armed > 0 /\ Wanted /\ attached \in live

(* Mutant of FireOn: a path through onFrame that forgets to re-arm. *)
FireOnForgets ==
  /\ Fire
  /\ armed' = armed - 1
  /\ UNCHANGED <<permitted, cameraOn, wired, stop, role, intent, spc, hardware,
                 transfer, senders>>

(* A frame that decodes to nothing, is ignored, makes progress, is refused or *)
(* throws concludes nothing: the loop re-arms.                                *)
FireOn ==
  /\ Fire
  /\ Schedule(armed - 1)
  /\ UNCHANGED <<permitted, cameraOn, wired, stop, role, intent, spc, hardware,
                 transfer, senders>>

(* A start is under way whose stream the loop's handle does not hold yet. *)
HandleDue == \E c \in Start : spc[c] \in {"media", "play"}

(* Mutant of TakeChoice: the flip leaves the choice armed. *)
TakeChoiceNot == UNCHANGED choice

TakeChoice == choice' = "none"

(* A PAIR_REQ while an encrypted send is staged: become the sender. *)
FireFlips(s) ==
  /\ Fire
  /\ staged /\ choice = "encrypted"
  /\ Enlist(s, "pair")
  /\ TakeChoice
  /\ crossed' = (crossed \/ HandleDue)
  /\ live' = live \ {stream}
  /\ armed' = armed - 1
  /\ UNCHANGED <<permitted, cameraOn, wired, role, staged, spc, stream, attached, transfer>>

(* The last symbol: finish() closes whatever the element shows. *)
FireDone ==
  /\ Fire
  /\ transfer = "open"
  /\ transfer' = "done"
  /\ live' = live \ {attached}
  /\ armed' = armed - 1
  /\ UNCHANGED <<permitted, cameraOn, wired, stop, role, intent, spc, stream,
                 attached, senders>>

(* The tag rejects the reassembled object. *)
FireAuth ==
  /\ Fire
  /\ transfer = "open"
  /\ transfer' = "auth"
  /\ stop' = TRUE
  /\ live' = live \ {stream}
  /\ armed' = armed - 1
  /\ UNCHANGED <<permitted, cameraOn, wired, role, intent, spc, stream, attached, senders>>

-----------------------------------------------------------------------------
(* beSender *)

(* The zero timer: the flag comes down and beSender starts.  The flip reads   *)
(* the staged payload only now, and fails if it has been cancelled.           *)
SenderTimer(s) ==
  /\ xpc[s] = "timer"
  /\ stop' = FALSE
  /\ xpc' = [xpc EXCEPT ![s] = IF mode[s] = "pair" /\ ~staged THEN "over" ELSE "identity"]
  /\ UNCHANGED <<permitted, cameraOn, wired, role, intent, spc, hardware, armed,
                 transfer, mode, held, ticking, crossed>>

(* loadIdentity resolves and Send.reply or Send.open builds the transmitter. *)
SenderIdentity(s) ==
  /\ xpc[s] = "identity"
  /\ held' = [held EXCEPT ![s] = mode[s] = "pair"]
  /\ xpc' = [xpc EXCEPT ![s] = "wake"]
  /\ UNCHANGED <<permitted, cameraOn, wired, stop, role, intent, spc, hardware,
                 armed, transfer, mode, ticking, crossed>>

(* scanOneFrame returns at once with the camera off. *)
BeginScan == IF cameraOn THEN "scanMedia" ELSE "over"

(* The display loop starts first, then the scan; beSender returns and the     *)
(* flip forgets the payload it was called with.                               *)
SenderShows(s) ==
  /\ xpc[s] = "wake"
  /\ ticking' = [ticking EXCEPT ![s] = ~stop]
  /\ role' = "send"
  /\ xpc' = [xpc EXCEPT ![s] = BeginScan]
  /\ staged' = (staged /\ mode[s] = "open")
  /\ UNCHANGED <<permitted, cameraOn, wired, stop, choice, spc, hardware, armed,
                 transfer, mode, held, crossed>>

Tick(s) ==
  /\ ticking[s]
  /\ stop
  /\ ticking' = [ticking EXCEPT ![s] = FALSE]
  /\ UNCHANGED <<permitted, cameraOn, wired, stop, role, intent, spc, hardware,
                 armed, transfer, xpc, mode, held, crossed>>

ScanMedia(s) ==
  /\ xpc[s] = "scanMedia"
  /\ IF permitted
     THEN /\ xpc' = [xpc EXCEPT ![s] = "scanPlay"]
          /\ live' = live \cup {s}
          /\ attached' = s
     ELSE /\ xpc' = [xpc EXCEPT ![s] = "over"]
          /\ UNCHANGED <<live, attached>>
  /\ UNCHANGED <<permitted, cameraOn, wired, stop, role, intent, spc, stream,
                 armed, transfer, mode, held, ticking, crossed>>

ScanPlay(s) ==
  /\ xpc[s] = "scanPlay"
  /\ xpc' = [xpc EXCEPT ![s] = IF attached = s THEN "scan" ELSE "over"]
  /\ UNCHANGED <<permitted, cameraOn, wired, stop, role, intent, spc, hardware,
                 armed, transfer, mode, held, ticking, crossed>>

(* One pass of the scan loop finds it is no longer wanted. *)
ScanEnds(s) ==
  /\ xpc[s] = "scan"
  /\ ~Wanted
  /\ xpc' = [xpc EXCEPT ![s] = "over"]
  /\ live' = live \ {s}
  /\ UNCHANGED <<permitted, cameraOn, wired, stop, role, intent, spc, stream,
                 attached, armed, transfer, mode, held, ticking, crossed>>

ScanHit(s) ==
  /\ xpc[s] = "scan"
  /\ Wanted
  /\ attached \in live
  /\ live' = live \ {s}

(* The receiver's REVEAL opens the commitment, or does not. *)
ScanReveal(s) ==
  /\ ScanHit(s)
  /\ held[s]
  /\ \/ xpc' = [xpc EXCEPT ![s] = "confirm"] /\ UNCHANGED stop
     \/ xpc' = [xpc EXCEPT ![s] = "over"] /\ stop' = TRUE
  /\ UNCHANGED <<permitted, cameraOn, wired, role, intent, spc, stream, attached,
                 armed, transfer, mode, held, ticking, crossed>>

(* The person confirms the digits: release, then scan for COMPLETE. *)
Confirm(s) ==
  /\ xpc[s] = "confirm"
  /\ held' = [held EXCEPT ![s] = FALSE]
  /\ xpc' = [xpc EXCEPT ![s] = BeginScan]
  /\ UNCHANGED <<permitted, cameraOn, wired, stop, role, intent, spc, hardware,
                 armed, transfer, mode, ticking, crossed>>

ScanComplete(s) ==
  /\ ScanHit(s)
  /\ ~held[s]
  /\ stop' = TRUE
  /\ xpc' = [xpc EXCEPT ![s] = "over"]
  /\ UNCHANGED <<permitted, cameraOn, wired, role, intent, spc, stream, attached,
                 armed, transfer, mode, held, ticking, crossed>>

-----------------------------------------------------------------------------
Person ==
  \/ ToggleOff \/ ToggleOn \/ StageSend \/ CancelSend \/ ChooseEncrypted
  \/ \E s \in Sender : ChooseOpen(s) \/ Confirm(s)

Browser(c) == StartMedia(c) \/ StartPlay(c) \/ StartLoop(c) \/ StartFails(c)

Loop == FireEnds \/ FireOn \/ FireDone \/ FireAuth \/ \E s \in Sender : FireFlips(s)

Send(s) ==
  \/ SenderTimer(s) \/ SenderIdentity(s) \/ SenderShows(s)
  \/ ScanMedia(s) \/ ScanPlay(s) \/ ScanEnds(s)

Next ==
  \/ Person
  \/ \E c \in Start : Browser(c)
  \/ Loop
  \/ \E s \in Sender : Send(s) \/ Tick(s) \/ ScanReveal(s) \/ ScanComplete(s)

(* Promises settle and timers come due; nobody is obliged to tap, no frame to *)
(* decode, and no callback to come once the camera is off.                    *)
Fairness ==
  /\ \A c \in Start : WF_vars(Browser(c))
  /\ \A s \in Sender : WF_vars(Send(s)) /\ WF_vars(Tick(s))

Spec == Init /\ [][Next]_vars /\ Fairness

-----------------------------------------------------------------------------
(* Properties *)

(* "One camera, one preview, one owner": two calls never hold the hardware at *)
(* once, across the switch turned off and on, the flip to sending and the     *)
(* sender's two scans.  The one way to a second stream, and never to a third, *)
(* is a callback of an earlier loop that flips the page before startCamera()  *)
(* has its handle: the flip then closes nothing.                              *)
OneCamera == Cardinality(live) <= IF crossed THEN 2 ELSE 1

(* A receiver whose camera runs and whose switch is on is listening: every    *)
(* path that leaves the loop also closed the camera or concluded the          *)
(* transfer ("a receiver that never hears again").                            *)
NeverDeaf ==
  role = "receive" /\ Wanted /\ Streaming /\ transfer = "open" /\ ~Opening
    => armed >= 1

(* At most one call of beSender is painting the display ("Only one transfer   *)
(* is ever in flight"), also when two loops that survived the switch see the  *)
(* same PAIR_REQ.                                                             *)
OneTransferInFlight == Cardinality({s \in Sender : ticking[s]}) <= 1

(* While this device sends, the receive loop's own stream is closed: only the *)
(* sender's scan drives the camera ("a second consumer would fight it for the *)
(* device"), unless the flip came before the stream was in the handle.        *)
SenderOwnsCamera == role = "send" /\ Streaming => crossed

(* "Off ends the track": once the switch is off the camera goes dark or is    *)
(* switched on again.  A flip before the handle can lose one track of the     *)
(* receive camera for good, never one of a sender's scan.                     *)
OffGoesDark ==
  ~cameraOn ~> (cameraOn \/ live = {} \/ (crossed /\ live \subseteq Start))

(* "Off ends the track: the indicator light goes out": with the switch off,   *)
(* nothing opening and no scan left to notice it, no stream is live.          *)
OffIsDark ==
  ~cameraOn /\ ~Opening /\ (\A s \in Sender : xpc[s] # "scan") => live = {}

(* A device that is refused a camera can still pick a file and send it        *)
(* unencrypted: the page finishes starting.                                   *)
CameraLessCanSend == spc[First] = "over" => wired
=============================================================================
