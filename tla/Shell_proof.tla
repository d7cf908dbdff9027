---------------------------- MODULE Shell_proof ----------------------------
(***************************************************************************)
(* The page's invariants, for any number of starts of the camera and of    *)
(* sends, and any interleaving of their waits with the loops and the       *)
(* person.                                                                 *)
(*                                                                         *)
(* Each theorem names what it asks of the person, and no more.  That one   *)
(* display is painted needs a person who does not start a send over        *)
(* another (~Overlap) but may be as hasty as they like.  That the receiver *)
(* stays attentive and hands its camera over needs a patient one (~Hasty), *)
(* who may start sends over each other.  What is claimed of the light      *)
(* needs both: a scan that a second send's scan displaces leaves its track *)
(* running.                                                                *)
(*                                                                         *)
(* Nothing is asked of the callbacks.  One that survives the switch turned *)
(* off and on may flip the page while its camera opens (crossed); the      *)
(* theorems about the camera say what holds before that and what it can    *)
(* cost.                                                                   *)
(***************************************************************************)
EXTENDS Shell, TLAPS, FiniteSetTheorems

-----------------------------------------------------------------------------
(* The invariants *)

Underway(s) == xpc[s] \in {"timer", "identity", "wake"}
Going(s) == xpc[s] \notin {"unused", "over"}
Busy(s) == ticking[s] \/ Going(s)
IsOpening(c) == spc[c] \in {"media", "play", "wake"}

(* An armed choice has its payload, and no sender is about to take it away.   *)
ChoiceIsStaged ==
  choice = "encrypted" => staged /\ \A s \in Sender : ~Underway(s)

TypeInv == TypeOK /\ ChoiceIsStaged

(* One call of beSender at a time, and none while another may be flipped to.  *)
OneSender == \A s, t \in Sender : Busy(s) /\ Busy(t) => s = t
ArmedWhenFree == choice = "encrypted" => \A s \in Sender : ~Busy(s)

SendInv == OneSender /\ ArmedWhenFree

(* One call of startCamera at a time, and only with the switch on.            *)
OneStart == \A c, d \in Start : IsOpening(c) /\ IsOpening(d) => c = d
StartIsOn == \A c \in Start : IsOpening(c) => cameraOn

(* Until its stream is in the handle nothing sends, unless a flip crossed it. *)
StartIsAlone ==
  HandleDue /\ ~crossed => role = "receive" /\ \A s \in Sender : ~Going(s)

(* How far a call has come is what it holds.                                  *)
StartHolds ==
  \A c \in Start :
    /\ spc[c] \in {"media", "play"} => ~Streaming
    /\ spc[c] \in {"unused", "media", "play"} => stream # c
    /\ spc[c] = "play" => attached = c \/ crossed
    /\ spc[c] = "wake" => stream = c

StartInv == OneStart /\ StartIsOn /\ StartIsAlone /\ StartHolds

(* The loop's stream is closed from the moment a sender is enlisted, not only *)
(* from the moment it shows.                                                  *)
SendingCloses ==
  ~crossed /\ (role = "send" \/ \E s \in Sender : Going(s)) => ~Streaming

(* A page that still receives has at most prepared to send.                   *)
ReceiverShowsNothing ==
  role = "receive" =>
    \A s \in Sender : ~ticking[s] /\ (Underway(s) \/ xpc[s] \in {"unused", "over"})

(* A page that was crossed sends, or is on its way to: it never opens its     *)
(* receive camera again.                                                      *)
CrossedSends ==
  crossed =>
    /\ wired
    /\ role = "send" \/ \E s \in Sender : Underway(s) /\ (xpc[s] = "timer" => staged)

RoleInv == SendingCloses /\ ReceiverShowsNothing /\ CrossedSends

(* A start, and a running stream, is wanted, and the loop armed or about to   *)
(* be, until the transfer is concluded.                                       *)
StartIsWanted == HandleDue /\ ~crossed /\ transfer = "open" => Wanted

Listening ==
  Streaming /\ role = "receive" /\ transfer = "open" /\ ~crossed =>
    /\ Wanted
    /\ armed >= 1 \/ \E c \in Start : IsOpening(c)

(* No stream of the loop's runs with the switch off.                          *)
StreamIsOn == Streaming => cameraOn

LoopInv == StartIsWanted /\ Listening /\ StreamIsOn

(* Nothing can be staged before the first call is over, and the first call,   *)
(* if the browser let it, gets to its end.                                    *)
FirstWires ==
  /\ ~wired => ~staged /\ \A s \in Sender : xpc[s] = "unused"
  /\ IsOpening(First) => ~wired
  /\ permitted /\ ~wired => IsOpening(First)

CameraInv == StartInv /\ RoleInv /\ LoopInv /\ FirstWires

(* Every stream that runs has an owner that will close it, but for the one a  *)
(* crossed start left, and a scan that waits for its element has not been     *)
(* displaced.                                                                 *)
ScanHolds == \A s \in Sender : xpc[s] = "scanPlay" => attached = s
CrossedHasTrack == crossed => \A c \in Start : spc[c] # "media"
OneStartLives == \A c, d \in Start \cap live : c = d
ScansOwn == \A s \in Sender \cap live : xpc[s] \in {"scanPlay", "scan"}
StartsOwn == \A c \in Start \cap live : c = stream \/ spc[c] = "play" \/ crossed

LightInv == ScanHolds /\ CrossedHasTrack /\ OneStartLives /\ ScansOwn /\ StartsOwn

-----------------------------------------------------------------------------
(* Initially *)

LEMMA InitEstablishes ==
  Init => TypeInv /\ SendInv /\ CameraInv /\ LightInv
<1>. SUFFICES ASSUME Init PROVE TypeInv /\ SendInv /\ CameraInv /\ LightInv
  OBVIOUS
<1>. USE ShellAssumption DEF Init
<1>1. TypeInv
  BY DEF TypeInv, TypeOK, ChoiceIsStaged
<1>2. SendInv
  BY DEF SendInv, OneSender, ArmedWhenFree, Busy, Going
<1>3. StartInv
  BY DEF StartInv, OneStart, StartIsOn, StartIsAlone, StartHolds, IsOpening, HandleDue,
         Streaming, Going
<1>4. RoleInv
  BY DEF RoleInv, SendingCloses, ReceiverShowsNothing, CrossedSends, Streaming
<1>5. LoopInv
  BY DEF LoopInv, StartIsWanted, Listening, StreamIsOn, Streaming, HandleDue, Wanted
<1>6. FirstWires
  BY DEF FirstWires, IsOpening
<1>7. LightInv
  BY DEF LightInv, ScanHolds, CrossedHasTrack, OneStartLives, ScansOwn, StartsOwn
<1>. QED
  BY <1>1, <1>2, <1>3, <1>4, <1>5, <1>6, <1>7 DEF CameraInv

-----------------------------------------------------------------------------
(* Types and the choice.  A person who is both hasty and overlapping can arm  *)
(* a payload that a sender already under way is about to forget.              *)
LEMMA TypeStep ==
  ASSUME ~(Hasty /\ Overlap), TypeInv, [Next]_vars
  PROVE  TypeInv'
<1>. USE ShellAssumption
     DEF TypeInv, TypeOK, ChoiceIsStaged, Underway, Sending, Opening,
         hardware, intent, senders
<1>1. CASE ToggleOff
  BY <1>1 DEF ToggleOff, StopCamera, MayAct
<1>2. CASE ToggleOn
  BY <1>2 DEF ToggleOn, MayAct, MayStart
<1>3. CASE StageSend
  BY <1>3 DEF StageSend, MaySend, MayAct
<1>4. CASE CancelSend
  BY <1>4 DEF CancelSend, Unstage, MayAct
<1>5. CASE ChooseEncrypted
  BY <1>5 DEF ChooseEncrypted, MaySend, MayAct
<1>6. CASE FireEnds
  BY <1>6 DEF FireEnds
<1>7. CASE FireOn
  BY <1>7 DEF FireOn, Fire, Schedule
<1>8. CASE FireDone
  BY <1>8 DEF FireDone, Fire
<1>9. CASE FireAuth
  BY <1>9 DEF FireAuth, Fire
<1>10. ASSUME NEW s \in Sender, ChooseOpen(s) PROVE TypeInv'
  BY <1>10 DEF ChooseOpen, MaySend, MayAct, Enlist, StopCamera, Unstage
<1>11. ASSUME NEW s \in Sender, Confirm(s) PROVE TypeInv'
  BY <1>11 DEF Confirm, BeginScan
<1>12. ASSUME NEW s \in Sender, FireFlips(s) PROVE TypeInv'
  BY <1>12 DEF FireFlips, Fire, Enlist, TakeChoice
<1>13. ASSUME NEW s \in Sender, SenderTimer(s) PROVE TypeInv'
  BY <1>13 DEF SenderTimer
<1>14. ASSUME NEW s \in Sender, SenderIdentity(s) PROVE TypeInv'
  BY <1>14 DEF SenderIdentity
<1>15. ASSUME NEW s \in Sender, SenderShows(s) PROVE TypeInv'
  BY <1>15 DEF SenderShows, BeginScan
<1>16. ASSUME NEW s \in Sender, ScanMedia(s) PROVE TypeInv'
  BY <1>16 DEF ScanMedia
<1>17. ASSUME NEW s \in Sender, ScanPlay(s) PROVE TypeInv'
  BY <1>17 DEF ScanPlay
<1>18. ASSUME NEW s \in Sender, ScanEnds(s) PROVE TypeInv'
  BY <1>18 DEF ScanEnds
<1>19. ASSUME NEW s \in Sender, Tick(s) PROVE TypeInv'
  BY <1>19 DEF Tick
<1>20. ASSUME NEW s \in Sender, ScanReveal(s) PROVE TypeInv'
  BY <1>20 DEF ScanReveal, ScanHit
<1>21. ASSUME NEW s \in Sender, ScanComplete(s) PROVE TypeInv'
  BY <1>21 DEF ScanComplete, ScanHit
<1>22. ASSUME NEW c \in Start, StartMedia(c) PROVE TypeInv'
  BY <1>22 DEF StartMedia
<1>23. ASSUME NEW c \in Start, StartPlay(c) PROVE TypeInv'
  BY <1>23 DEF StartPlay
<1>24. ASSUME NEW c \in Start, StartLoop(c) PROVE TypeInv'
  BY <1>24 DEF StartLoop, Schedule
<1>25. ASSUME NEW c \in Start, StartFails(c) PROVE TypeInv'
  BY <1>25 DEF StartFails
<1>26. CASE UNCHANGED vars
  BY <1>26 DEF vars
<1>. QED
  BY <1>1, <1>2, <1>3, <1>4, <1>5, <1>6, <1>7, <1>8, <1>9, <1>10, <1>11, <1>12, <1>13, <1>14, <1>15, <1>16, <1>17, <1>18, <1>19, <1>20, <1>21, <1>22, <1>23, <1>24, <1>25, <1>26 DEF Next, Person, Browser, Loop, Send

(* One sender: a send is started, and a choice armed, only while none is      *)
(* busy; a flip takes the choice, so a second loop cannot flip again.         *)
LEMMA SendStep ==
  ASSUME ~Overlap, TypeInv, SendInv, [Next]_vars
  PROVE  SendInv'
<1>. USE ShellAssumption
     DEF TypeInv, TypeOK, SendInv, OneSender, ArmedWhenFree, Busy, Going, Sending,
         hardware, intent, senders
<1>1. CASE ToggleOff
  BY <1>1 DEF ToggleOff, StopCamera, MayAct
<1>2. CASE ToggleOn
  BY <1>2 DEF ToggleOn, MayAct, MayStart
<1>3. CASE StageSend
  BY <1>3 DEF StageSend, MaySend, MayAct
<1>4. CASE CancelSend
  BY <1>4 DEF CancelSend, Unstage, MayAct
<1>5. CASE ChooseEncrypted
  BY <1>5 DEF ChooseEncrypted, MaySend, MayAct
<1>6. CASE FireEnds
  BY <1>6 DEF FireEnds
<1>7. CASE FireOn
  BY <1>7 DEF FireOn, Fire, Schedule
<1>8. CASE FireDone
  BY <1>8 DEF FireDone, Fire
<1>9. CASE FireAuth
  BY <1>9 DEF FireAuth, Fire
<1>10. ASSUME NEW s \in Sender, ChooseOpen(s) PROVE SendInv'
  BY <1>10 DEF ChooseOpen, MaySend, MayAct, Enlist, StopCamera, Unstage
<1>11. ASSUME NEW s \in Sender, Confirm(s) PROVE SendInv'
  BY <1>11 DEF Confirm, BeginScan
<1>12. ASSUME NEW s \in Sender, FireFlips(s) PROVE SendInv'
  BY <1>12 DEF FireFlips, Fire, Enlist, TakeChoice
<1>13. ASSUME NEW s \in Sender, SenderTimer(s) PROVE SendInv'
  BY <1>13 DEF SenderTimer
<1>14. ASSUME NEW s \in Sender, SenderIdentity(s) PROVE SendInv'
  BY <1>14 DEF SenderIdentity
<1>15. ASSUME NEW s \in Sender, SenderShows(s) PROVE SendInv'
  BY <1>15 DEF SenderShows, BeginScan
<1>16. ASSUME NEW s \in Sender, ScanMedia(s) PROVE SendInv'
  BY <1>16 DEF ScanMedia
<1>17. ASSUME NEW s \in Sender, ScanPlay(s) PROVE SendInv'
  BY <1>17 DEF ScanPlay
<1>18. ASSUME NEW s \in Sender, ScanEnds(s) PROVE SendInv'
  BY <1>18 DEF ScanEnds
<1>19. ASSUME NEW s \in Sender, Tick(s) PROVE SendInv'
  BY <1>19 DEF Tick
<1>20. ASSUME NEW s \in Sender, ScanReveal(s) PROVE SendInv'
  BY <1>20 DEF ScanReveal, ScanHit
<1>21. ASSUME NEW s \in Sender, ScanComplete(s) PROVE SendInv'
  BY <1>21 DEF ScanComplete, ScanHit
<1>22. ASSUME NEW c \in Start, StartMedia(c) PROVE SendInv'
  BY <1>22 DEF StartMedia
<1>23. ASSUME NEW c \in Start, StartPlay(c) PROVE SendInv'
  BY <1>23 DEF StartPlay
<1>24. ASSUME NEW c \in Start, StartLoop(c) PROVE SendInv'
  BY <1>24 DEF StartLoop, Schedule
<1>25. ASSUME NEW c \in Start, StartFails(c) PROVE SendInv'
  BY <1>25 DEF StartFails
<1>26. CASE UNCHANGED vars
  BY <1>26 DEF vars
<1>. QED
  BY <1>1, <1>2, <1>3, <1>4, <1>5, <1>6, <1>7, <1>8, <1>9, <1>10, <1>11, <1>12, <1>13, <1>14, <1>15, <1>16, <1>17, <1>18, <1>19, <1>20, <1>21, <1>22, <1>23, <1>24, <1>25, <1>26 DEF Next, Person, Browser, Loop, Send

(* The receive camera.  The patient person waits for a start, and for a send  *)
(* to show; a callback of an earlier loop need not, and what it does to a     *)
(* start is what crossed remembers.                                           *)
LEMMA StartStep ==
  ASSUME ~Hasty, TypeInv, StartInv, RoleInv, FirstWires, [Next]_vars
  PROVE  StartInv'
<1>. USE ShellAssumption
     DEF TypeInv, TypeOK, ChoiceIsStaged, StartInv, OneStart, StartIsOn, StartIsAlone, StartHolds,
         RoleInv, SendingCloses, ReceiverShowsNothing, CrossedSends, FirstWires,
         Underway, Going, IsOpening, HandleDue, Streaming, Wanted, Opening,
         hardware, intent, senders
<1>1. CASE ToggleOff
  BY <1>1 DEF ToggleOff, StopCamera, MayAct
<1>2. CASE ToggleOn
  BY <1>2 DEF ToggleOn, MayAct, MayStart
<1>3. CASE StageSend
  BY <1>3 DEF StageSend, MaySend, MayAct
<1>4. CASE CancelSend
  BY <1>4 DEF CancelSend, Unstage, MayAct
<1>5. CASE ChooseEncrypted
  BY <1>5 DEF ChooseEncrypted, MaySend, MayAct
<1>6. CASE FireEnds
  BY <1>6 DEF FireEnds
<1>7. CASE FireOn
  BY <1>7 DEF FireOn, Fire, Schedule
<1>8. CASE FireDone
  BY <1>8 DEF FireDone, Fire
<1>9. CASE FireAuth
  BY <1>9 DEF FireAuth, Fire
<1>10. ASSUME NEW s \in Sender, ChooseOpen(s) PROVE StartInv'
  BY <1>10 DEF ChooseOpen, MaySend, MayAct, Enlist, StopCamera, Unstage
<1>11. ASSUME NEW s \in Sender, Confirm(s) PROVE StartInv'
  BY <1>11 DEF Confirm, BeginScan
<1>12. ASSUME NEW s \in Sender, FireFlips(s) PROVE StartInv'
  BY <1>12 DEF FireFlips, Fire, Enlist, TakeChoice
<1>13. ASSUME NEW s \in Sender, SenderTimer(s) PROVE StartInv'
  BY <1>13 DEF SenderTimer
<1>14. ASSUME NEW s \in Sender, SenderIdentity(s) PROVE StartInv'
  BY <1>14 DEF SenderIdentity
<1>15. ASSUME NEW s \in Sender, SenderShows(s) PROVE StartInv'
  BY <1>15 DEF SenderShows, BeginScan
<1>16. ASSUME NEW s \in Sender, ScanMedia(s) PROVE StartInv'
  BY <1>16 DEF ScanMedia
<1>17. ASSUME NEW s \in Sender, ScanPlay(s) PROVE StartInv'
  BY <1>17 DEF ScanPlay
<1>18. ASSUME NEW s \in Sender, ScanEnds(s) PROVE StartInv'
  BY <1>18 DEF ScanEnds
<1>19. ASSUME NEW s \in Sender, Tick(s) PROVE StartInv'
  BY <1>19 DEF Tick
<1>20. ASSUME NEW s \in Sender, ScanReveal(s) PROVE StartInv'
  BY <1>20 DEF ScanReveal, ScanHit
<1>21. ASSUME NEW s \in Sender, ScanComplete(s) PROVE StartInv'
  BY <1>21 DEF ScanComplete, ScanHit
<1>22. ASSUME NEW c \in Start, StartMedia(c) PROVE StartInv'
  BY <1>22 DEF StartMedia
<1>23. ASSUME NEW c \in Start, StartPlay(c) PROVE StartInv'
  BY <1>23 DEF StartPlay
<1>24. ASSUME NEW c \in Start, StartLoop(c) PROVE StartInv'
  BY <1>24 DEF StartLoop, Schedule
<1>25. ASSUME NEW c \in Start, StartFails(c) PROVE StartInv'
  BY <1>25 DEF StartFails
<1>26. CASE UNCHANGED vars
  BY <1>26 DEF vars
<1>. QED
  BY <1>1, <1>2, <1>3, <1>4, <1>5, <1>6, <1>7, <1>8, <1>9, <1>10, <1>11, <1>12, <1>13, <1>14, <1>15, <1>16, <1>17, <1>18, <1>19, <1>20, <1>21, <1>22, <1>23, <1>24, <1>25, <1>26 DEF Next, Person, Browser, Loop, Send

(* The role.  A flip that did not cross a start closed the stream; after one  *)
(* that did, no start is begun any more.                                      *)
LEMMA RoleStep ==
  ASSUME ~Hasty, TypeInv, StartInv, RoleInv, FirstWires, [Next]_vars
  PROVE  RoleInv'
<1>. USE ShellAssumption
     DEF TypeInv, TypeOK, ChoiceIsStaged, StartInv, OneStart, StartIsOn, StartIsAlone, StartHolds,
         RoleInv, SendingCloses, ReceiverShowsNothing, CrossedSends, FirstWires,
         Underway, Going, IsOpening, HandleDue, Streaming, Wanted, Opening,
         hardware, intent, senders
<1>1. CASE ToggleOff
  BY <1>1 DEF ToggleOff, StopCamera, MayAct
<1>2. CASE ToggleOn
  BY <1>2 DEF ToggleOn, MayAct, MayStart
<1>3. CASE StageSend
  BY <1>3 DEF StageSend, MaySend, MayAct
<1>4. CASE CancelSend
  BY <1>4 DEF CancelSend, Unstage, MayAct
<1>5. CASE ChooseEncrypted
  BY <1>5 DEF ChooseEncrypted, MaySend, MayAct
<1>6. CASE FireEnds
  BY <1>6 DEF FireEnds
<1>7. CASE FireOn
  BY <1>7 DEF FireOn, Fire, Schedule
<1>8. CASE FireDone
  BY <1>8 DEF FireDone, Fire
<1>9. CASE FireAuth
  BY <1>9 DEF FireAuth, Fire
<1>10. ASSUME NEW s \in Sender, ChooseOpen(s) PROVE RoleInv'
  BY <1>10 DEF ChooseOpen, MaySend, MayAct, Enlist, StopCamera, Unstage
<1>11. ASSUME NEW s \in Sender, Confirm(s) PROVE RoleInv'
  BY <1>11 DEF Confirm, BeginScan
<1>12. ASSUME NEW s \in Sender, FireFlips(s) PROVE RoleInv'
  BY <1>12 DEF FireFlips, Fire, Enlist, TakeChoice
<1>13. ASSUME NEW s \in Sender, SenderTimer(s) PROVE RoleInv'
  BY <1>13 DEF SenderTimer
<1>14. ASSUME NEW s \in Sender, SenderIdentity(s) PROVE RoleInv'
  BY <1>14 DEF SenderIdentity
<1>15. ASSUME NEW s \in Sender, SenderShows(s) PROVE RoleInv'
  BY <1>15 DEF SenderShows, BeginScan
<1>16. ASSUME NEW s \in Sender, ScanMedia(s) PROVE RoleInv'
  BY <1>16 DEF ScanMedia
<1>17. ASSUME NEW s \in Sender, ScanPlay(s) PROVE RoleInv'
  BY <1>17 DEF ScanPlay
<1>18. ASSUME NEW s \in Sender, ScanEnds(s) PROVE RoleInv'
  BY <1>18 DEF ScanEnds
<1>19. ASSUME NEW s \in Sender, Tick(s) PROVE RoleInv'
  BY <1>19 DEF Tick
<1>20. ASSUME NEW s \in Sender, ScanReveal(s) PROVE RoleInv'
  BY <1>20 DEF ScanReveal, ScanHit
<1>21. ASSUME NEW s \in Sender, ScanComplete(s) PROVE RoleInv'
  BY <1>21 DEF ScanComplete, ScanHit
<1>22. ASSUME NEW c \in Start, StartMedia(c) PROVE RoleInv'
  BY <1>22 DEF StartMedia
<1>23. ASSUME NEW c \in Start, StartPlay(c) PROVE RoleInv'
  BY <1>23 DEF StartPlay
<1>24. ASSUME NEW c \in Start, StartLoop(c) PROVE RoleInv'
  BY <1>24 DEF StartLoop, Schedule
<1>25. ASSUME NEW c \in Start, StartFails(c) PROVE RoleInv'
  BY <1>25 DEF StartFails
<1>26. CASE UNCHANGED vars
  BY <1>26 DEF vars
<1>. QED
  BY <1>1, <1>2, <1>3, <1>4, <1>5, <1>6, <1>7, <1>8, <1>9, <1>10, <1>11, <1>12, <1>13, <1>14, <1>15, <1>16, <1>17, <1>18, <1>19, <1>20, <1>21, <1>22, <1>23, <1>24, <1>25, <1>26 DEF Next, Person, Browser, Loop, Send

(* The loop over a running stream.                                            *)
LEMMA LoopStep ==
  ASSUME ~Hasty, TypeInv, StartInv, RoleInv, LoopInv, FirstWires, [Next]_vars
  PROVE  LoopInv'
<1>. USE ShellAssumption
     DEF LoopInv, StartIsWanted, Listening, StreamIsOn,
         TypeInv, TypeOK, ChoiceIsStaged, StartInv, OneStart, StartIsOn, StartIsAlone, StartHolds,
         RoleInv, SendingCloses, ReceiverShowsNothing, CrossedSends, FirstWires,
         Underway, Going, IsOpening, HandleDue, Streaming, Wanted, Opening,
         hardware, intent, senders
<1>1. CASE ToggleOff
  BY <1>1 DEF ToggleOff, StopCamera, MayAct
<1>2. CASE ToggleOn
  BY <1>2 DEF ToggleOn, MayAct, MayStart
<1>3. CASE StageSend
  BY <1>3 DEF StageSend, MaySend, MayAct
<1>4. CASE CancelSend
  BY <1>4 DEF CancelSend, Unstage, MayAct
<1>5. CASE ChooseEncrypted
  BY <1>5 DEF ChooseEncrypted, MaySend, MayAct
<1>6. CASE FireEnds
  BY <1>6 DEF FireEnds
<1>7. CASE FireOn
  BY <1>7 DEF FireOn, Fire, Schedule
<1>8. CASE FireDone
  BY <1>8 DEF FireDone, Fire
<1>9. CASE FireAuth
  BY <1>9 DEF FireAuth, Fire
<1>10. ASSUME NEW s \in Sender, ChooseOpen(s) PROVE LoopInv'
  BY <1>10 DEF ChooseOpen, MaySend, MayAct, Enlist, StopCamera, Unstage
<1>11. ASSUME NEW s \in Sender, Confirm(s) PROVE LoopInv'
  BY <1>11 DEF Confirm, BeginScan
<1>12. ASSUME NEW s \in Sender, FireFlips(s) PROVE LoopInv'
  BY <1>12 DEF FireFlips, Fire, Enlist, TakeChoice
<1>13. ASSUME NEW s \in Sender, SenderTimer(s) PROVE LoopInv'
  BY <1>13 DEF SenderTimer
<1>14. ASSUME NEW s \in Sender, SenderIdentity(s) PROVE LoopInv'
  BY <1>14 DEF SenderIdentity
<1>15. ASSUME NEW s \in Sender, SenderShows(s) PROVE LoopInv'
  BY <1>15 DEF SenderShows, BeginScan
<1>16. ASSUME NEW s \in Sender, ScanMedia(s) PROVE LoopInv'
  BY <1>16 DEF ScanMedia
<1>17. ASSUME NEW s \in Sender, ScanPlay(s) PROVE LoopInv'
  BY <1>17 DEF ScanPlay
<1>18. ASSUME NEW s \in Sender, ScanEnds(s) PROVE LoopInv'
  BY <1>18 DEF ScanEnds
<1>19. ASSUME NEW s \in Sender, Tick(s) PROVE LoopInv'
  BY <1>19 DEF Tick
<1>20. ASSUME NEW s \in Sender, ScanReveal(s) PROVE LoopInv'
  BY <1>20 DEF ScanReveal, ScanHit
<1>21. ASSUME NEW s \in Sender, ScanComplete(s) PROVE LoopInv'
  BY <1>21 DEF ScanComplete, ScanHit
<1>22. ASSUME NEW c \in Start, StartMedia(c) PROVE LoopInv'
  BY <1>22 DEF StartMedia
<1>23. ASSUME NEW c \in Start, StartPlay(c) PROVE LoopInv'
  BY <1>23 DEF StartPlay
<1>24. ASSUME NEW c \in Start, StartLoop(c) PROVE LoopInv'
  BY <1>24 DEF StartLoop, Schedule
<1>25. ASSUME NEW c \in Start, StartFails(c) PROVE LoopInv'
  BY <1>25 DEF StartFails
<1>26. CASE UNCHANGED vars
  BY <1>26 DEF vars
<1>. QED
  BY <1>1, <1>2, <1>3, <1>4, <1>5, <1>6, <1>7, <1>8, <1>9, <1>10, <1>11, <1>12, <1>13, <1>14, <1>15, <1>16, <1>17, <1>18, <1>19, <1>20, <1>21, <1>22, <1>23, <1>24, <1>25, <1>26 DEF Next, Person, Browser, Loop, Send

(* The first call.                                                            *)
LEMMA FirstStep ==
  ASSUME ~Hasty, TypeInv, StartInv, RoleInv, FirstWires, [Next]_vars
  PROVE  FirstWires'
<1>. USE ShellAssumption
     DEF TypeInv, TypeOK, ChoiceIsStaged, StartInv, OneStart, StartIsOn, StartIsAlone, StartHolds,
         RoleInv, SendingCloses, ReceiverShowsNothing, CrossedSends, FirstWires,
         Underway, Going, IsOpening, HandleDue, Streaming, Wanted, Opening,
         hardware, intent, senders
<1>1. CASE ToggleOff
  BY <1>1 DEF ToggleOff, StopCamera, MayAct
<1>2. CASE ToggleOn
  BY <1>2 DEF ToggleOn, MayAct, MayStart
<1>3. CASE StageSend
  BY <1>3 DEF StageSend, MaySend, MayAct
<1>4. CASE CancelSend
  BY <1>4 DEF CancelSend, Unstage, MayAct
<1>5. CASE ChooseEncrypted
  BY <1>5 DEF ChooseEncrypted, MaySend, MayAct
<1>6. CASE FireEnds
  BY <1>6 DEF FireEnds
<1>7. CASE FireOn
  BY <1>7 DEF FireOn, Fire, Schedule
<1>8. CASE FireDone
  BY <1>8 DEF FireDone, Fire
<1>9. CASE FireAuth
  BY <1>9 DEF FireAuth, Fire
<1>10. ASSUME NEW s \in Sender, ChooseOpen(s) PROVE FirstWires'
  BY <1>10 DEF ChooseOpen, MaySend, MayAct, Enlist, StopCamera, Unstage
<1>11. ASSUME NEW s \in Sender, Confirm(s) PROVE FirstWires'
  BY <1>11 DEF Confirm, BeginScan
<1>12. ASSUME NEW s \in Sender, FireFlips(s) PROVE FirstWires'
  BY <1>12 DEF FireFlips, Fire, Enlist, TakeChoice
<1>13. ASSUME NEW s \in Sender, SenderTimer(s) PROVE FirstWires'
  BY <1>13 DEF SenderTimer
<1>14. ASSUME NEW s \in Sender, SenderIdentity(s) PROVE FirstWires'
  BY <1>14 DEF SenderIdentity
<1>15. ASSUME NEW s \in Sender, SenderShows(s) PROVE FirstWires'
  BY <1>15 DEF SenderShows, BeginScan
<1>16. ASSUME NEW s \in Sender, ScanMedia(s) PROVE FirstWires'
  BY <1>16 DEF ScanMedia
<1>17. ASSUME NEW s \in Sender, ScanPlay(s) PROVE FirstWires'
  BY <1>17 DEF ScanPlay
<1>18. ASSUME NEW s \in Sender, ScanEnds(s) PROVE FirstWires'
  BY <1>18 DEF ScanEnds
<1>19. ASSUME NEW s \in Sender, Tick(s) PROVE FirstWires'
  BY <1>19 DEF Tick
<1>20. ASSUME NEW s \in Sender, ScanReveal(s) PROVE FirstWires'
  BY <1>20 DEF ScanReveal, ScanHit
<1>21. ASSUME NEW s \in Sender, ScanComplete(s) PROVE FirstWires'
  BY <1>21 DEF ScanComplete, ScanHit
<1>22. ASSUME NEW c \in Start, StartMedia(c) PROVE FirstWires'
  BY <1>22 DEF StartMedia
<1>23. ASSUME NEW c \in Start, StartPlay(c) PROVE FirstWires'
  BY <1>23 DEF StartPlay
<1>24. ASSUME NEW c \in Start, StartLoop(c) PROVE FirstWires'
  BY <1>24 DEF StartLoop, Schedule
<1>25. ASSUME NEW c \in Start, StartFails(c) PROVE FirstWires'
  BY <1>25 DEF StartFails
<1>26. CASE UNCHANGED vars
  BY <1>26 DEF vars
<1>. QED
  BY <1>1, <1>2, <1>3, <1>4, <1>5, <1>6, <1>7, <1>8, <1>9, <1>10, <1>11, <1>12, <1>13, <1>14, <1>15, <1>16, <1>17, <1>18, <1>19, <1>20, <1>21, <1>22, <1>23, <1>24, <1>25, <1>26 DEF Next, Person, Browser, Loop, Send

(* The light.  The only sender that scans is the only one there is, a start   *)
(* finds no other stream, and only one whose own stream already runs can be   *)
(* crossed.                                                                   *)
LEMMA LightStep ==
  ASSUME ~Hasty, ~Overlap, TypeInv, SendInv, CameraInv, LightInv, [Next]_vars
  PROVE  LightInv'
<1>. USE ShellAssumption
     DEF CameraInv, LightInv, ScanHolds, CrossedHasTrack, OneStartLives, ScansOwn, StartsOwn,
         SendInv, OneSender, ArmedWhenFree, Busy, TypeInv, TypeOK, ChoiceIsStaged, StartInv, OneStart, StartIsOn, StartIsAlone, StartHolds,
         RoleInv, SendingCloses, ReceiverShowsNothing, CrossedSends, FirstWires,
         Underway, Going, IsOpening, HandleDue, Streaming, Wanted, Opening,
         hardware, intent, senders
<1>1. CASE ToggleOff
  BY <1>1 DEF ToggleOff, StopCamera, MayAct
<1>2. CASE ToggleOn
  BY <1>2 DEF ToggleOn, MayAct, MayStart
<1>3. CASE StageSend
  BY <1>3 DEF StageSend, MaySend, MayAct
<1>4. CASE CancelSend
  BY <1>4 DEF CancelSend, Unstage, MayAct
<1>5. CASE ChooseEncrypted
  BY <1>5 DEF ChooseEncrypted, MaySend, MayAct
<1>6. CASE FireEnds
  BY <1>6 DEF FireEnds
<1>7. CASE FireOn
  BY <1>7 DEF FireOn, Fire, Schedule
<1>8. CASE FireDone
  BY <1>8 DEF FireDone, Fire
<1>9. CASE FireAuth
  BY <1>9 DEF FireAuth, Fire
<1>10. ASSUME NEW s \in Sender, ChooseOpen(s) PROVE LightInv'
  BY <1>10 DEF ChooseOpen, MaySend, MayAct, Enlist, StopCamera, Unstage
<1>11. ASSUME NEW s \in Sender, Confirm(s) PROVE LightInv'
  BY <1>11 DEF Confirm, BeginScan
<1>12. ASSUME NEW s \in Sender, FireFlips(s) PROVE LightInv'
  BY <1>12 DEF FireFlips, Fire, Enlist, TakeChoice
<1>13. ASSUME NEW s \in Sender, SenderTimer(s) PROVE LightInv'
  BY <1>13 DEF SenderTimer
<1>14. ASSUME NEW s \in Sender, SenderIdentity(s) PROVE LightInv'
  BY <1>14 DEF SenderIdentity
<1>15. ASSUME NEW s \in Sender, SenderShows(s) PROVE LightInv'
  BY <1>15 DEF SenderShows, BeginScan
<1>16. ASSUME NEW s \in Sender, ScanMedia(s) PROVE LightInv'
  BY <1>16 DEF ScanMedia
<1>17. ASSUME NEW s \in Sender, ScanPlay(s) PROVE LightInv'
  BY <1>17 DEF ScanPlay
<1>18. ASSUME NEW s \in Sender, ScanEnds(s) PROVE LightInv'
  BY <1>18 DEF ScanEnds
<1>19. ASSUME NEW s \in Sender, Tick(s) PROVE LightInv'
  BY <1>19 DEF Tick
<1>20. ASSUME NEW s \in Sender, ScanReveal(s) PROVE LightInv'
  BY <1>20 DEF ScanReveal, ScanHit
<1>21. ASSUME NEW s \in Sender, ScanComplete(s) PROVE LightInv'
  BY <1>21 DEF ScanComplete, ScanHit
<1>22. ASSUME NEW c \in Start, StartMedia(c) PROVE LightInv'
  BY <1>22 DEF StartMedia
<1>23. ASSUME NEW c \in Start, StartPlay(c) PROVE LightInv'
  BY <1>23 DEF StartPlay
<1>24. ASSUME NEW c \in Start, StartLoop(c) PROVE LightInv'
  BY <1>24 DEF StartLoop, Schedule
<1>25. ASSUME NEW c \in Start, StartFails(c) PROVE LightInv'
  BY <1>25 DEF StartFails
<1>26. CASE UNCHANGED vars
  BY <1>26 DEF vars
<1>. QED
  BY <1>1, <1>2, <1>3, <1>4, <1>5, <1>6, <1>7, <1>8, <1>9, <1>10, <1>11, <1>12, <1>13, <1>14, <1>15, <1>16, <1>17, <1>18, <1>19, <1>20, <1>21, <1>22, <1>23, <1>24, <1>25, <1>26 DEF Next, Person, Browser, Loop, Send

-----------------------------------------------------------------------------
(* The invariants hold *)

LEMMA TypesAlways ==
  ASSUME ~(Hasty /\ Overlap)
  PROVE  Spec => []TypeInv
<1>1. TypeInv /\ [Next]_vars => TypeInv'
  BY TypeStep
<1>. QED
  BY <1>1, InitEstablishes, PTL DEF Spec

LEMMA SendsAlways ==
  ASSUME ~Overlap
  PROVE  Spec => []SendInv
<1>1. TypeInv /\ SendInv /\ [Next]_vars => SendInv'
  BY SendStep
<1>2. Spec => []TypeInv
  BY TypesAlways
<1>. QED
  BY <1>1, <1>2, InitEstablishes, PTL DEF Spec

LEMMA CameraAlways ==
  ASSUME ~Hasty
  PROVE  Spec => []CameraInv
<1>1. TypeInv /\ CameraInv /\ [Next]_vars => CameraInv'
  BY StartStep, RoleStep, LoopStep, FirstStep DEF CameraInv
<1>2. Spec => []TypeInv
  BY TypesAlways
<1>. QED
  BY <1>1, <1>2, InitEstablishes, PTL DEF Spec

(* Under the person the passing run has, all of it, whatever the callbacks    *)
(* that outlive the switch do.                                                *)
THEOREM Invariance ==
  ASSUME ~Hasty, ~Overlap
  PROVE  Spec => [](TypeInv /\ SendInv /\ CameraInv /\ LightInv)
<1>1. TypeInv /\ SendInv /\ CameraInv /\ LightInv /\ [Next]_vars => LightInv'
  BY LightStep
<1>2. Spec => []TypeInv
  BY TypesAlways
<1>3. Spec => []SendInv
  BY SendsAlways
<1>4. Spec => []CameraInv
  BY CameraAlways
<1>. QED
  BY <1>1, <1>2, <1>3, <1>4, InitEstablishes, PTL DEF Spec

-----------------------------------------------------------------------------
(* The theorems *)

(* The state keeps its types, and a choice is never armed without a payload.  *)
THEOREM TypeCorrect ==
  ASSUME ~(Hasty /\ Overlap)
  PROVE  Spec => []TypeOK
<1>1. TypeInv => TypeOK
  BY DEF TypeInv
<1>2. Spec => []TypeInv
  BY TypesAlways
<1>. QED
  BY <1>1, <1>2, PTL

LEMMA AtMostOne ==
  ASSUME NEW S, \A x, y \in S : x = y
  PROVE  IsFiniteSet(S) /\ Cardinality(S) <= 1
<1>1. CASE S = {}
  BY <1>1, FS_EmptySet
<1>2. CASE S # {}
  <2>1. PICK x \in S : TRUE
    BY <1>2
  <2>2. S = {x}
    BY <2>1
  <2>3. IsFiniteSet({x}) /\ Cardinality({x}) = 1
    BY FS_Singleton
  <2>. QED
    BY <2>2, <2>3
<1>. QED
  BY <1>1, <1>2

(* However hastily the switch, the files and the choices are tapped, two      *)
(* display loops never paint in turn.                                         *)
THEOREM OneDisplay ==
  ASSUME ~Overlap
  PROVE  Spec => []OneTransferInFlight
<1>1. SendInv => OneTransferInFlight
  <2>. SUFFICES ASSUME SendInv PROVE OneTransferInFlight
    OBVIOUS
  <2>1. \A s, t \in {u \in Sender : ticking[u]} : s = t
    BY DEF SendInv, OneSender, Busy
  <2>. QED
    BY <2>1, AtMostOne DEF OneTransferInFlight
<1>2. Spec => []SendInv
  BY SendsAlways
<1>. QED
  BY <1>1, <1>2, PTL

(* A receiver whose camera runs and whose transfer is open always has a       *)
(* callback waiting, whatever sends were started and however many loops the   *)
(* switch left running.                                                       *)
THEOREM ReceiverHears ==
  ASSUME ~Hasty
  PROVE  Spec => []NeverDeaf
<1>1. CameraInv => NeverDeaf
  <2>. SUFFICES ASSUME CameraInv, role = "receive", Streaming, transfer = "open", ~Opening
                PROVE  armed >= 1
    BY DEF NeverDeaf
  <2>1. ~crossed
    BY DEF CameraInv, RoleInv, CrossedSends, Underway, Opening
  <2>. QED
    BY <2>1 DEF CameraInv, LoopInv, Listening, Opening, IsOpening
<1>2. Spec => []CameraInv
  BY CameraAlways
<1>. QED
  BY <1>1, <1>2, PTL

(* The receive loop's stream is closed before the sender shows, unless a flip *)
(* came before the stream was in the handle.                                  *)
THEOREM CameraIsHandedOver ==
  ASSUME ~Hasty
  PROVE  Spec => []SenderOwnsCamera
<1>1. CameraInv => SenderOwnsCamera
  BY DEF CameraInv, RoleInv, SendingCloses, SenderOwnsCamera
<1>2. Spec => []CameraInv
  BY CameraAlways
<1>. QED
  BY <1>1, <1>2, PTL

(* "One camera, one preview, one owner": one stream, and one more at most     *)
(* after a flip that crossed a start.                                         *)
THEOREM OneLight ==
  ASSUME ~Hasty, ~Overlap
  PROVE  Spec => []OneCamera
<1>1. TypeInv /\ SendInv /\ CameraInv /\ LightInv => OneCamera
  <2>. SUFFICES ASSUME TypeInv, SendInv, CameraInv, LightInv PROVE OneCamera
    OBVIOUS
  <2>. DEFINE Starts == Start \cap live
              Scans == Sender \cap live
  <2>1. live = Starts \cup Scans
    BY DEF TypeInv, TypeOK
  <2>2. \A c, d \in Starts : c = d
    BY DEF LightInv, OneStartLives
  <2>3. \A s, t \in Scans : s = t
    BY DEF LightInv, ScansOwn, SendInv, OneSender, Busy, Going
  <2>4. CASE crossed
    <3>1. /\ IsFiniteSet(Starts) /\ Cardinality(Starts) \in Nat /\ Cardinality(Starts) <= 1
          /\ IsFiniteSet(Scans) /\ Cardinality(Scans) \in Nat /\ Cardinality(Scans) <= 1
      <4>. HIDE DEF Starts, Scans
      <4>. QED
        BY <2>2, <2>3, AtMostOne, FS_CardinalityType
    <3>2. /\ Cardinality(Starts \cup Scans)
             = Cardinality(Starts) + Cardinality(Scans) - Cardinality(Starts \cap Scans)
          /\ Cardinality(Starts \cap Scans) \in Nat
      <4>. HIDE DEF Starts, Scans
      <4>. QED
        BY <3>1, FS_Union, FS_Intersection, FS_CardinalityType
    <3>. QED
      <4>. HIDE DEF Starts, Scans
      <4>. QED
        BY <2>1, <2>4, <3>1, <3>2 DEF OneCamera
  <2>5. CASE ~crossed
    <3>1. ASSUME NEW c \in Starts, NEW s \in Scans PROVE FALSE
      <4>1. xpc[s] \in {"scanPlay", "scan"}
        BY DEF LightInv, ScansOwn
      <4>2. ~Streaming /\ ~HandleDue
        BY <2>5, <4>1 DEF CameraInv, RoleInv, SendingCloses, StartInv, StartIsAlone, Going
      <4>. QED
        BY <2>5, <4>2, ShellAssumption DEF LightInv, StartsOwn, Streaming, HandleDue
    <3>2. \A x, y \in live : x = y
      <4>. HIDE DEF Starts, Scans
      <4>. QED
        BY <2>1, <2>2, <2>3, <3>1
    <3>. QED
      BY <2>5, <3>2, AtMostOne DEF OneCamera
  <2>. QED
    BY <2>4, <2>5
<1>2. Spec => [](TypeInv /\ SendInv /\ CameraInv /\ LightInv)
  BY Invariance
<1>. QED
  BY <1>1, <1>2, PTL

(* With the switch off, nothing opening and no scan left to notice it, no     *)
(* track of a sender's scan is live, and one of the receive camera only if a  *)
(* flip crossed its start.                                                    *)
THEOREM PatientOffIsDark ==
  ASSUME ~Hasty, ~Overlap
  PROVE  Spec => [](OffIsDark \/ (crossed /\ live \subseteq Start))
<1>1. TypeInv /\ CameraInv /\ LightInv => OffIsDark \/ (crossed /\ live \subseteq Start)
  <2>. SUFFICES ASSUME TypeInv, CameraInv, LightInv, ~cameraOn, ~Opening,
                       \A s \in Sender : xpc[s] # "scan"
                PROVE  live = {} \/ (crossed /\ live \subseteq Start)
    BY DEF OffIsDark
  <2>1. live \subseteq Start
    BY DEF TypeInv, TypeOK, LightInv, ScansOwn, Opening
  <2>2. ASSUME ~crossed, NEW x \in live PROVE FALSE
    <3>1. x = stream
      BY <2>1, <2>2 DEF LightInv, StartsOwn, Opening
    <3>. QED
      BY <2>1, <3>1, ShellAssumption DEF CameraInv, LoopInv, StreamIsOn, Streaming
  <2>. QED
    BY <2>1, <2>2 DEF TypeInv, TypeOK
<1>2. Spec => [](TypeInv /\ SendInv /\ CameraInv /\ LightInv)
  BY Invariance
<1>. QED
  BY <1>1, <1>2, PTL

(* A page that is granted its camera finishes starting: only a refusal, or a  *)
(* tap into the first opening, leaves it without a file picker.               *)
THEOREM GrantedPageStarts ==
  ASSUME ~Hasty
  PROVE  Spec => [](permitted => CameraLessCanSend)
<1>1. CameraInv => (permitted => CameraLessCanSend)
  BY DEF CameraInv, FirstWires, IsOpening, CameraLessCanSend
<1>2. Spec => []CameraInv
  BY CameraAlways
<1>. QED
  BY <1>1, <1>2, PTL
=============================================================================
