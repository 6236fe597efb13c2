---------------------------- MODULE DaemonProofs ----------------------------
(***************************************************************************)
(* Three promises of the tick, for any keys, sessions and number of        *)
(* events: it writes no key while Codex has been in front since it last    *)
(* blocked or began to close, nothing but "off" to the border of another   *)
(* layer, and opens a session only for a press on a connection it had      *)
(* verified.  The last     *)
(* rests on what the queue may hold, and so on the types of all variables. *)
(***************************************************************************)
EXTENDS Daemon, QueuesProofs, TLAPS

(* ----------------------------- the invariant ---------------------------- *)

\* Whoever switches away ends the yield; and before it paints or darkens the
\* keys, the daemon has looked at the frontmost app since the last call that
\* blocked, or since it began to close.
YieldInv ==
    /\ yielding => front = "yield"
    /\ pc \in {"paint", "closing"} /\ yielding => owner = "codex"

\* An app that yields makes Codex the owner, whoever was before.
LEMMA YieldingApp ==
    ASSUME GateMode = "frontmost", front = "yield"
    PROVE  Sampled = "codex"
BY DEF Sampled, OwnerFor

(* --------------------------- its preservation --------------------------- *)

\* No step of the tick or of the world leaves the invariant.
LEMMA YieldStep ==
    ASSUME GateMode = "frontmost", YieldInv, [Next]_vars
    PROVE  YieldInv'
<1> USE DEF YieldInv, world, zones, pad, core, trace, Goes
<1>0. front = "yield" => Sampled = "codex"
  BY YieldingApp
<1>1. CASE SwitchApp
  BY <1>1 DEF SwitchApp
<1>2. CASE SwitchLayer \/ Press \/ VendorWrites \/ Unplug \/ Plug
  BY <1>2 DEF SwitchLayer, Press, VendorWrites, Unplug, Plug
<1>3. CASE RefreshSessions \/ OpenPad \/ LeavePadAlone
  BY <1>3 DEF RefreshSessions, OpenPad, LeavePadAlone
<1>4. CASE Reconnect \/ VerifyStatus
  <2>1. pc' = "poll" /\ UNCHANGED <<front, yielding>>
    BY <1>4 DEF Reconnect, VerifyStatus
  <2> QED BY <2>1
<1>5. CASE Poll
  BY <1>5 DEF Poll, Blocked
<1>6. CASE PollFails
  BY <1>0, <1>6 DEF PollFails, Blocked
<1>7. CASE NoPoll \/ SampleAfterPoll \/ Resample
  BY <1>0, <1>7 DEF NoPoll, SampleAfterPoll, Resample, RefreshOwner
<1>8. CASE Dispatch
  <2>1. pc' \notin {"paint", "closing"} /\ UNCHANGED <<front, yielding>>
    BY <1>8 DEF Dispatch, HandlePress, AfterMessage
  <2> QED BY <2>1
<1>9. CASE OpenerReturns
  BY <1>9 DEF OpenerReturns, Blocked, AfterMessage
<1>10. CASE NothingToPaint \/ PaintKeys \/ PaintAmbient
  BY <1>10 DEF NothingToPaint, PaintKeys, PaintAmbient
<1>11. CASE CloseSamples \/ Close
  <2>1. CASE CloseSamples
    BY <1>0, <2>1 DEF CloseSamples, RefreshOwner, Blocked
  <2>2. CASE Close
    BY <2>2 DEF Close
  <2> QED BY <1>11, <2>1, <2>2
<1>12. ASSUME NEW t \in Timers, Elapse(t)
       PROVE  YieldInv'
  BY <1>12 DEF Elapse
<1>13. CASE UNCHANGED vars
  BY <1>13 DEF vars
<1> QED
  BY <1>1, <1>2, <1>3, <1>4, <1>5, <1>6, <1>7, <1>8, <1>9, <1>10, <1>11, <1>12,
     <1>13 DEF Next, Tick, World

(* ------------------------------ what writes ----------------------------- *)

\* Only three handlers and the vendor's app write a zone.
LEMMA Writers ==
    ASSUME [Next]_vars, zones' # zones
    PROVE  VendorWrites \/ PaintKeys \/ PaintAmbient \/ Close
<1> USE DEF zones
<1>1. CASE SwitchApp \/ SwitchLayer \/ Press \/ Unplug \/ Plug
  BY <1>1 DEF SwitchApp, SwitchLayer, Press, Unplug, Plug
<1>2. CASE RefreshSessions \/ OpenPad \/ LeavePadAlone
  BY <1>2 DEF RefreshSessions, OpenPad, LeavePadAlone
<1>3. CASE Reconnect \/ VerifyStatus
  BY <1>3 DEF Reconnect, VerifyStatus
<1>4. CASE Poll \/ PollFails \/ NoPoll \/ SampleAfterPoll \/ Resample
           \/ CloseSamples
  BY <1>4 DEF Poll, PollFails, NoPoll, SampleAfterPoll, Resample,
              CloseSamples
<1>5. CASE Dispatch \/ OpenerReturns \/ NothingToPaint
  BY <1>5 DEF Dispatch, OpenerReturns, NothingToPaint
<1>6. ASSUME NEW t \in Timers, Elapse(t)
      PROVE  FALSE
  BY <1>6 DEF Elapse
<1>7. CASE UNCHANGED vars
  BY <1>7 DEF vars
<1> QED
  BY <1>1, <1>2, <1>3, <1>4, <1>5, <1>6, <1>7 DEF Next, Tick, World

\* Whoever paints the keys is no Codex, and whoever darkens them is Claude.
LEMMA KeyWriters ==
    ASSUME GateMode = "frontmost", YieldInv, [Next]_vars,
           aZone' # aZone, aZone' # AllKeys("vendor")
    PROVE  ~yielding
<1>1. VendorWrites \/ PaintKeys \/ PaintAmbient \/ Close
  BY Writers DEF zones
<1>2. CASE VendorWrites
  BY <1>2 DEF VendorWrites
<1>3. CASE PaintKeys
  BY <1>3 DEF PaintKeys, WantsKeys, YieldInv
<1>4. CASE PaintAmbient
  BY <1>4 DEF PaintAmbient
<1>5. CASE Close
  <2>1. pc = "closing" /\ owner = "claude"
    BY <1>5 DEF Close
  <2> QED BY <2>1 DEF YieldInv
<1> QED BY <1>1, <1>2, <1>3, <1>4, <1>5

\* On another layer the keys are left alone, and the border is only turned off.
LEMMA OtherLayerWriters ==
    ASSUME [Next]_vars, ver.layer = 2
    PROVE  /\ aZone' # aZone => aZone' = AllKeys("vendor")
           /\ edge' # edge => edge' \in {Vendor, Off}
           /\ edge' = Off /\ edge # Off => LayerUnderglow = "off"
<1>1. CASE zones' = zones
  BY <1>1 DEF zones
<1>2. CASE VendorWrites
  <2>1. Vendor # Off
    BY DEF Vendor, Off, Border
  <2> QED BY <1>2, <2>1 DEF VendorWrites
<1>3. CASE PaintKeys
  BY <1>3 DEF PaintKeys, WantsKeys
<1>4. CASE PaintAmbient
  <2>1. UNCHANGED aZone
    BY <1>4 DEF PaintAmbient
  <2>2. edge' # edge => LayerUnderglow = "off" /\ edge' = DesiredAmbient
    BY <1>4 DEF PaintAmbient
  <2>3. LayerUnderglow = "off" => DesiredAmbient = Off
    BY DEF DesiredAmbient
  <2> QED BY <2>1, <2>2, <2>3
<1>5. CASE Close
  <2>1. ~LayerOne
    <3>1. [epoch |-> epoch, layer |-> 1].layer = 1
      OBVIOUS
    <3> QED BY <3>1 DEF LayerOne
  <2> QED BY <1>5, <2>1 DEF Close
<1> QED BY <1>1, <1>2, <1>3, <1>4, <1>5, Writers

(* ------------------------ types, and what is known ---------------------- *)

\* The messages that may be around: a press of the verified connection was made
\* when it was verified to be on the very layer it is known to be on now.
Fresh ==
    {m \in Messages :
        m.kind = "press" /\ ver.epoch # 0 /\ m.epoch = ver.epoch
        => m.known = <<ver.epoch, ver.layer>>}

\* All that waits is fresh, and a batch is handled before the tick goes on.
QueueInv ==
    /\ queue \in Seq(Fresh) /\ batch \in Seq(Fresh)
    /\ pc \notin {"sample", "dispatch", "open"} => batch = <<>>
    /\ pc = "dispatch" => batch # <<>>

\* There is an epoch once a device was opened; the border is only painted on
\* after a status.
EpochInv ==
    /\ pc # "closed" /\ (handle # "none" \/ reopen \/ ver.epoch # 0)
       => epoch # 0
    /\ pc = "paintAmbient" => ver.epoch # 0

IInv == TypeOK /\ QueueInv /\ EpochInv

\* The parts of TypeOK, by who changes them.
WorldTypes ==
    /\ front \in Apps /\ plugged \in BOOLEAN /\ layer \in {1, 2}
    /\ events \in 0..MaxEvents

ScreenTypes ==
    /\ aZone \in [Keys -> Colours] /\ edge \in Borders
    /\ last \in [keys : [Keys -> Colours], ambient : Borders]

ControlTypes ==
    /\ pc \in {"idle", "pad", "poll", "sample", "dispatch", "open", "resample",
               "paint", "paintAmbient", "closing", "closed"}
    /\ reopen \in BOOLEAN /\ owner \in Owners /\ board \in Boards
    /\ dirty \in [keys : BOOLEAN, ambient : BOOLEAN]

PadTypes ==
    /\ handle \in {"none", "live", "gone"}
    /\ connected \in BOOLEAN /\ verified \in BOOLEAN /\ epoch \in Nat
    /\ ver \in [epoch : Nat, layer : {0, 1, 2}]
    /\ ver.epoch = 0 <=> ver.layer = 0

TimerTypes == timers \in [Timers -> {"off", "armed", "due"}]

\* The constants of the tick have their types.
LEMMA ConstantTypes ==
    /\ Unset \in [keys : [Keys -> Colours], ambient : Borders]
    /\ Dirty \in [keys : BOOLEAN, ambient : BOOLEAN]
    /\ AllKeys("vendor") \in [Keys -> Colours]
    /\ AllKeys("off") \in [Keys -> Colours]
    /\ Vendor \in Borders /\ Off \in Borders /\ Never \in Messages
    /\ NoBoard \in Boards
<1>1. NoBoard \in Boards
  BY ConfigAssumption DEF NoBoard, Boards, Lights
<1> QED
  BY <1>1 DEF Unset, Dirty, AllKeys, Colours, Border, Borders, Vendor, Off,
              Never, Messages

\* Nothing else is known than that there is no verified connection.
LEMMA UnverifiedTypes ==
    /\ Unverified \in [epoch : Nat, layer : {0, 1, 2}]
    /\ Unverified.epoch = 0 /\ Unverified.layer = 0
BY DEF Unverified

\* An owner is sampled.
LEMMA SampledType == owner \in Owners => Sampled \in Owners
BY ConfigAssumption DEF Sampled, OwnerFor, Owners

\* What is painted is of the pad's colours.
LEMMA PaintedTypes ==
    ASSUME TypeOK
    PROVE  DesiredKeys \in [Keys -> Colours] /\ DesiredAmbient \in Borders
<1>1. KeyColours \in [Keys -> Colours]
  BY DEF KeyColours, Colours
<1>2. AlertLevel \in {"alert", "normal"}
  BY DEF AlertLevel
<1>3. DesiredAmbient \in Borders
  BY <1>2 DEF TypeOK, DesiredAmbient, Off, Border, Borders, Owners
<1> QED BY <1>1, <1>3, ConstantTypes DEF DesiredKeys

\* A deadline is cleared, set or put off.
LEMMA DeadlineTypes ==
    ASSUME TimerTypes
    PROVE  /\ \A S : Clear(S) \in [Timers -> {"off", "armed", "due"}]
           /\ \/ SetTimers([status |-> "due"])
              \/ SetTimers([status |-> "armed"])
              \/ SetTimers([retry |-> "armed"])
              \/ SetTimers([feedback |-> "armed"])
              \/ SetTimers([status |-> "armed", retry |-> "due"])
              \/ \E t \in Timers : Reclaim(t)
              => TimerTypes'
BY DEF TimerTypes, Clear, SetTimers, Reclaim

(* ------------------------- types: preservation -------------------------- *)

\* Every step counts at most one event.
LEMMA Counting == [Next]_vars => events' = events \/ Event
<1> SUFFICES ASSUME [Next]_vars PROVE events' = events \/ Event
  OBVIOUS
<1> USE DEF Fails
<1>1. CASE World
  BY <1>1 DEF World, SwitchApp, SwitchLayer, Press, VendorWrites, Unplug, Plug
<1>2. CASE RefreshSessions \/ OpenPad \/ LeavePadAlone
  BY <1>2 DEF RefreshSessions, OpenPad, LeavePadAlone
<1>3. CASE Reconnect \/ VerifyStatus
  BY <1>3 DEF Reconnect, VerifyStatus
<1>4. CASE Poll \/ PollFails \/ NoPoll \/ SampleAfterPoll \/ Resample
           \/ CloseSamples
  BY <1>4 DEF Poll, PollFails, NoPoll, SampleAfterPoll, Resample,
              CloseSamples
<1>5. CASE Dispatch \/ OpenerReturns \/ NothingToPaint
  BY <1>5 DEF Dispatch, OpenerReturns, NothingToPaint
<1>6. CASE PaintKeys \/ PaintAmbient
  BY <1>6 DEF PaintKeys, PaintAmbient, SendFails
<1>7. CASE Close
  BY <1>7 DEF Close
<1>8. ASSUME NEW t \in Timers, Elapse(t) PROVE events' = events
  BY <1>8 DEF Elapse
<1>9. CASE UNCHANGED vars
  BY <1>9 DEF vars
<1> QED
  BY <1>1, <1>2, <1>3, <1>4, <1>5, <1>6, <1>7, <1>8, <1>9 DEF Next, Tick

\* Only the world changes the world.
LEMMA Outside ==
    ASSUME [Next]_vars, world' # world
    PROVE  SwitchApp \/ SwitchLayer \/ Unplug \/ Plug
<1> USE DEF world
<1>1. CASE Press \/ VendorWrites
  BY <1>1 DEF Press, VendorWrites
<1>2. CASE RefreshSessions \/ OpenPad \/ LeavePadAlone
  BY <1>2 DEF RefreshSessions, OpenPad, LeavePadAlone
<1>3. CASE Reconnect \/ VerifyStatus
  BY <1>3 DEF Reconnect, VerifyStatus
<1>4. CASE Poll \/ PollFails \/ NoPoll \/ SampleAfterPoll \/ Resample
           \/ CloseSamples
  BY <1>4 DEF Poll, PollFails, NoPoll, SampleAfterPoll, Resample,
              CloseSamples
<1>5. CASE Dispatch \/ OpenerReturns \/ NothingToPaint
  BY <1>5 DEF Dispatch, OpenerReturns, NothingToPaint
<1>6. CASE PaintKeys \/ PaintAmbient \/ Close
  BY <1>6 DEF PaintKeys, PaintAmbient, Close
<1>7. ASSUME NEW t \in Timers, Elapse(t) PROVE FALSE
  BY <1>7 DEF Elapse
<1>8. CASE UNCHANGED vars
  BY <1>8 DEF vars
<1> QED
  BY <1>1, <1>2, <1>3, <1>4, <1>5, <1>6, <1>7, <1>8 DEF Next, Tick, World

\* So the world keeps its types.
LEMMA WorldStep == TypeOK /\ [Next]_vars => WorldTypes'
<1> SUFFICES ASSUME TypeOK, [Next]_vars PROVE WorldTypes'
  OBVIOUS
<1>1. events' \in 0..MaxEvents
  BY Counting, ConfigAssumption DEF TypeOK, Event
<1>2. front' \in Apps /\ plugged' \in BOOLEAN /\ layer' \in {1, 2}
  <2> USE DEF TypeOK
  <2>1. CASE world' = world
    BY <2>1 DEF world
  <2>2. CASE SwitchApp
    BY <2>2 DEF SwitchApp
  <2>3. CASE SwitchLayer
    BY <2>3 DEF SwitchLayer
  <2>4. CASE Unplug \/ Plug
    BY <2>4 DEF Unplug, Plug
  <2> QED BY <2>1, <2>2, <2>3, <2>4, Outside
<1> QED BY <1>1, <1>2 DEF WorldTypes

\* The zones show colours, and the daemon remembers colours.
LEMMA ScreenStep == TypeOK /\ [Next]_vars => ScreenTypes'
<1> SUFFICES ASSUME TypeOK, [Next]_vars PROVE ScreenTypes'
  OBVIOUS
<1> USE ConstantTypes DEF ScreenTypes, TypeOK, world, zones, pad, core, trace
<1>1. CASE zones' = zones /\ last' \in {last, Unset}
  BY <1>1
<1>2. CASE VendorWrites
  BY <1>2 DEF VendorWrites
<1>3. CASE PaintKeys
  BY <1>3, PaintedTypes DEF PaintKeys, SendFails, Invalidate
<1>4. CASE PaintAmbient
  <2>1. aZone' = aZone /\ edge' \in {edge, DesiredAmbient}
    BY <1>4 DEF PaintAmbient
  <2>2. last' \in {last, Unset, [last EXCEPT !.ambient = DesiredAmbient]}
    BY <1>4 DEF PaintAmbient, SendFails, Invalidate
  <2> QED BY <2>1, <2>2, PaintedTypes
<1>5. CASE Close
  <2>1. aZone' \in {aZone, AllKeys("off")} /\ edge' \in {edge, Off}
        /\ last' = last
    BY <1>5 DEF Close
  <2> QED BY <2>1
<1>6. CASE ~(VendorWrites \/ PaintKeys \/ PaintAmbient \/ Close)
  <2>1. zones' = zones
    BY <1>6, Writers
  <2>2. last' \in {last, Unset}
    <3>1. CASE SwitchApp \/ SwitchLayer \/ Press \/ Unplug \/ Plug
      BY <3>1 DEF SwitchApp, SwitchLayer, Press, Unplug, Plug
    <3>2. CASE RefreshSessions \/ OpenPad \/ LeavePadAlone
      BY <3>2 DEF RefreshSessions, OpenPad, LeavePadAlone
    <3>3. CASE Reconnect \/ VerifyStatus
      BY <3>3 DEF Reconnect, VerifyStatus, Accept, Invalidate
    <3>4. CASE Poll \/ PollFails \/ NoPoll \/ SampleAfterPoll \/ Resample
               \/ CloseSamples
      BY <3>4 DEF Poll, PollFails, NoPoll, SampleAfterPoll, Resample,
                  CloseSamples, Invalidate
    <3>5. CASE Dispatch \/ OpenerReturns \/ NothingToPaint
      BY <3>5 DEF Dispatch, OpenerReturns, NothingToPaint
    <3>6. ASSUME NEW t \in Timers, Elapse(t) PROVE last' = last
      BY <3>6 DEF Elapse
    <3>7. CASE UNCHANGED vars
      BY <3>7 DEF vars
    <3> QED
      BY <1>6, <3>1, <3>2, <3>3, <3>4, <3>5, <3>6, <3>7 DEF Next, Tick, World
  <2> QED BY <1>1, <2>1, <2>2
<1> QED BY <1>2, <1>3, <1>4, <1>5, <1>6

\* The tick goes from step to step.
LEMMA ControlStep == TypeOK /\ [Next]_vars => ControlTypes'
<1> SUFFICES ASSUME TypeOK, [Next]_vars PROVE ControlTypes'
  OBVIOUS
<1> USE ConstantTypes, SampledType
    DEF ControlTypes, TypeOK, world, zones, pad, core, trace, Goes
<1>1. CASE World
  BY <1>1 DEF World, SwitchApp, SwitchLayer, Press, VendorWrites, Unplug, Plug
<1>2. CASE RefreshSessions
  BY <1>2 DEF RefreshSessions
<1>3. CASE OpenPad \/ LeavePadAlone \/ Poll
  BY <1>3 DEF OpenPad, LeavePadAlone, Poll
<1>4. CASE Reconnect
  BY <1>4 DEF Reconnect, Accept, Invalidate
<1>5. CASE VerifyStatus
  BY <1>5 DEF VerifyStatus, Accept, Invalidate
<1>6. CASE PollFails
  BY <1>6 DEF PollFails, Invalidate
<1>7. CASE NoPoll \/ SampleAfterPoll \/ Resample \/ CloseSamples
  BY <1>7 DEF NoPoll, SampleAfterPoll, Resample, CloseSamples, RefreshOwner
<1>8. CASE Dispatch
  BY <1>8 DEF Dispatch, HandlePress, HandleAck, AfterMessage
<1>9. CASE OpenerReturns
  BY <1>9 DEF OpenerReturns, AfterMessage
<1>10. CASE NothingToPaint
  BY <1>10 DEF NothingToPaint
<1>11. CASE PaintKeys
  BY <1>11 DEF PaintKeys, SendFails, Invalidate
<1>12. CASE PaintAmbient
  <2>1. pc' = "idle" /\ UNCHANGED <<owner, board>>
    BY <1>12 DEF PaintAmbient
  <2>2. reopen' \in {reopen, reopen \/ TRUE}
    BY <1>12 DEF PaintAmbient, SendFails, Invalidate
  <2>3. dirty' \in {dirty, Dirty, [dirty EXCEPT !.ambient = FALSE]}
    BY <1>12 DEF PaintAmbient, SendFails, Invalidate
  <2> QED BY <2>1, <2>2, <2>3
<1>13. CASE Close
  BY <1>13 DEF Close
<1>14. ASSUME NEW t \in Timers, Elapse(t) PROVE ControlTypes'
  BY <1>14 DEF Elapse
<1>15. CASE UNCHANGED vars
  BY <1>15 DEF vars
<1> QED
  BY <1>1, <1>2, <1>3, <1>4, <1>5, <1>6, <1>7, <1>8, <1>9, <1>10, <1>11, <1>12,
     <1>13, <1>14, <1>15 DEF Next, Tick

\* A status verifies an epoch that there is.
LEMMA PadStep == IInv /\ [Next]_vars => PadTypes'
<1> SUFFICES ASSUME IInv, [Next]_vars PROVE PadTypes'
  OBVIOUS
<1>a. PadTypes /\ EpochInv /\ layer \in {1, 2}
  BY DEF IInv, TypeOK, PadTypes
<1> USE <1>a, UnverifiedTypes DEF PadTypes, world, zones, pad, core, trace, Goes
<1>0. ASSUME NEW n \in Nat \ {0}, Accept(n, ver)
      PROVE  /\ ver' \in [epoch : Nat, layer : {0, 1, 2}]
             /\ ver'.epoch = 0 <=> ver'.layer = 0
  BY <1>0 DEF Accept
<1>1. CASE World
  BY <1>1 DEF World, SwitchApp, SwitchLayer, Press, VendorWrites, Unplug, Plug
<1>2. CASE RefreshSessions \/ LeavePadAlone
  BY <1>2 DEF RefreshSessions, LeavePadAlone
<1>3. CASE OpenPad
  <2>1. /\ ver' = ver /\ handle' \in {handle, "live"}
        /\ epoch' \in {epoch, epoch + 1}
    BY <1>3 DEF OpenPad
  <2>2. connected' \in {connected, TRUE} /\ verified' \in {verified, FALSE}
    BY <1>3 DEF OpenPad
  <2>3. epoch' \in Nat
    BY <2>1
  <2>4. handle' \in {"none", "live", "gone"}
    BY <2>1
  <2>5. connected' \in BOOLEAN /\ verified' \in BOOLEAN
    BY <2>2
  <2> QED BY <2>1, <2>3, <2>4, <2>5
<1>4. CASE Reconnect
  <2>1. CASE plugged /\ Accept(epoch + 1, ver) /\ epoch' = epoch + 1
             /\ handle' = "live" /\ connected' = TRUE /\ verified' = TRUE
    BY <2>1, <1>0
  <2>2. CASE ver' = Unverified /\ epoch' \in {epoch, epoch + 1}
             /\ handle' = "gone" /\ connected' = FALSE /\ verified' = FALSE
    <3>1. epoch' \in Nat
      BY <2>2
    <3> QED BY <2>2, <3>1
  <2> QED BY <1>4, <2>1, <2>2 DEF Reconnect, Invalidate
<1>5. CASE VerifyStatus
  <2>0. epoch \in Nat \ {0} /\ handle' = handle /\ epoch' = epoch
    BY <1>5 DEF VerifyStatus, EpochInv
  <2>1. CASE Accept(epoch, ver) /\ connected' = connected /\ verified' = TRUE
    BY <2>0, <2>1, <1>0
  <2>2. CASE ver' = Unverified /\ connected' \in BOOLEAN /\ verified' = FALSE
    BY <2>0, <2>2
  <2> QED BY <1>5, <2>1, <2>2 DEF VerifyStatus, Invalidate
<1>6. CASE Poll \/ NoPoll \/ SampleAfterPoll \/ Resample \/ CloseSamples
  BY <1>6 DEF Poll, NoPoll, SampleAfterPoll, Resample, CloseSamples
<1>7. CASE PollFails
  BY <1>7 DEF PollFails, Invalidate
<1>8. CASE Dispatch \/ OpenerReturns \/ NothingToPaint
  BY <1>8 DEF Dispatch, OpenerReturns, NothingToPaint
<1>9. CASE PaintKeys
  BY <1>9 DEF PaintKeys, SendFails, Invalidate
<1>10. CASE PaintAmbient
  BY <1>10 DEF PaintAmbient, SendFails, Invalidate
<1>11. CASE Close
  BY <1>11 DEF Close
<1>12. ASSUME NEW t \in Timers, Elapse(t) PROVE PadTypes'
  BY <1>12 DEF Elapse
<1>13. CASE UNCHANGED vars
  BY <1>13 DEF vars
<1> QED
  BY <1>1, <1>2, <1>3, <1>4, <1>5, <1>6, <1>7, <1>8, <1>9, <1>10, <1>11, <1>12,
     <1>13 DEF Next, Tick

\* Deadlines are off, armed or due.
LEMMA TimerStep == TypeOK /\ [Next]_vars => TimerTypes'
<1> SUFFICES ASSUME TypeOK, [Next]_vars PROVE TimerTypes'
  OBVIOUS
<1>0. TimerTypes
  BY DEF TypeOK, TimerTypes
<1> USE <1>0, DeadlineTypes
    DEF world, zones, pad, core, trace
<1>1. CASE timers' = timers
  BY <1>1 DEF TimerTypes
<1>2. CASE World
  BY <1>1, <1>2
     DEF World, SwitchApp, SwitchLayer, Press, VendorWrites, Unplug, Plug
<1>3. CASE RefreshSessions \/ OpenPad \/ LeavePadAlone
  BY <1>1, <1>3 DEF RefreshSessions, OpenPad, LeavePadAlone
<1>4. CASE Reconnect \/ VerifyStatus
  BY <1>1, <1>4 DEF Reconnect, VerifyStatus
<1>5. CASE Poll \/ PollFails \/ NoPoll \/ SampleAfterPoll \/ Resample
           \/ CloseSamples
  BY <1>1, <1>5 DEF Poll, PollFails, NoPoll, SampleAfterPoll, Resample,
                    CloseSamples
<1>6. CASE Dispatch
  <2>1. \/ timers' = timers \/ SetTimers([feedback |-> "armed"])
        \/ \E t \in Timers : Reclaim(t)
    BY <1>6 DEF Dispatch, HandlePress, HandleAck, Timers
  <2> QED BY <1>1, <2>1
<1>7. CASE OpenerReturns
  BY <1>1, <1>7 DEF OpenerReturns
<1>8. CASE NothingToPaint \/ PaintKeys \/ PaintAmbient
  BY <1>8 DEF NothingToPaint, PaintKeys, PaintAmbient, TimerTypes, Timers
<1>9. CASE Close
  BY <1>1, <1>9 DEF Close
<1>10. ASSUME NEW t \in Timers, Elapse(t) PROVE TimerTypes'
  BY <1>10 DEF Elapse, TimerTypes
<1>11. CASE UNCHANGED vars
  BY <1>1, <1>11 DEF vars
<1> QED
  BY <1>2, <1>3, <1>4, <1>5, <1>6, <1>7, <1>8, <1>9, <1>10, <1>11
     DEF Next, Tick

(* -------------------- what is known: preservation ----------------------- *)

\* What was fresh stays so if the verified connection and layer stay, or are
\* forgotten.
LEMMA FreshStays ==
    ASSUME ver' \in {ver, Unverified}
    PROVE  Fresh \subseteq Fresh'
BY UnverifiedTypes DEF Fresh

\* A message that arrives is fresh.
LEMMA ReceivedFresh ==
    ASSUME TypeOK, queue \in Seq(Fresh), UNCHANGED ver,
           NEW kind \in {"press", "keyAck", "ambientAck"},
           NEW key \in Keys \cup {NoSession}, Received(kind, key)
    PROVE  queue' \in Seq(Fresh)
<1> DEFINE m == [kind |-> kind, key |-> key, epoch |-> epoch,
                 known |-> <<ver.epoch, ver.layer>>]
<1>1. m \in Fresh
  BY DEF TypeOK, Fresh, Messages
<1> QED BY <1>1 DEF Received

\* What discard_hid_inputs leaves is fresh whatever is verified.
LEMMA DiscardedFresh ==
    ASSUME queue \in Seq(Fresh)
    PROVE  Only(queue, LAMBDA m : ~IsInput(m)) \in Seq(Fresh')
<1> DEFINE I == {i \in DOMAIN queue : ~IsInput(queue[i])}
<1>1. \A i \in I : queue[i] \in Fresh'
  BY ElementOfSeq DEF Fresh, IsInput
<1>2. Pick(queue, I) \in Seq(Fresh')
  BY <1>1, PickProperties
<1> QED BY <1>2 DEF Only

\* No step leaves a press around that is not known to be of this layer.
LEMMA QueueStep == IInv /\ [Next]_vars => QueueInv'
<1> SUFFICES ASSUME IInv, [Next]_vars PROVE QueueInv'
  OBVIOUS
<1>0. queue \in Seq(Fresh) /\ batch \in Seq(Fresh)
  BY DEF IInv, QueueInv
<1> USE DEF world, zones, pad, core, trace, Goes
<1>a. ASSUME ver' \in {ver, Unverified}, queue' \in {queue, <<>>},
             batch' = batch
      PROVE  queue' \in Seq(Fresh') /\ batch' \in Seq(Fresh')
  <2>1. Fresh \subseteq Fresh' /\ <<>> \in Seq(Fresh')
    BY <1>a, FreshStays, EmptySeq
  <2>2. queue \in Seq(Fresh') /\ batch \in Seq(Fresh')
    BY <1>0, <2>1, QueueOfMore
  <2> QED BY <1>a, <2>1, <2>2
<1>b. ASSUME UNCHANGED <<queue, batch, pc>>, ver' \in {ver, Unverified}
      PROVE  QueueInv'
  BY <1>a, <1>b DEF IInv, QueueInv
<1>c. ASSUME UNCHANGED ver PROVE Fresh' = Fresh
  BY <1>c DEF Fresh
<1>1. CASE SwitchApp \/ SwitchLayer \/ Unplug \/ Plug
  BY <1>1, <1>b DEF SwitchApp, SwitchLayer, Unplug, Plug
<1>2. CASE Press \/ VendorWrites
  <2>1. UNCHANGED <<ver, batch, pc>>
    BY <1>2 DEF Press, VendorWrites
  <2>2. \E kind \in {"press", "keyAck", "ambientAck"},
           key \in Keys \cup {NoSession} : Received(kind, key)
    BY <1>2 DEF Press, VendorWrites
  <2>3. queue' \in Seq(Fresh)
    BY <2>1, <2>2, <1>0, ReceivedFresh DEF IInv
  <2> QED BY <2>1, <2>3, <1>c DEF IInv, QueueInv
<1>3. CASE RefreshSessions \/ OpenPad \/ LeavePadAlone
  <2>1. ver' = ver /\ queue' \in {queue, <<>>} /\ batch' = batch
    BY <1>3 DEF RefreshSessions, OpenPad, LeavePadAlone
  <2>2. pc \in {"idle", "pad"} /\ pc' \in {"pad", "poll"}
    BY <1>3 DEF RefreshSessions, OpenPad, LeavePadAlone
  <2> QED BY <2>1, <2>2, <1>a DEF IInv, QueueInv
<1>4. CASE Reconnect
  <2>1. pc = "pad" /\ pc' = "poll" /\ batch' = batch
    BY <1>4 DEF Reconnect
  <2>2. CASE queue' = <<>>
    BY <2>1, <2>2 DEF IInv, QueueInv
  <2>3. CASE ver' = Unverified /\ queue' \in {queue, <<>>}
    BY <2>1, <2>3, <1>a DEF IInv, QueueInv
  <2> QED BY <1>4, <2>2, <2>3 DEF Reconnect, Invalidate
<1>5. CASE VerifyStatus
  <2>1. pc = "pad" /\ pc' = "poll" /\ batch' = batch
    BY <1>5 DEF VerifyStatus
  <2>2. CASE queue' = Only(queue, LAMBDA m : ~IsInput(m))
    BY <2>1, <2>2, <1>0, DiscardedFresh DEF IInv, QueueInv
  <2>3. CASE ver' = Unverified /\ queue' = queue
    BY <2>1, <2>3, <1>a DEF IInv, QueueInv
  <2> QED BY <1>5, <2>2, <2>3 DEF VerifyStatus, Invalidate
<1>6. CASE Poll
  BY <1>0, <1>6, <1>c DEF Poll, QueueInv
<1>7. CASE PollFails
  <2>1. ver' = Unverified /\ UNCHANGED <<queue, batch>>
        /\ pc = "poll" /\ pc' = "paint"
    BY <1>7 DEF PollFails, Invalidate
  <2> QED BY <2>1, <1>a DEF IInv, QueueInv
<1>8. CASE NoPoll \/ SampleAfterPoll \/ Resample
  <2>1. UNCHANGED <<ver, queue, batch>>
    BY <1>8 DEF NoPoll, SampleAfterPoll, Resample
  <2>2. /\ pc' \in {"paint", "dispatch"}
        /\ pc' = "dispatch" <=> pc = "sample" /\ batch # <<>>
        /\ pc \in {"poll", "sample", "resample"}
    BY <1>8 DEF NoPoll, SampleAfterPoll, Resample
  <2> QED BY <2>1, <2>2, <1>a DEF IInv, QueueInv
<1>9. CASE Dispatch
  <2>1. UNCHANGED <<ver, queue>> /\ batch' = Tail(batch) /\ batch # <<>>
    BY <1>9 DEF Dispatch, IInv, QueueInv
  <2>2. pc' = "open" \/ pc' = AfterMessage(batch')
    BY <1>9 DEF Dispatch, HandlePress
  <2>3. batch' \in Seq(Fresh)
    BY <2>1, <1>0, HeadTailProperties
  <2> QED BY <1>0, <2>1, <2>2, <2>3, <1>c DEF QueueInv, AfterMessage
<1>10. CASE OpenerReturns
  <2>1. UNCHANGED <<ver, queue, batch>> /\ pc' = AfterMessage(batch)
    BY <1>10 DEF OpenerReturns
  <2> QED BY <2>1, <1>a DEF IInv, QueueInv, AfterMessage
<1>11. CASE NothingToPaint \/ PaintKeys \/ PaintAmbient
  <2>1. UNCHANGED <<queue, batch>> /\ ver' \in {ver, Unverified}
    BY <1>11 DEF NothingToPaint, PaintKeys, PaintAmbient, SendFails, Invalidate
  <2>2. pc \in {"paint", "paintAmbient"} /\ pc' \in {"idle", "paintAmbient"}
    BY <1>11 DEF NothingToPaint, PaintKeys, PaintAmbient
  <2> QED BY <2>1, <2>2, <1>a DEF IInv, QueueInv
<1>12. CASE CloseSamples \/ Close
  <2>1. UNCHANGED <<queue, batch>> /\ ver' \in {ver, Unverified}
        /\ pc \in {"idle", "closing"} /\ pc' \in {"closing", "closed"}
    BY <1>12 DEF CloseSamples, Close
  <2> QED BY <2>1, <1>a DEF IInv, QueueInv
<1>13. ASSUME NEW t \in Timers, Elapse(t) PROVE QueueInv'
  BY <1>13, <1>b DEF Elapse
<1>14. CASE UNCHANGED vars
  BY <1>14, <1>b DEF vars
<1> QED
  BY <1>1, <1>2, <1>3, <1>4, <1>5, <1>6, <1>7, <1>8, <1>9, <1>10, <1>11, <1>12,
     <1>13, <1>14 DEF Next, Tick, World

\* Epochs are counted from 1.
LEMMA EpochStep == IInv /\ [Next]_vars => EpochInv'
<1> SUFFICES ASSUME IInv, [Next]_vars PROVE EpochInv'
  OBVIOUS
<1>0. /\ EpochInv /\ epoch \in Nat /\ ver.epoch \in Nat /\ reopen \in BOOLEAN
      /\ handle \in {"none", "live", "gone"}
  BY DEF IInv, TypeOK
<1> USE <1>0, UnverifiedTypes DEF EpochInv, world, zones, pad, core, trace, Goes
<1>1. CASE World
  BY <1>1 DEF World, SwitchApp, SwitchLayer, Press, VendorWrites, Unplug, Plug
<1>2. CASE RefreshSessions \/ LeavePadAlone
  BY <1>2 DEF RefreshSessions, LeavePadAlone
<1>3. CASE OpenPad
  <2>1. pc' # "paintAmbient" /\ pc # "closed" /\ UNCHANGED <<reopen, ver>>
    BY <1>3 DEF OpenPad
  <2>2. epoch' = epoch + 1 \/ UNCHANGED <<epoch, handle>>
    BY <1>3 DEF OpenPad
  <2> QED BY <2>1, <2>2
<1>4. CASE Reconnect
  <2>1. pc = "pad" /\ pc' = "poll" /\ Lost /\ epoch' \in {epoch, epoch + 1}
    BY <1>4 DEF Reconnect
  <2> QED BY <2>1 DEF Lost
<1>5. CASE VerifyStatus
  <2>1. pc = "pad" /\ pc' = "poll" /\ handle # "none" /\ epoch' = epoch
    BY <1>5 DEF VerifyStatus
  <2> QED BY <2>1
<1>6. CASE Poll \/ NoPoll \/ SampleAfterPoll \/ Resample \/ CloseSamples
  BY <1>6 DEF Poll, NoPoll, SampleAfterPoll, Resample, CloseSamples
<1>7. CASE PollFails
  BY <1>7 DEF PollFails, Invalidate
<1>8. CASE Dispatch
  <2>1. pc = "dispatch" /\ pc' \notin {"closed", "paintAmbient"}
        /\ UNCHANGED <<handle, epoch, ver, reopen>>
    BY <1>8 DEF Dispatch, HandlePress, AfterMessage
  <2> QED BY <2>1
<1>9. CASE OpenerReturns \/ NothingToPaint
  BY <1>9 DEF OpenerReturns, NothingToPaint, AfterMessage
<1>10. CASE PaintKeys
  <2>1. /\ pc = "paint" /\ ver.epoch # 0 /\ UNCHANGED <<handle, epoch>>
        /\ pc' \in {"idle", "paintAmbient"}
        /\ pc' = "paintAmbient" => ver' = ver
    BY <1>10 DEF PaintKeys
  <2> QED BY <2>1
<1>11. CASE PaintAmbient
  <2>1. pc = "paintAmbient" /\ UNCHANGED <<handle, epoch>> /\ pc' = "idle"
    BY <1>11 DEF PaintAmbient
  <2> QED BY <2>1
<1>12. CASE Close
  BY <1>12 DEF Close
<1>13. ASSUME NEW t \in Timers, Elapse(t) PROVE EpochInv'
  BY <1>13 DEF Elapse
<1>14. CASE UNCHANGED vars
  BY <1>14 DEF vars
<1> QED
  BY <1>1, <1>2, <1>3, <1>4, <1>5, <1>6, <1>7, <1>8, <1>9, <1>10, <1>11, <1>12,
     <1>13, <1>14 DEF Next, Tick

\* Only a dispatched message is served.
LEMMA Servers ==
    ASSUME [Next]_vars, served' # served
    PROVE  Dispatch
<1> USE DEF world, zones, pad, core, trace
<1>1. CASE World
  BY <1>1 DEF World, SwitchApp, SwitchLayer, Press, VendorWrites, Unplug, Plug
<1>2. CASE RefreshSessions \/ OpenPad \/ LeavePadAlone
  BY <1>2 DEF RefreshSessions, OpenPad, LeavePadAlone
<1>3. CASE Reconnect \/ VerifyStatus
  BY <1>3 DEF Reconnect, VerifyStatus
<1>4. CASE Poll \/ PollFails \/ NoPoll \/ SampleAfterPoll \/ Resample
           \/ CloseSamples
  BY <1>4 DEF Poll, PollFails, NoPoll, SampleAfterPoll, Resample,
              CloseSamples
<1>5. CASE OpenerReturns \/ NothingToPaint \/ PaintKeys \/ PaintAmbient
  BY <1>5 DEF OpenerReturns, NothingToPaint, PaintKeys, PaintAmbient
<1>6. CASE Close
  BY <1>6 DEF Close
<1>7. ASSUME NEW t \in Timers, Elapse(t) PROVE FALSE
  BY <1>7 DEF Elapse
<1>8. CASE UNCHANGED vars
  BY <1>8 DEF vars
<1> QED
  BY <1>1, <1>2, <1>3, <1>4, <1>5, <1>6, <1>7, <1>8 DEF Next, Tick

\* The last press that opened a session is a message.
LEMMA ServedStep == IInv /\ [Next]_vars => served' \in Messages
<1> SUFFICES ASSUME IInv, [Next]_vars PROVE served' \in Messages
  OBVIOUS
<1>0. served \in Messages /\ batch \in Seq(Messages)
  BY DEF IInv, TypeOK
<1>1. CASE Dispatch
  <2>1. batch # <<>> /\ served' \in {served, Head(batch)}
    BY <1>1 DEF Dispatch, HandlePress, HandleAck, IInv, QueueInv
  <2> QED BY <1>0, <2>1, HeadTailProperties
<1>2. CASE ~Dispatch
  BY <1>0, <1>2, Servers
<1> QED BY <1>1, <1>2

\* Whether the tick yields is true or false.
LEMMA YieldingStep == TypeOK /\ [Next]_vars => yielding' \in BOOLEAN
<1> SUFFICES ASSUME TypeOK, [Next]_vars PROVE yielding' \in BOOLEAN
  OBVIOUS
<1>0. yielding \in BOOLEAN
  BY DEF TypeOK
<1>1. CASE yielding' = yielding
  BY <1>0, <1>1
<1>2. CASE SwitchApp
  BY <1>2 DEF SwitchApp
<1>3. CASE Poll \/ PollFails \/ OpenerReturns \/ CloseSamples
  BY <1>3 DEF Poll, PollFails, OpenerReturns, CloseSamples, Blocked
<1>4. CASE ~(SwitchApp \/ Poll \/ PollFails \/ OpenerReturns \/ CloseSamples)
  <2> USE DEF trace
  <2>1. CASE World
    BY <1>1, <1>4, <2>1
       DEF World, SwitchLayer, Press, VendorWrites, Unplug, Plug
  <2>2. CASE RefreshSessions \/ OpenPad \/ LeavePadAlone
    BY <1>1, <2>2 DEF RefreshSessions, OpenPad, LeavePadAlone
  <2>3. CASE Reconnect \/ VerifyStatus
    BY <1>1, <2>3 DEF Reconnect, VerifyStatus
  <2>4. CASE NoPoll \/ SampleAfterPoll \/ Resample \/ Dispatch
    BY <1>1, <2>4 DEF NoPoll, SampleAfterPoll, Resample, Dispatch
  <2>5. CASE NothingToPaint \/ PaintKeys \/ PaintAmbient \/ Close
    BY <1>1, <2>5 DEF NothingToPaint, PaintKeys, PaintAmbient, Close
  <2>6. ASSUME NEW t \in Timers, Elapse(t) PROVE yielding' = yielding
    BY <2>6 DEF Elapse
  <2>7. CASE UNCHANGED vars
    BY <1>1, <2>7 DEF vars
  <2> QED
    BY <1>1, <1>4, <2>1, <2>2, <2>3, <2>4, <2>5, <2>6, <2>7 DEF Next, Tick
<1> QED BY <1>2, <1>3, <1>4

\* A press that opens a session was made on the first layer of this connection.
LEMMA OpensKnown ==
    ASSUME IInv, [Next]_vars, served' # served
    PROVE  /\ served'.known = <<epoch, 1>>
           /\ OwnerFor(front, owner) = "claude"
           /\ board.slots[served'.key] # NoSession
<1>1. Dispatch
  BY Servers
<1> DEFINE m == Head(batch)
<1>2. /\ m.epoch = ver.epoch /\ m.kind = "press" /\ served' = m
      /\ Sampled = "claude" /\ LayerOne /\ board.slots[m.key] # NoSession
  BY <1>1 DEF Dispatch, HandlePress, HandleAck
<1>3. m \in Fresh
  BY <1>1, HeadTailProperties DEF Dispatch, IInv, QueueInv
<1>4. ver.epoch = epoch /\ ver.layer = 1
  BY <1>2 DEF LayerOne
<1>5. ver.epoch # 0
  BY <1>4 DEF IInv, TypeOK
<1>6. m.known = <<epoch, 1>>
  BY <1>2, <1>3, <1>4, <1>5 DEF Fresh
<1> QED BY <1>2, <1>6 DEF Sampled

(* ------------------------------ theorems -------------------------------- *)

\* Where the frontmost app decides, the daemon writes no key as long as Codex
\* has been in front since its last poll or deep link (daemon.py:590), or since
\* it began to close (daemon.py:675).
THEOREM Yields ==
    ASSUME GateMode = "frontmost"
    PROVE  Spec => YieldsToCodex
<1>1. Init => YieldInv
  BY DEF Init, YieldInv
<1>2. YieldInv /\ [Next]_vars => YieldInv'
  BY YieldStep
<1>3. YieldInv /\ [Next]_vars =>
        [aZone' # aZone /\ aZone' # AllKeys("vendor") => ~yielding]_vars
  BY KeyWriters
<1> QED BY <1>1, <1>2, <1>3, PTL DEF Spec, YieldsToCodex

\* On a layer the daemon knows not to be the first it writes nothing but the
\* border's "off", and that only if so configured.
THEOREM LeavesOtherLayers == Spec => OtherLayersAreLeftAlone
<1>1. [Next]_vars =>
        [ver.layer = 2 =>
           /\ aZone' # aZone => aZone' = AllKeys("vendor")
           /\ edge' # edge => edge' \in {Vendor, Off}
           /\ edge' = Off /\ edge # Off => LayerUnderglow = "off"]_vars
  BY OtherLayerWriters
<1> QED BY <1>1, PTL DEF Spec, OtherLayersAreLeftAlone

\* The invariant holds in every behaviour.
THEOREM Inductive == Spec => []IInv
<1>1. Init => IInv
  <2> SUFFICES ASSUME Init PROVE IInv
    OBVIOUS
  <2>1. ver.epoch = 0 /\ ver.layer = 0
        /\ ver \in [epoch : Nat, layer : {0, 1, 2}]
    BY UnverifiedTypes DEF Init
  <2>2. TypeOK
    <3> USE ConstantTypes, ConfigAssumption DEF Init
    <3>1. /\ front \in Apps /\ plugged \in BOOLEAN /\ layer \in {1, 2}
          /\ aZone \in [Keys -> Colours] /\ edge \in Borders
          /\ events \in 0..MaxEvents
      OBVIOUS
    <3>2. /\ queue \in Seq(Messages) /\ batch \in Seq(Messages)
          /\ served \in Messages
      OBVIOUS
    <3>3. timers \in [Timers -> {"off", "armed", "due"}]
      OBVIOUS
    <3>4. owner \in Owners /\ board \in Boards
      BY DEF Owners
    <3> QED BY <2>1, <3>1, <3>2, <3>3, <3>4 DEF TypeOK
  <2>3. QueueInv /\ EpochInv
    BY <2>1 DEF Init, QueueInv, EpochInv
  <2> QED BY <2>2, <2>3 DEF IInv
<1>2. IInv /\ [Next]_vars => IInv'
  <2> SUFFICES ASSUME IInv, [Next]_vars PROVE IInv'
    OBVIOUS
  <2>1. WorldTypes' /\ ScreenTypes' /\ ControlTypes' /\ PadTypes' /\ TimerTypes'
    BY WorldStep, ScreenStep, ControlStep, PadStep, TimerStep DEF IInv
  <2>2. /\ QueueInv' /\ EpochInv'
        /\ served' \in Messages /\ yielding' \in BOOLEAN
    BY QueueStep, EpochStep, ServedStep, YieldingStep DEF IInv
  <2>3. Fresh' \subseteq Messages'
    BY DEF Fresh
  <2>4. queue' \in Seq(Messages') /\ batch' \in Seq(Messages')
    BY <2>2, <2>3, QueueOfMore DEF QueueInv
  <2>5. TypeOK'
    BY <2>1, <2>2, <2>4
       DEF TypeOK, WorldTypes, ScreenTypes, ControlTypes, PadTypes, TimerTypes,
           Messages
  <2> QED BY <2>2, <2>5 DEF IInv
<1> QED BY <1>1, <1>2, PTL DEF Spec

\* Every variable of the tick keeps its type, and what it verified is a layer
\* exactly when it is a connection.
THEOREM TypeCorrect == Spec => []TypeOK
<1>1. IInv => TypeOK
  BY DEF IInv
<1> QED BY Inductive, <1>1, PTL

\* A press opens a session only if it was made while the daemon had verified
\* this very connection to be on layer 1, while the frontmost app gives Claude
\* the pad, and if the key stands for a session: whatever was queued, lost,
\* reconnected or switched in between, and however often.
THEOREM OpensOnlyKnown == Spec => OpensOnlyKnownPresses
<1>1. IInv /\ [Next]_vars =>
        [served' # served =>
           /\ served'.known = <<epoch, 1>>
           /\ OwnerFor(front, owner) = "claude"
           /\ board.slots[served'.key] # NoSession]_vars
  BY OpensKnown
<1> QED BY Inductive, <1>1, PTL DEF Spec, OpensOnlyKnownPresses
=============================================================================
