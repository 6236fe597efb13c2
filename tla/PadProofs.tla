----------------------------- MODULE PadProofs -----------------------------
(***************************************************************************)
(* The promises of the vendor channel, for any number of connections,      *)
(* requests and events: types, the delivery proof of a verified layer, no  *)
(* message of another connection, no reference left behind, no connection  *)
(* broken by the removal of an earlier one's device, and a bound on what   *)
(* lost reports cost.  One inductive invariant, IInv, carries them all.    *)
(***************************************************************************)
EXTENDS Pad, QueuesProofs, FunctionTheorems, TLAPS

(* --------------------------------- types -------------------------------- *)

\* The variables of TypeOK, by what may change together; the queues and what is
\* counted of them come later.
WorldTypes ==
    /\ plugged \in BOOLEAN /\ layer \in Layers /\ since \subseteq Layers
    /\ device \in {"none", "live", "gone"}

StatusTypes ==
    /\ connected \in BOOLEAN /\ verified \in BOOLEAN /\ error \in BOOLEAN
    /\ layerIndex \in IF verified THEN Layers ELSE {0}

CallTypes ==
    /\ pc \in {"unopened", "idle", "acquire", "register", "send", "await",
               "poll", "flush", "failed", "shut"}
    /\ op \in {"open", "reconnect", "status"}

CountTypes ==
    /\ requests \in 0..MaxRequests /\ events \in 0..MaxEvents
    /\ asks \subseteq 1..requests
    /\ buf \in 0..MaxBuffer

EpochTypes ==
    /\ epochs \in 0..MaxEpochs /\ epoch \in 0..epochs
    /\ registered \in {0, epoch}

\* A layer switch ends on one of the layers.
LEMMA WorldTypesStep == WorldTypes /\ [Next]_vars => WorldTypes'
<1> SUFFICES ASSUME WorldTypes, [Next]_vars PROVE WorldTypes'
  OBVIOUS
<1> USE DEF world, status, conn, inbox, control, trace, Goes
<1>a. ASSUME UNCHANGED <<plugged, layer, since>>,
             device' \in {device, "none", "live", "gone"}
      PROVE  WorldTypes'
  BY <1>a DEF WorldTypes
<1>1. CASE Press \/ Answer \/ AnswersVendor \/ LoseReport
  BY <1>1, <1>a DEF Press, Answer, AnswersVendor, LoseReport
<1>2. CASE SwitchLayer
  BY <1>2 DEF SwitchLayer, WorldTypes, Layers
<1>3. CASE Unplug \/ Plug
  BY <1>3 DEF Unplug, Plug, WorldTypes
<1>4. CASE Open \/ Reconnect
  BY <1>4, <1>a DEF Open, Reconnect, Dispose
<1>5. CASE Acquire
  BY <1>5, <1>a DEF Acquire, Granted, Refused
<1>6. CASE Register
  BY <1>6, <1>a DEF Register, RegisterWith
<1>7. CASE Abandon
  BY <1>7, <1>a DEF Abandon, Dispose
<1>8. CASE Status \/ TakeReply \/ GiveUp \/ Poll \/ PollReturns
  BY <1>8, <1>a DEF Status, TakeReply, GiveUp, Poll, PollReturns
<1>9. CASE SendRequest
  BY <1>9 DEF SendRequest, WorldTypes
<1>10. CASE AwaitPump \/ PollPump \/ FlushPump
  BY <1>10, <1>a DEF AwaitPump, PollPump, FlushPump, Pump, Deliver
<1>11. CASE DiscardHidInputs \/ SendFails \/ Close
  BY <1>11, <1>a DEF DiscardHidInputs, SendFails, Close
<1>12. CASE CloseEnds
  BY <1>12, <1>a DEF CloseEnds, Dispose
<1>13. CASE UNCHANGED vars
  BY <1>13, <1>a DEF vars
<1> QED
  BY <1>1, <1>2, <1>3, <1>4, <1>5, <1>6, <1>7, <1>8, <1>9, <1>10, <1>11, <1>12,
     <1>13 DEF Next, Owner, World

\* A status is verified with the layer of a reply, or forgotten.
LEMMA StatusTypesStep == StatusTypes /\ [Next]_vars => StatusTypes'
<1> SUFFICES ASSUME StatusTypes, [Next]_vars PROVE StatusTypes'
  OBVIOUS
<1> USE DEF world, status, conn, inbox, control, trace, Goes
<1>a. ASSUME connected' \in {connected, TRUE, FALSE},
             error' \in {error, TRUE, FALSE},
             NotVerified \/ UNCHANGED <<verified, layerIndex>>
      PROVE  StatusTypes'
  <2>1. connected' \in BOOLEAN
    BY <1>a DEF StatusTypes
  <2>2. error' \in BOOLEAN
    BY <1>a DEF StatusTypes
  <2>3. CASE NotVerified
    BY <2>1, <2>2, <2>3 DEF StatusTypes, NotVerified
  <2>4. CASE UNCHANGED <<verified, layerIndex>>
    BY <2>1, <2>2, <2>4 DEF StatusTypes
  <2> QED BY <1>a, <2>3, <2>4
<1>1. CASE World
  BY <1>1, <1>a DEF World, Press, Answer, AnswersVendor, LoseReport,
                    SwitchLayer, Unplug, Plug
<1>2. CASE Open \/ Reconnect
  BY <1>2, <1>a DEF Open, Reconnect, Dispose
<1>3. CASE Acquire
  BY <1>3, <1>a DEF Acquire
<1>4. CASE Register
  BY <1>4, <1>a DEF Register, RegisterWith
<1>5. CASE Abandon
  BY <1>5, <1>a DEF Abandon, Dispose
<1>6. CASE Status \/ GiveUp \/ Poll \/ PollReturns
  BY <1>6, <1>a DEF Status, GiveUp, Poll, PollReturns
<1>7. CASE SendRequest
  BY <1>7, <1>a DEF SendRequest
<1>8. CASE TakeReply
  <2>1. UNCHANGED <<connected, error>>
    BY <1>8 DEF TakeReply
  <2>2. CASE Usable(messages[Found])
    BY <1>8, <2>1, <2>2 DEF TakeReply, StatusTypes, Usable
  <2>3. CASE ~Usable(messages[Found])
    BY <1>8, <1>a, <2>1, <2>3 DEF TakeReply
  <2> QED BY <2>2, <2>3
<1>9. ASSUME NEW at, NEW raised, Pump(at, raised)
      PROVE  StatusTypes'
  BY <1>9, <1>a DEF Pump, Deliver, Broken, Fault
<1>10. CASE FlushPump
  BY <1>10, <1>a DEF FlushPump, Deliver, Broken, Fault
<1>11. CASE DiscardHidInputs \/ SendFails \/ Close
  BY <1>11, <1>a DEF DiscardHidInputs, SendFails, Close
<1>12. CASE CloseEnds
  BY <1>12, <1>a DEF CloseEnds, Dispose
<1>13. CASE UNCHANGED vars
  BY <1>13, <1>a DEF vars
<1> QED
  BY <1>1, <1>2, <1>3, <1>4, <1>5, <1>6, <1>7, <1>8, <1>9, <1>10, <1>11, <1>12,
     <1>13 DEF Next, Owner, AwaitPump, PollPump

\* The owner thread is in one of its calls.
LEMMA CallTypesStep == CallTypes /\ [Next]_vars => CallTypes'
<1> SUFFICES ASSUME CallTypes, [Next]_vars PROVE CallTypes'
  OBVIOUS
<1> USE DEF world, status, conn, inbox, control, trace, Goes
<1>1. CASE World
  <2>1. UNCHANGED <<pc, op>>
    BY <1>1 DEF World, Press, Answer, AnswersVendor, LoseReport, SwitchLayer,
                Unplug, Plug
  <2> QED BY <2>1 DEF CallTypes
<1>2. CASE Open \/ Reconnect \/ Acquire \/ Status \/ SendRequest
  BY <1>2 DEF CallTypes, Open, Reconnect, Acquire, Status, SendRequest
<1>3. CASE Register \/ Abandon \/ TakeReply \/ GiveUp
  BY <1>3 DEF CallTypes, Register, RegisterWith, Abandon, TakeReply, GiveUp
<1>4. CASE AwaitPump \/ PollPump
  BY <1>4 DEF CallTypes, AwaitPump, PollPump, Pump
<1>5. CASE Poll \/ PollReturns \/ DiscardHidInputs \/ SendFails
  BY <1>5 DEF CallTypes, Poll, PollReturns, DiscardHidInputs, SendFails
<1>6. CASE Close \/ FlushPump \/ CloseEnds
  BY <1>6 DEF CallTypes, Close, FlushPump, CloseEnds
<1>7. CASE UNCHANGED vars
  BY <1>7 DEF vars, CallTypes
<1> QED
  BY <1>1, <1>2, <1>3, <1>4, <1>5, <1>6, <1>7 DEF Next, Owner

\* Every step leaves the count of events, or is one.
LEMMA Counting == [Next]_vars => events' = events \/ Event
<1> SUFFICES ASSUME [Next]_vars, events' # events PROVE Event
  OBVIOUS
<1> USE DEF world, status, conn, inbox, control, trace, Goes
<1>1. CASE World
  BY <1>1 DEF World, Press, Answer, AnswersVendor, LoseReport, SwitchLayer,
              Unplug, Plug
<1>2. CASE Open \/ Reconnect \/ Acquire \/ Status \/ SendRequest
  BY <1>2 DEF Open, Reconnect, Cleanly, Badly, Acquire, Granted, Refused,
              Status, SendRequest
<1>3. CASE Register \/ Abandon \/ TakeReply \/ GiveUp
  BY <1>3 DEF Register, RegisterWith, Registers, RollsBack, Abandon, Cleanly,
              Badly, TakeReply, GiveUp
<1>4. ASSUME NEW at, NEW raised, Pump(at, raised)
      PROVE  Event
  BY <1>4 DEF Pump, Deliver, Fault
<1>5. CASE FlushPump
  BY <1>5 DEF FlushPump, Deliver, Fault
<1>6. CASE Poll \/ PollReturns \/ DiscardHidInputs \/ SendFails
  BY <1>6 DEF Poll, PollReturns, DiscardHidInputs, SendFails
<1>7. CASE Close \/ CloseEnds
  BY <1>7 DEF Close, CloseEnds, Cleanly, Badly
<1>8. CASE UNCHANGED vars
  BY <1>8 DEF vars
<1> QED
  BY <1>1, <1>2, <1>3, <1>4, <1>5, <1>6, <1>7, <1>8 DEF Next, Owner, AwaitPump,
     PollPump

\* Only a request makes the device owe an answer, and forgets the layers it has
\* been on.
LEMMA Asking ==
    [Next]_vars =>
        \/ /\ requests' = requests /\ asks' \subseteq asks
           /\ since \subseteq since'
        \/ /\ requests < MaxRequests /\ requests' = requests + 1
           /\ asks' \subseteq asks \cup {requests'}
<1> SUFFICES ASSUME [Next]_vars,
                    ~(/\ requests' = requests /\ asks' \subseteq asks
                      /\ since \subseteq since')
             PROVE  /\ requests < MaxRequests /\ requests' = requests + 1
                    /\ asks' \subseteq asks \cup {requests'}
  OBVIOUS
<1> USE DEF world, status, conn, inbox, control, trace, Goes
<1>1. CASE World
  BY <1>1 DEF World, Press, Answer, AnswersVendor, LoseReport, SwitchLayer,
              Unplug, Plug
<1>2. CASE Open \/ Reconnect \/ Acquire \/ Status
  BY <1>2 DEF Open, Reconnect, Acquire, Status
<1>3. CASE SendRequest
  BY <1>3 DEF SendRequest
<1>4. CASE Register \/ Abandon \/ TakeReply \/ GiveUp
  BY <1>4 DEF Register, RegisterWith, Abandon, TakeReply, GiveUp
<1>5. CASE AwaitPump \/ PollPump \/ FlushPump
  BY <1>5 DEF AwaitPump, PollPump, Pump, FlushPump
<1>6. CASE Poll \/ PollReturns \/ DiscardHidInputs \/ SendFails
  BY <1>6 DEF Poll, PollReturns, DiscardHidInputs, SendFails
<1>7. CASE Close \/ CloseEnds
  BY <1>7 DEF Close, CloseEnds
<1>8. CASE UNCHANGED vars
  BY <1>8 DEF vars
<1> QED
  BY <1>1, <1>2, <1>3, <1>4, <1>5, <1>6, <1>7, <1>8 DEF Next, Owner

(* -------------------------- who holds the device ------------------------ *)

\* There is one reference to the device that is held, and before one is
\* acquired, and when all is over, none is.
HeldInv ==
    /\ handles = IF device = "none" THEN 0 ELSE 1
    /\ pc \in {"unopened", "acquire", "shut"} => device = "none"

\* Disposing gives the reference back, if there is one.
LEMMA DisposeReleases ==
    ASSUME HeldInv, Dispose
    PROVE  device' = "none" /\ handles' = 0
BY DEF HeldInv, Dispose

\* The world may take the device away, but not the reference to it.
LEMMA WorldStep ==
    ASSUME HeldInv, World
    PROVE  HeldInv'
<1> USE DEF HeldInv, world, status, conn, inbox, control, trace
<1>1. CASE Press \/ Answer \/ AnswersVendor
  BY <1>1 DEF Press, Answer, AnswersVendor
<1>2. CASE SwitchLayer \/ Plug \/ LoseReport
  BY <1>2 DEF SwitchLayer, Plug, LoseReport
<1>3. CASE Unplug
  BY <1>3 DEF Unplug
<1> QED
  BY <1>1, <1>2, <1>3 DEF World

\* A pump of the run loop holds on to the device.
LEMMA PumpStep ==
    ASSUME HeldInv, NEW at, NEW raised, Pump(at, raised),
           raised \notin {"unopened", "acquire", "shut"},
           at \notin {"unopened", "acquire", "shut"}
    PROVE  HeldInv'
<1>1. UNCHANGED <<device, handles>>
  BY DEF Pump, Deliver, conn
<1>2. pc' \notin {"unopened", "acquire", "shut"}
  BY DEF Pump, Goes
<1> QED BY <1>1, <1>2 DEF HeldInv

\* No call leaks the device, whichever of its steps fails.
LEMMA OwnerStep ==
    ASSUME HeldInv, Owner
    PROVE  HeldInv'
<1> USE DEF HeldInv, world, status, conn, inbox, control, trace, Goes
<1>1. CASE Open
  BY <1>1 DEF Open
<1>2. CASE Reconnect
  BY <1>2, DisposeReleases DEF Reconnect
<1>3. CASE Acquire
  BY <1>3 DEF Acquire, Granted, Refused
<1>4. CASE Register
  BY <1>4 DEF Register, RegisterWith
<1>5. CASE Abandon
  BY <1>5, DisposeReleases DEF Abandon
<1>6. CASE Status \/ SendRequest
  BY <1>6 DEF Status, SendRequest
<1>7. CASE AwaitPump \/ PollPump
  BY <1>7, PumpStep DEF AwaitPump, PollPump
<1>8. CASE TakeReply \/ GiveUp \/ Poll \/ PollReturns
  BY <1>8 DEF TakeReply, GiveUp, Poll, PollReturns
<1>9. CASE DiscardHidInputs \/ SendFails \/ Close
  BY <1>9 DEF DiscardHidInputs, SendFails, Close
<1>10. CASE FlushPump
  BY <1>10 DEF FlushPump, Deliver
<1>11. CASE CloseEnds
  BY <1>11, DisposeReleases DEF CloseEnds
<1> QED
  BY <1>1, <1>2, <1>3, <1>4, <1>5, <1>6, <1>7, <1>8, <1>9, <1>10, <1>11
     DEF Owner

\* One reference to the device at most, whatever happens.
LEMMA HeldStep == HeldInv /\ [Next]_vars => HeldInv'
<1>1. HeldInv /\ UNCHANGED vars => HeldInv'
  BY DEF HeldInv, vars, conn, control
<1> QED BY <1>1, WorldStep, OwnerStep DEF Next

(* --------------------------- phases and counts -------------------------- *)

\* Where the owner thread is, what it knows and what the device owes: nothing is
\* registered while it opens, only a registered connection is connected, and it
\* verifies anew what it asks about.
PhaseInv ==
    /\ pc \in {"unopened", "acquire", "register"} => registered = 0
    /\ connected => registered # 0
    /\ pc = "register" => epochs < MaxEpochs
    /\ pc \in {"send", "await"} => ~verified
    /\ pc = "await" => requests # 0

\* A device that owes an answer has been on its layer since it was asked.
AskedInv == asks # {} => layer \in since

\* What a buffered report does to the decoder.
LEMMA Buffering ==
    [Next]_vars => buf' \in {buf, 0} \/ (buf # MaxBuffer /\ buf' = buf + 1)
<1> SUFFICES ASSUME [Next]_vars, buf' \notin {buf, 0}
             PROVE  buf # MaxBuffer /\ buf' = buf + 1
  OBVIOUS
<1> USE DEF world, status, conn, inbox, control, trace, Goes
<1>1. CASE World
  BY <1>1 DEF World, Press, Answer, AnswersVendor, LoseReport, SwitchLayer,
              Unplug, Plug
<1>2. CASE Open \/ Reconnect \/ Acquire \/ Status \/ SendRequest
  BY <1>2 DEF Open, Reconnect, Acquire, Status, SendRequest
<1>3. CASE Register \/ Abandon \/ TakeReply \/ GiveUp
  BY <1>3 DEF Register, RegisterWith, Abandon, TakeReply, GiveUp
<1>4. ASSUME NEW at, NEW raised, Pump(at, raised)
      PROVE  buf # MaxBuffer /\ buf' = buf + 1
  BY <1>4 DEF Pump, Deliver, Feed
<1>5. CASE FlushPump
  BY <1>5 DEF FlushPump, Deliver, Feed
<1>6. CASE Poll \/ PollReturns \/ DiscardHidInputs \/ SendFails
  BY <1>6 DEF Poll, PollReturns, DiscardHidInputs, SendFails
<1>7. CASE Close \/ CloseEnds
  BY <1>7 DEF Close, CloseEnds
<1>8. CASE UNCHANGED vars
  BY <1>8 DEF vars
<1> QED
  BY <1>1, <1>2, <1>3, <1>4, <1>5, <1>6, <1>7, <1>8 DEF Next, Owner, AwaitPump,
     PollPump

\* No count passes its bound.
LEMMA CountTypesStep == CountTypes /\ [Next]_vars => CountTypes'
<1> SUFFICES ASSUME CountTypes, [Next]_vars PROVE CountTypes'
  OBVIOUS
<1>1. events' \in 0..MaxEvents
  BY Counting, BoundsAssumption DEF CountTypes, Event
<1>2. requests' \in 0..MaxRequests /\ asks' \subseteq 1..requests'
  <2>1. /\ requests \in Nat /\ requests <= MaxRequests
        /\ asks \subseteq 1..requests
    BY BoundsAssumption DEF CountTypes
  <2>2. CASE requests' = requests /\ asks' \subseteq asks
    BY <2>1, <2>2 DEF CountTypes
  <2>3. CASE /\ requests < MaxRequests /\ requests' = requests + 1
             /\ asks' \subseteq asks \cup {requests'}
    <3>1. requests' \in 0..MaxRequests
      BY <2>1, <2>3, BoundsAssumption
    <3>2. 1..requests \subseteq 1..requests' /\ requests' \in 1..requests'
      BY <2>1, <2>3
    <3> QED BY <2>1, <2>3, <3>1, <3>2
  <2> QED BY <2>2, <2>3, Asking
<1>3. buf' \in 0..MaxBuffer
  BY Buffering, BoundsAssumption DEF CountTypes
<1> QED BY <1>1, <1>2, <1>3 DEF CountTypes

\* A connection is registered with an epoch of its own, none with an old one.
LEMMA Registering ==
    [Next]_vars =>
        \/ UNCHANGED <<epoch, epochs>> /\ registered' \in {registered, 0}
        \/ /\ pc = "register" /\ device' = device /\ wire' = wire
           /\ epochs' = epochs + 1 /\ UNCHANGED <<epoch, registered>>
        \/ /\ pc = "register" /\ device' = device /\ connected'
           /\ epochs' = epochs + 1 /\ epoch' = epochs' /\ registered' = epochs'
<1> SUFFICES ASSUME [Next]_vars, ~Register
             PROVE  /\ UNCHANGED <<epoch, epochs>>
                    /\ registered' \in {registered, 0}
  BY DEF Register, RegisterWith, Registers, RollsBack
<1> USE DEF world, status, conn, inbox, control, trace, Goes
<1>1. CASE World
  BY <1>1 DEF World, Press, Answer, AnswersVendor, LoseReport, SwitchLayer,
              Unplug, Plug
<1>2. CASE Open \/ Reconnect \/ Acquire \/ Status \/ SendRequest
  BY <1>2 DEF Open, Reconnect, Dispose, Acquire, Status, SendRequest
<1>3. CASE Abandon \/ TakeReply \/ GiveUp
  BY <1>3 DEF Abandon, Dispose, TakeReply, GiveUp
<1>4. CASE AwaitPump \/ PollPump \/ FlushPump
  BY <1>4 DEF AwaitPump, PollPump, FlushPump, Pump, Deliver
<1>5. CASE Poll \/ PollReturns \/ DiscardHidInputs \/ SendFails
  BY <1>5 DEF Poll, PollReturns, DiscardHidInputs, SendFails
<1>6. CASE Close \/ CloseEnds
  BY <1>6 DEF Close, CloseEnds, Dispose
<1>7. CASE UNCHANGED vars
  BY <1>7 DEF vars
<1> QED
  BY <1>1, <1>2, <1>3, <1>4, <1>5, <1>6, <1>7 DEF Next, Owner

\* The device is opened while nothing is registered; from then on it can only be
\* lost.
LEMMA Holding ==
    PhaseInv /\ [Next]_vars => registered' = 0 \/ device' \in {device, "gone"}
<1> SUFFICES ASSUME PhaseInv, [Next]_vars, device' \notin {device, "gone"}
             PROVE  registered' = 0
  OBVIOUS
<1> USE DEF world, status, conn, inbox, control, trace, Goes
<1>1. CASE World
  BY <1>1 DEF World, Press, Answer, AnswersVendor, LoseReport, SwitchLayer,
              Unplug, Plug
<1>2. CASE Acquire
  BY <1>2 DEF Acquire, PhaseInv
<1>3. CASE Open \/ Reconnect \/ Status \/ SendRequest
  BY <1>3 DEF Open, Reconnect, Dispose, Status, SendRequest
<1>4. CASE Register \/ Abandon \/ TakeReply \/ GiveUp
  BY <1>4 DEF Register, RegisterWith, Abandon, Dispose, TakeReply, GiveUp
<1>5. CASE AwaitPump \/ PollPump \/ FlushPump
  BY <1>5 DEF AwaitPump, PollPump, FlushPump, Pump, Deliver
<1>6. CASE Poll \/ PollReturns \/ DiscardHidInputs \/ SendFails
  BY <1>6 DEF Poll, PollReturns, DiscardHidInputs, SendFails
<1>7. CASE Close \/ CloseEnds
  BY <1>7 DEF Close, CloseEnds, Dispose
<1>8. CASE UNCHANGED vars
  BY <1>8 DEF vars
<1> QED
  BY <1>1, <1>2, <1>3, <1>4, <1>5, <1>6, <1>7, <1>8 DEF Next, Owner

\* Epochs only grow, up to their bound.
LEMMA EpochTypesStep ==
    PhaseInv /\ EpochTypes /\ [Next]_vars => EpochTypes'
<1> SUFFICES ASSUME PhaseInv, EpochTypes, [Next]_vars PROVE EpochTypes'
  OBVIOUS
<1>0. /\ epochs \in Nat /\ epochs <= MaxEpochs
      /\ epoch \in Nat /\ epoch <= epochs
      /\ registered \in {0, epoch} /\ MaxEpochs \in Nat
  BY BoundsAssumption DEF EpochTypes
<1>1. CASE UNCHANGED <<epoch, epochs>> /\ registered' \in {registered, 0}
  BY <1>1 DEF EpochTypes
<1>2. CASE /\ pc = "register" /\ epochs' = epochs + 1
           /\ UNCHANGED <<epoch, registered>>
  <2>1. epochs' \in 0..MaxEpochs /\ epoch' \in 0..epochs'
    BY <1>0, <1>2 DEF PhaseInv
  <2> QED BY <1>0, <1>2, <2>1 DEF EpochTypes
<1>3. CASE /\ pc = "register" /\ epochs' = epochs + 1 /\ epoch' = epochs'
           /\ registered' = epochs'
  <2>1. epochs' \in 0..MaxEpochs /\ epoch' \in 0..epochs'
    BY <1>0, <1>3 DEF PhaseInv
  <2> QED BY <1>3, <2>1 DEF EpochTypes
<1> QED BY <1>1, <1>2, <1>3, Registering

\* Every call keeps to its order.
LEMMA PhaseStep ==
    PhaseInv /\ EpochTypes /\ CountTypes /\ [Next]_vars => PhaseInv'
<1> SUFFICES ASSUME PhaseInv, EpochTypes, CountTypes, [Next]_vars
             PROVE  PhaseInv'
  OBVIOUS
<1> USE DEF world, status, conn, inbox, control, trace, Goes
<1>0. epochs \in Nat /\ requests \in Nat
  BY BoundsAssumption DEF EpochTypes, CountTypes
<1>a. ASSUME UNCHANGED <<pc, registered, connected, epochs, verified, requests>>
      PROVE  PhaseInv'
  BY <1>a DEF PhaseInv
<1>b. ASSUME pc' \in {"idle", "poll", "failed", "flush", "shut"},
             UNCHANGED registered, connected' => connected
      PROVE  PhaseInv'
  BY <1>b DEF PhaseInv
<1>1. CASE World
  BY <1>1, <1>a DEF World, Press, Answer, AnswersVendor, LoseReport,
                    SwitchLayer, Unplug, Plug
<1>2. CASE Open
  BY <1>2 DEF Open, PhaseInv
<1>3. CASE Reconnect
  BY <1>3 DEF Reconnect, Dispose, PhaseInv
<1>4. CASE Acquire
  BY <1>4 DEF Acquire, PhaseInv
<1>5. CASE Status
  <2>1. pc' \in {"send", "idle"} /\ ~verified'
    BY <1>5 DEF Status, NotVerified
  <2>2. UNCHANGED <<registered, connected, epochs, requests>>
    BY <1>5 DEF Status
  <2> QED BY <2>1, <2>2 DEF PhaseInv
<1>6. CASE SendRequest
  BY <1>0, <1>6 DEF SendRequest, PhaseInv
<1>7. CASE Register
  <2>1. pc' \in {"idle", "send", "failed"} /\ ~verified' /\ registered = 0
    BY <1>7 DEF Register, RegisterWith, NotVerified, PhaseInv
  <2>2. connected' => registered' = epochs + 1
    BY <1>7 DEF Register, RegisterWith, Registers
  <2> QED BY <1>0, <2>1, <2>2 DEF PhaseInv
<1>8. CASE Abandon
  BY <1>8 DEF Abandon, Dispose, PhaseInv
<1>9. CASE TakeReply \/ GiveUp \/ Poll \/ PollReturns
  BY <1>9, <1>b DEF TakeReply, GiveUp, Poll, PollReturns
<1>10. ASSUME NEW at \in {"await", "poll"}, NEW raised \in {"failed", "idle"},
              Pump(at, raised)
       PROVE  PhaseInv'
  <2>1. UNCHANGED <<registered, requests, epochs>> /\ pc' \in {at, raised}
    BY <1>10 DEF Pump, Deliver
  <2>2. /\ Broken \/ UNCHANGED status
        /\ pc = at
    BY <1>10 DEF Pump, Deliver, Fault
  <2>3. CASE Broken
    BY <1>10, <2>1, <2>2, <2>3 DEF PhaseInv, Broken, NotVerified
  <2>4. CASE UNCHANGED status
    BY <1>10, <2>1, <2>2, <2>4 DEF PhaseInv
  <2> QED BY <2>2, <2>3, <2>4
<1>11. CASE FlushPump
  BY <1>11 DEF FlushPump, Deliver, Broken, Fault, PhaseInv
<1>12. CASE DiscardHidInputs
  BY <1>12, <1>a DEF DiscardHidInputs
<1>13. CASE SendFails \/ Close
  BY <1>13, <1>b DEF SendFails, Close
<1>14. CASE CloseEnds
  BY <1>14 DEF CloseEnds, Dispose, PhaseInv
<1>15. CASE UNCHANGED vars
  BY <1>15, <1>a DEF vars
<1> QED
  BY <1>1, <1>2, <1>3, <1>4, <1>5, <1>6, <1>7, <1>8, <1>9, <1>10, <1>11, <1>12,
     <1>13, <1>14, <1>15 DEF Next, Owner, AwaitPump, PollPump

\* A switch to another layer and back, and every request, leave the device on a
\* layer it has been on.
LEMMA AskedStep == AskedInv /\ [Next]_vars => AskedInv'
<1> SUFFICES ASSUME AskedInv, [Next]_vars PROVE AskedInv'
  OBVIOUS
<1> USE DEF world, status, conn, inbox, control, trace, Goes, AskedInv
<1>1. CASE World
  BY <1>1 DEF World, Press, Answer, AnswersVendor, LoseReport, SwitchLayer,
              Unplug, Plug
<1>2. CASE Open \/ Reconnect \/ Acquire \/ Status
  BY <1>2 DEF Open, Reconnect, Acquire, Status
<1>3. CASE SendRequest
  BY <1>3 DEF SendRequest
<1>4. CASE Register \/ Abandon \/ TakeReply \/ GiveUp
  BY <1>4 DEF Register, RegisterWith, Abandon, TakeReply, GiveUp
<1>5. CASE AwaitPump \/ PollPump \/ FlushPump
  BY <1>5 DEF AwaitPump, PollPump, Pump, FlushPump
<1>6. CASE Poll \/ PollReturns \/ DiscardHidInputs \/ SendFails
  BY <1>6 DEF Poll, PollReturns, DiscardHidInputs, SendFails
<1>7. CASE Close \/ CloseEnds
  BY <1>7 DEF Close, CloseEnds
<1>8. CASE UNCHANGED vars
  BY <1>8 DEF vars
<1> QED
  BY <1>1, <1>2, <1>3, <1>4, <1>5, <1>6, <1>7, <1>8 DEF Next, Owner

(* ----------------------- queues and their elements ---------------------- *)

\* The least position is one of the positions.
LEMMA MinIsOne ==
    ASSUME NEW n \in Nat, NEW I, I \subseteq 1..n, I # {}
    PROVE  Min(I) \in I
BY LeastPosition DEF Min

\* What is found among the messages is a reply to the last request.
LEMMA FoundMatches ==
    ASSUME NEW X, messages \in Seq(X), Found # 0
    PROVE  Found \in 1..Len(messages) /\ Matches(messages[Found])
<1> DEFINE I == {n \in 1..Len(messages) : Matches(messages[n])}
<1>1. Found = IF I # {} THEN Min(I) ELSE 0
  BY DEF Found, SelectInSeq
<1>2. Len(messages) \in Nat /\ I \subseteq 1..Len(messages) /\ I # {}
  BY <1>1
<1>3. Found \in I
  BY <1>1, <1>2, MinIsOne
<1> QED BY <1>3

\* Taking one element out of a queue leaves a queue of the others.
LEMMA RemoveAtLeaves ==
    ASSUME NEW X, NEW q \in Seq(X), NEW i \in 1..Len(q)
    PROVE  RemoveAt(q, i) \in Seq(X)
<1>1. SubSeq(q, 1, i - 1) \in Seq(X) /\ SubSeq(q, i + 1, Len(q)) \in Seq(X)
  OBVIOUS
<1> QED BY <1>1, ConcatProperties DEF RemoveAt

(* -------------------------------- the mail ------------------------------ *)

\* A reply has the id of a request that was sent, or none of ours; one to the
\* last request has a layer the device was on since then, or none.
Honest(m) ==
    m.kind = "reply" =>
        /\ m.id <= requests
        /\ m.id = requests /\ requests # 0 => m.layer \in since \cup {0}

\* What may wait on the wire: a report of an opened connection with an honest
\* message for it, or the removal of a device, which is gone if it is the one of
\* the present connection.
OnWire ==
    {n \in Reports :
        /\ n.conn \in 1..epochs
        /\ n.part = "removal" /\ n.conn = registered => device = "gone"
        /\ n.part # "removal" => n.msg.conn = n.conn /\ Honest(n.msg)}

\* What may wait to be polled, or taken as a reply.
InBox == {m \in Messages : m.conn = epoch /\ Honest(m)}

MailInv == wire \in Seq(OnWire) /\ messages \in Seq(InBox)

Known == CountTypes /\ EpochTypes /\ WorldTypes /\ PhaseInv /\ AskedInv

\* What was honest stays so: a newer request has an id of its own.
LEMMA HonestStays ==
    ASSUME Known, [Next]_vars, NEW m \in Messages, Honest(m)
    PROVE  Honest(m)'
<1>1. requests \in Nat /\ m.id \in Nat
  BY BoundsAssumption DEF Known, CountTypes, Messages
<1>2. CASE requests' = requests /\ since \subseteq since'
  BY <1>2 DEF Honest
<1>3. CASE requests' = requests + 1
  BY <1>1, <1>3 DEF Honest
<1> QED BY <1>2, <1>3, Asking

\* What may wait on the wire may go on waiting.
LEMMA OnWireStays == Known /\ [Next]_vars => OnWire \subseteq OnWire'
<1> SUFFICES ASSUME Known, [Next]_vars, NEW n \in OnWire PROVE n \in OnWire'
  OBVIOUS
<1>1. /\ epochs \in Nat /\ epochs' \in {epochs, epochs + 1}
      /\ n \in Reports /\ n.conn \in 1..epochs
  BY Registering, BoundsAssumption DEF OnWire, Known, EpochTypes
<1>2. n.conn \in 1..epochs'
  BY <1>1
<1>3. n.part # "removal" => n.msg.conn = n.conn /\ Honest(n.msg)'
  BY HonestStays DEF OnWire, Reports
<1>4. ASSUME n.part = "removal", n.conn = registered'
      PROVE  device' = "gone"
  <2>1. n.conn # 0 /\ n.conn # epochs + 1
    BY <1>1
  <2>2. registered' = registered /\ device' \in {device, "gone"}
    BY <1>4, <2>1, Registering, Holding DEF Known
  <2> QED BY <1>4, <2>2 DEF OnWire
<1> QED BY <1>1, <1>2, <1>3, <1>4 DEF OnWire

\* What may wait in the box may stay while the connection does.
LEMMA InBoxStays ==
    Known /\ [Next]_vars /\ epoch' = epoch => InBox \subseteq InBox'
<1> SUFFICES ASSUME Known, [Next]_vars, epoch' = epoch, NEW m \in InBox
             PROVE  m \in InBox'
  OBVIOUS
<1> QED BY HonestStays DEF InBox

\* A device that is listened to may put an honest message on the wire.
LEMMA Reported ==
    ASSUME Known, Listening, NEW part \in {"whole", "head", "tail"},
           NEW kind \in {"input", "reply"}, NEW id \in Nat,
           NEW l \in {0} \cup Layers, Honest(Message(kind, id, l))
    PROVE  Report(part, Message(kind, id, l)) \in OnWire
<1>1. registered \in 1..epochs /\ registered \in Nat
  BY BoundsAssumption DEF Listening, Known, EpochTypes
<1>2. /\ Message(kind, id, l) \in Messages
      /\ Message(kind, id, l).conn = registered
  BY <1>1 DEF Message, Messages
<1>3. /\ Report(part, Message(kind, id, l)) \in Reports
      /\ Report(part, Message(kind, id, l)).conn = registered
      /\ Report(part, Message(kind, id, l)).part = part
      /\ Report(part, Message(kind, id, l)).msg = Message(kind, id, l)
  BY <1>1, <1>2 DEF Report, Reports
<1> QED BY <1>1, <1>2, <1>3 DEF OnWire

\* The wire loses some of what it has, or gets reports that may be on it.
LEMMA WireSteps ==
    Known /\ wire \in Seq(OnWire) /\ [Next]_vars => wire' \in Seq(OnWire')
<1> SUFFICES ASSUME Known, wire \in Seq(OnWire), [Next]_vars
             PROVE  wire' \in Seq(OnWire')
  OBVIOUS
<1> USE DEF world, status, conn, inbox, control, trace, Goes
<1>0. wire \in Seq(OnWire')
  BY OnWireStays, QueueOfMore
<1>a. CASE wire' = wire
  BY <1>0, <1>a
<1>b. ASSUME wire # <<>>, wire' = Tail(wire)
      PROVE  wire' \in Seq(OnWire')
  BY <1>0, <1>b, HeadTailProperties
<1>c. CASE wire' = Unregistered
  <2> DEFINE I == {i \in DOMAIN wire : wire[i].conn # registered}
  <2>1. Pick(wire, I) \in Seq(OnWire')
    BY <1>0, PickProperties, ElementOfSeq
  <2> QED BY <1>c, <2>1 DEF Unregistered, Only
<1>d. ASSUME NEW n, n \in OnWire', wire' = Append(wire, n)
      PROVE  wire' \in Seq(OnWire')
  BY <1>0, <1>d, AppendProperties
<1>e. ASSUME NEW c \in 1..epochs', wire' = Append(wire, Removal(c)),
             c = registered' => device' = "gone"
      PROVE  wire' \in Seq(OnWire')
  <2>1. c \in Nat /\ NoMessage \in Messages
    BY <1>e DEF NoMessage, Messages
  <2>2. Removal(c) \in OnWire'
    BY <1>e, <2>1 DEF OnWire, Removal, Reports
  <2> QED BY <1>d, <1>e, <2>2
<1>f. ASSUME NEW n, n \in OnWire', NEW o, o \in OnWire',
             wire' = wire \o <<n, o>>
      PROVE  wire' \in Seq(OnWire')
  BY <1>0, <1>f
<1>g. ASSUME NEW id \in Nat, NEW l \in {0} \cup Layers, Listening,
             Replies(id, l), Honest(Message("reply", id, l))
      PROVE  wire' \in Seq(OnWire')
  <2> DEFINE m == Message("reply", id, l)
  <2>1. Report("head", m) \in OnWire /\ Report("tail", m) \in OnWire
    BY <1>g, Reported
  <2>2. wire' = wire \o <<Report("head", m), Report("tail", m)>>
    BY <1>g DEF Replies, Emits
  <2> QED BY <1>f, <2>1, <2>2, OnWireStays
<1>1. CASE Press
  <2>1. Listening /\ wire' = wire \o <<Report("whole", Message("input", 0, 0))>>
    BY <1>1 DEF Press, Emits
  <2>2. Report("whole", Message("input", 0, 0)) \in OnWire
    BY <2>1, Reported DEF Honest, Message
  <2> QED BY <1>0, <2>1, <2>2, OnWireStays
<1>2. CASE Answer
  <2>1. PICK id \in asks : Replies(id, layer) \/ Replies(id, 0)
    BY <1>2 DEF Answer
  <2>2. /\ Listening /\ id \in Nat /\ id <= requests
        /\ layer \in Layers /\ layer \in since
    BY <1>2 DEF Answer, Known, CountTypes, WorldTypes, AskedInv
  <2>3. /\ Honest(Message("reply", id, layer))
        /\ Honest(Message("reply", id, 0))
    BY <2>2 DEF Honest, Message
  <2> QED BY <1>g, <2>1, <2>2, <2>3
<1>3. CASE AnswersVendor
  <2>1. Listening /\ layer \in Layers /\ requests \in Nat
    BY <1>3, BoundsAssumption DEF AnswersVendor, Known, CountTypes, WorldTypes
  <2>2. Honest(Message("reply", 0, layer))
    BY <2>1 DEF Honest, Message
  <2>3. Replies(0, layer)
    BY <1>3 DEF AnswersVendor
  <2> QED BY <1>g, <2>1, <2>2, <2>3
<1>4. CASE Unplug
  <2>1. CASE Listening
    <3>1. registered \in 1..epochs /\ registered \in 1..epochs'
      BY <1>4, <2>1 DEF Listening, Unplug, Known, EpochTypes
    <3> QED BY <1>4, <1>e, <2>1, <3>1 DEF Unplug, Listening
  <2>2. CASE ~Listening
    BY <1>4, <1>a, <2>2 DEF Unplug
  <2> QED BY <2>1, <2>2
<1>5. CASE SwitchLayer \/ Plug
  BY <1>5, <1>a DEF SwitchLayer, Plug
<1>6. CASE LoseReport
  BY <1>6, <1>b DEF LoseReport
<1>7. CASE Open \/ Acquire \/ Status \/ SendRequest
  BY <1>7, <1>a DEF Open, Acquire, Status, SendRequest
<1>8. CASE Reconnect
  BY <1>8, <1>a, <1>c DEF Reconnect, Cleanly, Badly
<1>9. CASE Register
  <2>1. CASE UNCHANGED wire
    BY <1>a, <2>1
  <2>2. CASE wire' # wire
    <3>1. /\ epochs' = epochs + 1 /\ device' = "gone"
          /\ wire' = Append(wire, Removal(epochs'))
      BY <1>9, <2>2 DEF Register, RegisterWith, Registers, RollsBack
    <3>2. epochs' \in 1..epochs'
      BY <3>1, BoundsAssumption DEF Known, EpochTypes
    <3> QED BY <1>e, <3>1, <3>2
  <2> QED BY <2>1, <2>2
<1>10. CASE Abandon
  BY <1>10, <1>a, <1>c DEF Abandon, Cleanly, Badly
<1>11. CASE TakeReply \/ GiveUp \/ Poll \/ PollReturns
  BY <1>11, <1>a DEF TakeReply, GiveUp, Poll, PollReturns
<1>12. CASE AwaitPump \/ PollPump \/ FlushPump
  BY <1>12, <1>a, <1>b DEF AwaitPump, PollPump, FlushPump, Pump, Deliver
<1>13. CASE DiscardHidInputs \/ SendFails \/ Close
  BY <1>13, <1>a DEF DiscardHidInputs, SendFails, Close
<1>14. CASE CloseEnds
  BY <1>14, <1>a, <1>c DEF CloseEnds, Cleanly, Badly
<1>15. CASE UNCHANGED vars
  BY <1>15, <1>a DEF vars
<1> QED
  BY <1>1, <1>2, <1>3, <1>4, <1>5, <1>6, <1>7, <1>8, <1>9, <1>10, <1>11, <1>12,
     <1>13, <1>14, <1>15 DEF Next, Owner, World

\* What the callbacks keep, and what a reply leaves, is of this connection.
LEMMA InBoxSteps ==
    Known /\ MailInv /\ [Next]_vars => messages' \in Seq(InBox')
<1> SUFFICES ASSUME Known, MailInv, [Next]_vars
             PROVE  messages' \in Seq(InBox')
  OBVIOUS
<1> USE DEF world, status, conn, inbox, control, trace, Goes
<1>0. wire \in Seq(OnWire) /\ messages \in Seq(InBox)
  BY DEF MailInv
<1>a. ASSUME epoch' = epoch
      PROVE  InBox \subseteq InBox' /\ messages \in Seq(InBox')
  BY <1>0, <1>a, InBoxStays, QueueOfMore
<1>b. CASE messages' = messages /\ epoch' = epoch
  BY <1>a, <1>b
<1>c. CASE messages' = <<>>
  BY <1>c
<1>d. CASE Deliver
  <2>1. epoch' = epoch /\ wire # <<>>
    BY <1>d DEF Deliver
  <2>2. Head(wire) \in OnWire
    BY <1>0, <2>1, HeadTailProperties
  <2>3. CASE messages' = messages
    BY <1>b, <2>1, <2>3
  <2>4. CASE messages' # messages
    <3>1. /\ Current(Head(wire)) /\ Head(wire).part # "removal"
          /\ messages' = Append(messages, Head(wire).msg)
      BY <1>d, <2>4 DEF Deliver, Feed
    <3>2. Head(wire).msg \in InBox
      BY <2>2, <3>1 DEF OnWire, InBox, Reports, Current
    <3>3. Head(wire).msg \in InBox' /\ messages \in Seq(InBox')
      BY <1>a, <2>1, <3>2
    <3> QED BY <3>1, <3>3, AppendProperties
  <2> QED BY <2>3, <2>4
<1>1. CASE World
  BY <1>1, <1>b DEF World, Press, Answer, AnswersVendor, LoseReport,
                    SwitchLayer, Unplug, Plug
<1>2. CASE Open \/ Reconnect \/ Acquire \/ Status \/ SendRequest
  BY <1>2, <1>b DEF Open, Reconnect, Dispose, Acquire, Status, SendRequest
<1>3. CASE Register
  BY <1>3, <1>b, <1>c DEF Register, RegisterWith
<1>4. CASE Abandon \/ GiveUp \/ Poll
  BY <1>4, <1>b DEF Abandon, Dispose, GiveUp, Poll
<1>5. ASSUME NEW at, NEW raised, Pump(at, raised)
      PROVE  messages' \in Seq(InBox')
  <2>1. CASE Deliver
    BY <1>d, <2>1
  <2>2. CASE UNCHANGED <<conn, inbox>>
    BY <1>b, <2>2
  <2> QED BY <1>5, <2>1, <2>2 DEF Pump
<1>6. CASE FlushPump
  BY <1>6, <1>d DEF FlushPump
<1>7. CASE TakeReply
  <2>1. epoch' = epoch /\ messages' = RemoveAt(messages, Found)
    BY <1>7 DEF TakeReply
  <2>2. messages \in Seq(InBox') /\ Found \in 1..Len(messages)
    BY <1>0, <1>7, <1>a, <2>1, FoundMatches DEF TakeReply
  <2> QED BY <2>1, <2>2, RemoveAtLeaves
<1>8. CASE PollReturns
  BY <1>8, <1>c DEF PollReturns
<1>9. CASE DiscardHidInputs
  <2> DEFINE I == {i \in DOMAIN messages : messages[i].kind # "input"}
  <2>1. epoch' = epoch /\ messages' = Pick(messages, I)
    BY <1>9 DEF DiscardHidInputs, Only
  <2>2. Pick(messages, I) \in Seq(InBox')
    BY <1>a, <2>1, PickProperties, ElementOfSeq
  <2> QED BY <2>1, <2>2
<1>10. CASE SendFails \/ Close \/ CloseEnds
  BY <1>10, <1>b DEF SendFails, Close, CloseEnds, Dispose
<1>11. CASE UNCHANGED vars
  BY <1>11, <1>b DEF vars
<1> QED
  BY <1>1, <1>2, <1>3, <1>4, <1>5, <1>6, <1>7, <1>8, <1>9, <1>10, <1>11
     DEF Next, Owner, AwaitPump, PollPump

(* ------------------- what is on the wire: its framing ------------------- *)

\* Of connection c, the reports on a wire that end a message.
Ends(w, c) ==
    {k \in DOMAIN w : w[k].conn = c /\ w[k].part \in {"whole", "tail"}}

\* Nothing but what connection c is sent comes after what it is sent; a head is
\* followed by its tail, and a tail comes first or follows its head.
Framed(w, c) ==
    \A k \in DOMAIN w : w[k].conn = c =>
        /\ \A j \in DOMAIN w : k < j => w[j].conn = c
        /\ w[k].part = "head" => k < Len(w) /\ w[k + 1].part = "tail"
        /\ k < Len(w) /\ w[k + 1].part = "tail" => w[k].part = "head"

\* The next report for connection c is the tail of a message whose head is gone.
Midway(w, c) ==
    \E k \in DOMAIN w :
        /\ w[k].conn = c /\ w[k].part = "tail"
        /\ k > 1 => w[k - 1].conn # c

\* There are so many messages on a wire.
LEMMA EndsFinite ==
    ASSUME NEW w \in Seq(Reports), NEW c
    PROVE  IsFiniteSet(Ends(w, c)) /\ Cardinality(Ends(w, c)) \in Nat
<1>1. Len(w) \in Nat /\ Ends(w, c) \subseteq 1..Len(w)
  BY DEF Ends
<1>2. IsFiniteSet(1..Len(w))
  BY <1>1, FS_Interval
<1>3. IsFiniteSet(Ends(w, c))
  BY <1>1, <1>2, FS_Subset
<1> QED BY <1>3, FS_CardinalityType

\* What the wire counts when its first report is taken off.
LEMMA TailEnds ==
    ASSUME NEW w \in Seq(Reports), NEW c, w # <<>>
    PROVE  /\ 1 \in Ends(w, c)
              => Cardinality(Ends(Tail(w), c)) = Cardinality(Ends(w, c)) - 1
           /\ 1 \notin Ends(w, c)
              => Cardinality(Ends(Tail(w), c)) = Cardinality(Ends(w, c))
<1> DEFINE S == Ends(w, c) \ {1}
           T == Ends(Tail(w), c)
           f == [k \in S |-> k - 1]
<1>1. /\ Tail(w) \in Seq(Reports) /\ Len(w) \in Nat /\ Len(Tail(w)) = Len(w) - 1
      /\ DOMAIN w = 1..Len(w) /\ DOMAIN Tail(w) = 1..Len(Tail(w))
      /\ \A i \in 1..Len(Tail(w)) : Tail(w)[i] = w[i + 1]
  BY HeadTailProperties
<1>2. ASSUME NEW k \in S PROVE k - 1 \in T
  <2>1. k \in 1..Len(w) /\ k # 1
    BY <1>1 DEF Ends
  <2>2. k - 1 \in 1..Len(Tail(w)) /\ (k - 1) + 1 = k
    BY <1>1, <2>1
  <2>3. Tail(w)[k - 1] = w[k]
    BY <1>1, <2>2
  <2> QED BY <1>1, <2>2, <2>3 DEF Ends
<1>3. ASSUME NEW k \in T PROVE k + 1 \in S /\ f[k + 1] = k
  <2>1. k \in 1..Len(Tail(w)) /\ k + 1 \in 1..Len(w) /\ k + 1 # 1
    BY <1>1 DEF Ends
  <2>2. Tail(w)[k] = w[k + 1]
    BY <1>1, <2>1
  <2>3. k + 1 \in S
    BY <1>1, <2>1, <2>2 DEF Ends
  <2> QED BY <2>1, <2>3
<1>4. f \in [S -> T]
  BY <1>2
<1>5. \A a, b \in S : f[a] = f[b] => a = b
  <2>1. S \subseteq Nat
    BY <1>1 DEF Ends
  <2> QED BY <2>1
<1>6. \A t \in T : \E s \in S : f[s] = t
  BY <1>3
<1>7. f \in Bijection(S, T)
  BY <1>4, <1>5, <1>6, Fun_IsBij
<1>8. ExistsBijection(S, T)
  BY <1>7, Fun_ExistsBij
<1>9. /\ IsFiniteSet(S)
      /\ Cardinality(S) = IF 1 \in Ends(w, c) THEN Cardinality(Ends(w, c)) - 1
                                              ELSE Cardinality(Ends(w, c))
  BY EndsFinite, FS_RemoveElement
<1>10. Cardinality(T) = Cardinality(S)
  BY <1>8, <1>9, FS_Bijection
<1> QED BY <1>9, <1>10

\* How the wire is framed when its first report is taken off.
LEMMA TailFramed ==
    ASSUME NEW w \in Seq(Reports), NEW c, w # <<>>, Framed(w, c)
    PROVE  /\ Framed(Tail(w), c)
           /\ w[1].conn # c => (Midway(Tail(w), c) <=> Midway(w, c))
           /\ w[1].conn = c =>
                 /\ Midway(w, c) <=> w[1].part = "tail"
                 /\ Midway(Tail(w), c) <=> w[1].part = "head"
<1>1. /\ Tail(w) \in Seq(Reports) /\ Len(w) \in Nat /\ Len(Tail(w)) = Len(w) - 1
      /\ DOMAIN w = 1..Len(w) /\ DOMAIN Tail(w) = 1..Len(Tail(w))
      /\ \A i \in 1..Len(Tail(w)) : Tail(w)[i] = w[i + 1]
      /\ Len(w) # 0
  BY HeadTailProperties
<1>2. Framed(Tail(w), c)
  <2> SUFFICES ASSUME NEW k \in 1..Len(Tail(w)), Tail(w)[k].conn = c
               PROVE  /\ \A j \in 1..Len(Tail(w)) : k < j => Tail(w)[j].conn = c
                      /\ Tail(w)[k].part = "head"
                         => k < Len(Tail(w)) /\ Tail(w)[k + 1].part = "tail"
                      /\ k < Len(Tail(w)) /\ Tail(w)[k + 1].part = "tail"
                         => Tail(w)[k].part = "head"
    BY <1>1 DEF Framed
  <2>1. k + 1 \in DOMAIN w /\ Tail(w)[k] = w[k + 1] /\ w[k + 1].conn = c
    BY <1>1
  <2>2. /\ \A j \in DOMAIN w : k + 1 < j => w[j].conn = c
        /\ w[k + 1].part = "head"
           => k + 1 < Len(w) /\ w[(k + 1) + 1].part = "tail"
        /\ k + 1 < Len(w) /\ w[(k + 1) + 1].part = "tail"
           => w[k + 1].part = "head"
    BY <2>1 DEF Framed
  <2>3. ASSUME NEW j \in 1..Len(Tail(w)), k < j PROVE Tail(w)[j].conn = c
    <3>1. j + 1 \in DOMAIN w /\ k + 1 < j + 1 /\ Tail(w)[j] = w[j + 1]
      BY <1>1, <2>3
    <3> QED BY <2>2, <3>1
  <2>4. k < Len(Tail(w)) <=> k + 1 < Len(w)
    BY <1>1
  <2>5. k < Len(Tail(w)) => Tail(w)[k + 1] = w[(k + 1) + 1]
    BY <1>1
  <2> QED BY <2>1, <2>2, <2>3, <2>4, <2>5
<1>3. ASSUME w[1].conn # c
      PROVE  Midway(Tail(w), c) <=> Midway(w, c)
  <2>1. ASSUME NEW k \in 1..Len(w), w[k].conn = c, w[k].part = "tail",
               k > 1 => w[k - 1].conn # c
        PROVE  Midway(Tail(w), c)
    <3> DEFINE j == k - 1
    <3>1. j \in DOMAIN Tail(w) /\ Tail(w)[j] = w[k]
      BY <1>1, <1>3, <2>1
    <3>2. j > 1 => Tail(w)[j - 1] = w[k - 1] /\ k > 1
      BY <1>1, <3>1
    <3> HIDE DEF j
    <3> QED BY <2>1, <3>1, <3>2 DEF Midway
  <2>2. ASSUME NEW k \in 1..Len(Tail(w)), Tail(w)[k].conn = c,
               Tail(w)[k].part = "tail", k > 1 => Tail(w)[k - 1].conn # c
        PROVE  Midway(w, c)
    <3>1. k + 1 \in 1..Len(w) /\ Tail(w)[k] = w[k + 1] /\ (k + 1) - 1 = k
      BY <1>1
    <3>2. w[k].conn # c
      BY <1>1, <1>3, <2>2
    <3> QED BY <1>1, <2>2, <3>1, <3>2 DEF Midway
  <2> QED BY <1>1, <2>1, <2>2 DEF Midway
<1>4. ASSUME w[1].conn = c
      PROVE  /\ Midway(w, c) <=> w[1].part = "tail"
             /\ Midway(Tail(w), c) <=> w[1].part = "head"
  <2>1. \A k \in 1..Len(w) : w[k].conn = c
    BY <1>1, <1>4 DEF Framed
  <2>2. Midway(w, c) <=> w[1].part = "tail"
    BY <1>1, <2>1 DEF Midway
  <2>3. \A k \in 1..Len(Tail(w)) : Tail(w)[k].conn = c
    BY <1>1, <2>1
  <2>4. Midway(Tail(w), c) => Len(Tail(w)) > 0 /\ Tail(w)[1].part = "tail"
    BY <1>1, <2>3 DEF Midway
  <2>5. Len(Tail(w)) > 0 /\ Tail(w)[1].part = "tail" => Midway(Tail(w), c)
    <3> SUFFICES ASSUME Len(Tail(w)) > 0, Tail(w)[1].part = "tail"
                 PROVE  Midway(Tail(w), c)
      OBVIOUS
    <3>1. 1 \in DOMAIN Tail(w) /\ ~(1 > 1)
      BY <1>1
    <3> QED BY <1>1, <2>3, <3>1 DEF Midway
  <2>6. Len(Tail(w)) > 0 => Tail(w)[1] = w[1 + 1]
    BY <1>1
  <2>7. w[1].part = "head" <=> 1 < Len(w) /\ w[1 + 1].part = "tail"
    BY <1>1, <1>4 DEF Framed
  <2> QED BY <1>1, <2>2, <2>4, <2>5, <2>6, <2>7
<1> QED BY <1>2, <1>3, <1>4

\* One more report, or a removal, for connection c.
LEMMA AppendFramed ==
    ASSUME NEW w \in Seq(Reports), NEW c, NEW n \in Reports, Framed(w, c),
           n.conn = c, n.part \in {"whole", "removal"}
    PROVE  /\ Framed(Append(w, n), c)
           /\ Midway(Append(w, n), c) <=> Midway(w, c)
           /\ Cardinality(Ends(Append(w, n), c))
              = Cardinality(Ends(w, c)) + IF n.part = "whole" THEN 1 ELSE 0
<1> DEFINE v == Append(w, n)
           l == Len(w)
<1>1. /\ v \in Seq(Reports) /\ l \in Nat /\ Len(v) = l + 1 /\ v[l + 1] = n
      /\ DOMAIN w = 1..l /\ DOMAIN v = 1..(l + 1) /\ \A i \in 1..l : v[i] = w[i]
  BY AppendProperties
<1> HIDE DEF v, l
<1>2. Framed(v, c)
  <2>1. ASSUME NEW k \in 1..(l + 1), v[k].conn = c, NEW j \in 1..(l + 1), k < j
        PROVE  v[j].conn = c
    BY <1>1, <2>1 DEF Framed
  <2>2. ASSUME NEW k \in 1..(l + 1), v[k].conn = c, v[k].part = "head"
        PROVE  k < l + 1 /\ v[k + 1].part = "tail"
    <3>1. k \in 1..l /\ w[k].conn = c /\ w[k].part = "head"
      BY <1>1, <2>2
    <3>2. k < l /\ w[k + 1].part = "tail"
      BY <1>1, <3>1 DEF Framed, l
    <3> QED BY <1>1, <3>1, <3>2
  <2>3. ASSUME NEW k \in 1..(l + 1), v[k].conn = c, k < l + 1,
               v[k + 1].part = "tail"
        PROVE  v[k].part = "head"
    <3>1. k \in 1..l /\ k < l /\ w[k].conn = c /\ w[k + 1].part = "tail"
      BY <1>1, <2>3
    <3> QED BY <1>1, <3>1 DEF Framed, l
  <2> QED BY <1>1, <2>1, <2>2, <2>3 DEF Framed
<1>3. Midway(v, c) <=> Midway(w, c)
  <2>1. ASSUME NEW k \in 1..(l + 1), v[k].part = "tail" PROVE k \in 1..l
    BY <1>1, <2>1
  <2>2. \A k \in 1..l : v[k] = w[k] /\ (k > 1 => v[k - 1] = w[k - 1])
    BY <1>1
  <2>3. Midway(v, c) => Midway(w, c)
    <3> SUFFICES ASSUME NEW k \in DOMAIN v, v[k].conn = c, v[k].part = "tail",
                        k > 1 => v[k - 1].conn # c
                 PROVE  Midway(w, c)
      BY DEF Midway
    <3>1. k \in 1..l
      BY <1>1, <2>1
    <3>2. k \in DOMAIN w
      BY <1>1, <3>1
    <3> QED BY <2>2, <3>1, <3>2 DEF Midway
  <2>4. Midway(w, c) => Midway(v, c)
    <3> SUFFICES ASSUME NEW k \in 1..l, w[k].conn = c, w[k].part = "tail",
                        k > 1 => w[k - 1].conn # c
                 PROVE  Midway(v, c)
      BY <1>1 DEF Midway
    <3>1. k \in DOMAIN v
      BY <1>1
    <3> QED BY <2>2, <3>1 DEF Midway
  <2> QED BY <2>3, <2>4
<1>4. Ends(v, c) = IF n.part = "whole" THEN Ends(w, c) \cup {l + 1}
                                       ELSE Ends(w, c)
  BY <1>1 DEF Ends
<1>5. l + 1 \notin Ends(w, c)
  BY <1>1 DEF Ends
<1>6. /\ IsFiniteSet(Ends(w, c)) /\ Cardinality(Ends(w, c)) \in Nat
  BY EndsFinite
<1>7. Cardinality(Ends(w, c) \cup {l + 1}) = Cardinality(Ends(w, c)) + 1
  BY <1>5, <1>6, FS_AddElement
<1>8. Cardinality(Ends(v, c))
      = Cardinality(Ends(w, c)) + IF n.part = "whole" THEN 1 ELSE 0
  BY <1>4, <1>6, <1>7
<1> QED BY <1>2, <1>3, <1>8 DEF v

\* Two more reports, of one message, for connection c.
LEMMA PairFramed ==
    ASSUME NEW w \in Seq(Reports), NEW c, NEW h \in Reports, NEW t \in Reports,
           Framed(w, c), h.conn = c, t.conn = c,
           h.part = "head", t.part = "tail"
    PROVE  /\ Framed(w \o <<h, t>>, c)
           /\ Midway(w \o <<h, t>>, c) <=> Midway(w, c)
           /\ Cardinality(Ends(w \o <<h, t>>, c)) = Cardinality(Ends(w, c)) + 1
<1> DEFINE v == w \o <<h, t>>
           l == Len(w)
<1>1. /\ v \in Seq(Reports) /\ l \in Nat /\ Len(v) = l + 2
      /\ v[l + 1] = h /\ v[l + 2] = t
      /\ DOMAIN w = 1..l /\ DOMAIN v = 1..(l + 2) /\ \A i \in 1..l : v[i] = w[i]
  OBVIOUS
<1> HIDE DEF v, l
<1>2. Framed(v, c)
  <2>1. ASSUME NEW k \in 1..(l + 2), v[k].conn = c, NEW j \in 1..(l + 2), k < j
        PROVE  v[j].conn = c
    <3>1. CASE j \in 1..l
      <4>1. k \in 1..l /\ w[k].conn = c
        BY <1>1, <2>1, <3>1
      <4>2. w[j].conn = c
        BY <1>1, <2>1, <3>1, <4>1 DEF Framed
      <4> QED BY <1>1, <3>1, <4>2
    <3>2. CASE j \in {l + 1, l + 2}
      BY <1>1, <3>2
    <3> QED BY <1>1, <3>1, <3>2
  <2>2. ASSUME NEW k \in 1..(l + 2), v[k].conn = c, v[k].part = "head"
        PROVE  k < l + 2 /\ v[k + 1].part = "tail"
    <3>1. CASE k = l + 1
      BY <1>1, <3>1
    <3>2. CASE k # l + 1
      <4>1. k \in 1..l /\ w[k].conn = c /\ w[k].part = "head"
        BY <1>1, <2>2, <3>2
      <4>2. k < l /\ w[k + 1].part = "tail"
        BY <1>1, <4>1 DEF Framed, l
      <4> QED BY <1>1, <4>1, <4>2
    <3> QED BY <3>1, <3>2
  <2>3. ASSUME NEW k \in 1..(l + 2), v[k].conn = c, k < l + 2,
               v[k + 1].part = "tail"
        PROVE  v[k].part = "head"
    <3>1. CASE k = l + 1
      BY <1>1, <3>1
    <3>2. CASE k # l + 1
      <4>1. k \in 1..l /\ k < l /\ w[k].conn = c /\ w[k + 1].part = "tail"
        BY <1>1, <2>3, <3>2
      <4> QED BY <1>1, <4>1 DEF Framed, l
    <3> QED BY <3>1, <3>2
  <2> QED BY <1>1, <2>1, <2>2, <2>3 DEF Framed
<1>3. Midway(v, c) <=> Midway(w, c)
  <2>1. ASSUME NEW k \in 1..(l + 2), v[k].part = "tail",
               k > 1 => v[k - 1].conn # c
        PROVE  k \in 1..l
    BY <1>1, <2>1
  <2>2. \A k \in 1..l : v[k] = w[k] /\ (k > 1 => v[k - 1] = w[k - 1])
    BY <1>1
  <2>3. Midway(v, c) => Midway(w, c)
    <3> SUFFICES ASSUME NEW k \in DOMAIN v, v[k].conn = c, v[k].part = "tail",
                        k > 1 => v[k - 1].conn # c
                 PROVE  Midway(w, c)
      BY DEF Midway
    <3>1. k \in 1..l
      BY <1>1, <2>1
    <3>2. k \in DOMAIN w
      BY <1>1, <3>1
    <3> QED BY <2>2, <3>1, <3>2 DEF Midway
  <2>4. Midway(w, c) => Midway(v, c)
    <3> SUFFICES ASSUME NEW k \in 1..l, w[k].conn = c, w[k].part = "tail",
                        k > 1 => w[k - 1].conn # c
                 PROVE  Midway(v, c)
      BY <1>1 DEF Midway
    <3>1. k \in DOMAIN v
      BY <1>1
    <3> QED BY <2>2, <3>1 DEF Midway
  <2> QED BY <2>3, <2>4
<1>4. Ends(v, c) = Ends(w, c) \cup {l + 2}
  BY <1>1 DEF Ends
<1>5. l + 2 \notin Ends(w, c)
  BY <1>1 DEF Ends
<1>6. Cardinality(Ends(v, c)) = Cardinality(Ends(w, c)) + 1
  <2>1. IsFiniteSet(Ends(w, c))
    BY EndsFinite
  <2> QED BY <1>4, <1>5, <2>1, FS_AddElement
<1> QED BY <1>2, <1>3, <1>6 DEF v

(* ------------------ what is on the wire: its accounting ----------------- *)

\* The decoder holds the head of the message whose tail comes next, or nothing.
InStep == buf = IF Midway(wire, registered) THEN 1 ELSE 0

\* Every message that was not decoded is still on the wire, or it was lost with
\* one of its reports, or spoilt by what a loss left in the decoder; and when
\* the decoder is out of step, one loss has not yet spoilt a message.
CountInv ==
    /\ undecoded \in Nat /\ lost \in Nat
    /\ registered # 0 =>
        /\ Framed(wire, registered)
        /\ Cardinality(Ends(wire, registered)) <= undecoded
        /\ undecoded <= Cardinality(Ends(wire, registered)) + 2 * lost
        /\ ~InStep
           => undecoded < Cardinality(Ends(wire, registered)) + 2 * lost

\* A loss costs a message, and the decoder its step.
LEMMA LossCounts ==
    ASSUME CountInv, wire \in Seq(Reports), wire # <<>>, wire' = Tail(wire),
           UNCHANGED <<registered, undecoded>>, lost' = lost + 1
    PROVE  CountInv'
<1> DEFINE e == Cardinality(Ends(wire, registered))
           f == Cardinality(Ends(Tail(wire), registered))
<1>1. undecoded' \in Nat /\ lost' \in Nat
  BY DEF CountInv
<1>2. ASSUME registered # 0
      PROVE  /\ Framed(Tail(wire), registered)
             /\ f <= undecoded
             /\ undecoded <= f + 2 * lost'
             /\ undecoded < f + 2 * lost'
  <2>1. Framed(Tail(wire), registered)
    BY <1>2, TailFramed DEF CountInv
  <2>2. e \in Nat /\ (f = e \/ f = e - 1)
    BY EndsFinite, TailEnds
  <2>3. /\ undecoded \in Nat /\ lost \in Nat
        /\ e <= undecoded /\ undecoded <= e + 2 * lost
    BY <1>2 DEF CountInv
  <2> HIDE DEF e, f
  <2> QED BY <2>1, <2>2, <2>3
<1> QED BY <1>1, <1>2 DEF CountInv

\* A report of another connection, or a removal, costs nothing.
LEMMA PassedCounts ==
    ASSUME CountInv, wire \in Seq(Reports), wire # <<>>, wire' = Tail(wire),
           UNCHANGED <<registered, buf, undecoded, lost>>,
           wire[1].conn # registered \/ wire[1].part = "removal"
    PROVE  CountInv'
<1>1. ASSUME registered # 0
      PROVE  /\ Framed(Tail(wire), registered)
             /\ Midway(Tail(wire), registered) <=> Midway(wire, registered)
             /\ Cardinality(Ends(Tail(wire), registered))
                = Cardinality(Ends(wire, registered))
  <2>1. 1 \notin Ends(wire, registered)
    BY DEF Ends
  <2>2. Framed(wire, registered)
    BY <1>1 DEF CountInv
  <2>3. /\ Framed(Tail(wire), registered)
        /\ Midway(Tail(wire), registered) <=> Midway(wire, registered)
    BY <2>2, TailFramed
  <2> QED BY <2>1, <2>3, TailEnds
<1> QED BY <1>1 DEF CountInv, InStep

\* The decoder reads a message if it is in step; if it is not, it spoils one and
\* is in step again, or it stays out of step.
LEMMA FeedCounts ==
    ASSUME CountInv, wire \in Seq(Reports), wire # <<>>, wire' = Tail(wire),
           UNCHANGED <<registered, lost>>, registered # 0, buf \in 0..MaxBuffer,
           wire[1].conn = registered, wire[1].part # "removal", Feed(wire[1])
    PROVE  CountInv'
<1> DEFINE c == registered
           e == Cardinality(Ends(wire, c))
           f == Cardinality(Ends(Tail(wire), c))
           n == wire[1]
<1>0. 1 \in DOMAIN wire /\ Tail(wire) \in Seq(Reports)
  BY HeadTailProperties
<1>1. /\ n \in Reports /\ n.part \in {"whole", "head", "tail"}
      /\ 1 \in Ends(wire, c) <=> n.part \in {"whole", "tail"}
  <2>1. n \in Reports
    BY <1>0
  <2>2. n.part \in {"whole", "head", "tail"}
    BY <2>1 DEF Reports
  <2>3. 1 \in Ends(wire, c) <=> n.part \in {"whole", "tail"}
    BY <1>0 DEF Ends
  <2> QED BY <2>1, <2>2, <2>3
<1>2. /\ Framed(Tail(wire), c)
      /\ Midway(wire, c) <=> n.part = "tail"
      /\ Midway(Tail(wire), c) <=> n.part = "head"
  BY TailFramed DEF CountInv
<1>3. /\ e \in Nat /\ f \in Nat
      /\ n.part \in {"whole", "tail"} => f = e - 1
      /\ n.part = "head" => f = e
  BY <1>0, <1>1, EndsFinite, TailEnds
<1>4. /\ undecoded \in Nat /\ lost \in Nat
      /\ e <= undecoded /\ undecoded <= e + 2 * lost
      /\ buf # (IF n.part = "tail" THEN 1 ELSE 0) => undecoded < e + 2 * lost
  BY <1>2 DEF CountInv, InStep
<1>5. MaxBuffer \in Nat /\ MaxBuffer >= 1 /\ buf \in Nat
  BY BoundsAssumption
<1> SUFFICES /\ undecoded' \in Nat
             /\ f <= undecoded' /\ undecoded' <= f + 2 * lost
             /\ buf' # (IF n.part = "head" THEN 1 ELSE 0)
                => undecoded' < f + 2 * lost
  BY <1>2, <1>4 DEF CountInv, InStep
<1> HIDE DEF e, f
<1>6. CASE n.part = "whole"
  BY <1>3, <1>4, <1>5, <1>6 DEF Feed
<1>7. CASE n.part = "head"
  BY <1>3, <1>4, <1>5, <1>7 DEF Feed
<1>8. CASE n.part = "tail"
  BY <1>3, <1>4, <1>5, <1>8 DEF Feed
<1> QED BY <1>1, <1>6, <1>7, <1>8

\* A message more on the wire is a message more to decode.
LEMMA EmitCounts ==
    ASSUME CountInv, wire \in Seq(Reports), UNCHANGED <<registered, buf, lost>>,
           undecoded' = undecoded + 1,
           registered # 0
           => /\ Framed(wire', registered)
              /\ Midway(wire', registered) <=> Midway(wire, registered)
              /\ Cardinality(Ends(wire', registered))
                 = Cardinality(Ends(wire, registered)) + 1
    PROVE  CountInv'
<1> DEFINE e == Cardinality(Ends(wire, registered))
           f == Cardinality(Ends(wire', registered))
<1>1. undecoded' \in Nat /\ lost' \in Nat
  BY DEF CountInv
<1>2. ASSUME registered # 0
      PROVE  /\ f <= undecoded' /\ undecoded' <= f + 2 * lost'
             /\ ~InStep' => undecoded' < f + 2 * lost'
  <2>1. /\ undecoded \in Nat /\ lost \in Nat
        /\ e <= undecoded /\ undecoded <= e + 2 * lost
        /\ ~InStep => undecoded < e + 2 * lost
    BY <1>2 DEF CountInv
  <2>2. InStep' <=> InStep
    BY <1>2 DEF InStep
  <2>3. e \in Nat /\ f = e + 1
    BY <1>2, EndsFinite
  <2> HIDE DEF e, f
  <2> QED BY <2>1, <2>2, <2>3
<1> QED BY <1>1, <1>2 DEF CountInv

\* A removal is no message.
LEMMA RemovalCounts ==
    ASSUME CountInv, wire \in Seq(Reports),
           wire' = Append(wire, Removal(registered)),
           UNCHANGED <<registered, buf, undecoded, lost>>, registered \in Nat
    PROVE  CountInv'
<1>1. /\ Removal(registered) \in Reports
      /\ Removal(registered).conn = registered
      /\ Removal(registered).part = "removal"
  BY DEF Removal, Reports, NoMessage, Messages
<1>2. ASSUME registered # 0
      PROVE  /\ Framed(wire', registered)
             /\ Midway(wire', registered) <=> Midway(wire, registered)
             /\ Cardinality(Ends(wire', registered))
                = Cardinality(Ends(wire, registered))
  <2>1. Framed(wire, registered)
    BY <1>2 DEF CountInv
  <2>2. /\ Framed(wire', registered)
        /\ Midway(wire', registered) <=> Midway(wire, registered)
        /\ Cardinality(Ends(wire', registered))
           = Cardinality(Ends(wire, registered)) + 0
    BY <1>1, <2>1, AppendFramed
  <2>3. Cardinality(Ends(wire, registered)) \in Nat
    BY EndsFinite
  <2> QED BY <2>2, <2>3
<1> QED BY <1>2 DEF CountInv, InStep

\* A turn of the run loop keeps the account.
LEMMA DeliverCounts ==
    ASSUME CountInv, wire \in Seq(Reports), EpochTypes, CountTypes,
           registered # 0, Deliver
    PROVE  CountInv'
<1> DEFINE n == Head(wire)
<1>1. /\ wire # <<>> /\ wire' = Tail(wire) /\ registered' = registered
      /\ n = wire[1] /\ registered = epoch
  BY DEF Deliver, EpochTypes
<1>2. CASE ~Current(n)
  BY <1>1, <1>2, PassedCounts DEF Deliver, Current, inbox
<1>3. CASE Current(n) /\ n.part = "removal"
  BY <1>1, <1>3, PassedCounts DEF Deliver, inbox
<1>4. CASE Current(n) /\ n.part # "removal" /\ Feed(n) /\ UNCHANGED lost
  BY <1>1, <1>4, FeedCounts DEF Current, CountTypes
<1>5. CASE Fault /\ UNCHANGED undecoded
  BY <1>1, <1>5, LossCounts DEF Fault
<1> QED BY <1>2, <1>3, <1>4, <1>5 DEF Deliver

\* Every step keeps the account.
LEMMA CountStep ==
    Known /\ CountInv /\ wire \in Seq(OnWire) /\ [Next]_vars => CountInv'
<1> SUFFICES ASSUME Known, CountInv, wire \in Seq(OnWire), [Next]_vars
             PROVE  CountInv'
  OBVIOUS
<1> USE DEF world, status, conn, inbox, control, trace, Goes
<1>0. wire \in Seq(Reports) /\ registered \in Nat
  <2>1. OnWire \subseteq Reports
    BY DEF OnWire
  <2>2. registered \in Nat
    BY BoundsAssumption DEF Known, EpochTypes
  <2> QED BY <2>1, <2>2, QueueOfMore
<1>a. ASSUME UNCHANGED <<wire, registered, buf, undecoded, lost>>
      PROVE  CountInv'
  BY <1>a DEF CountInv, InStep
<1>b. ASSUME registered' = 0, UNCHANGED <<undecoded, lost>>
      PROVE  CountInv'
  BY <1>b DEF CountInv
<1>c. ASSUME NEW id \in Nat, NEW l \in {0} \cup Layers, Listening,
             Replies(id, l), UNCHANGED <<registered, buf, lost>>
      PROVE  CountInv'
  <2> DEFINE m == Message("reply", id, l)
  <2>1. /\ wire' = wire \o <<Report("head", m), Report("tail", m)>>
        /\ undecoded' = undecoded + 1 /\ registered # 0
    BY <1>c DEF Replies, Emits, Listening
  <2>2. m \in Messages
    BY <1>0 DEF Message, Messages
  <2>3. /\ Report("head", m) \in Reports /\ Report("tail", m) \in Reports
        /\ Report("head", m).conn = registered
        /\ Report("tail", m).conn = registered
        /\ Report("head", m).part = "head" /\ Report("tail", m).part = "tail"
    BY <1>0, <2>2 DEF Report, Reports
  <2>4. Framed(wire, registered)
    BY <2>1 DEF CountInv
  <2> HIDE DEF m
  <2>5. /\ Framed(wire', registered)
        /\ Midway(wire', registered) <=> Midway(wire, registered)
        /\ Cardinality(Ends(wire', registered))
           = Cardinality(Ends(wire, registered)) + 1
    BY <1>0, <2>1, <2>3, <2>4, PairFramed
  <2> QED BY <1>0, <1>c, <2>1, <2>5, EmitCounts
<1>1. CASE Press
  <2> DEFINE n == Report("whole", Message("input", 0, 0))
  <2>1. /\ wire' = wire \o <<n>> /\ undecoded' = undecoded + 1
        /\ UNCHANGED <<registered, buf, lost>> /\ registered # 0
    BY <1>1 DEF Press, Emits, Listening
  <2>2. n \in Reports /\ n.conn = registered /\ n.part = "whole"
    BY <1>0 DEF Report, Reports, Message, Messages
  <2>3. Framed(wire, registered)
    BY <2>1 DEF CountInv
  <2> HIDE DEF n
  <2>4. wire' = Append(wire, n)
    BY <1>0, <2>1, <2>2
  <2>5. /\ Framed(wire', registered)
        /\ Midway(wire', registered) <=> Midway(wire, registered)
        /\ Cardinality(Ends(wire', registered))
           = Cardinality(Ends(wire, registered)) + 1
    BY <1>0, <2>2, <2>3, <2>4, AppendFramed
  <2> QED BY <1>0, <2>1, <2>5, EmitCounts
<1>2. CASE Answer
  <2>1. /\ Listening /\ UNCHANGED <<registered, buf, lost>>
        /\ \E id \in asks : Replies(id, layer) \/ Replies(id, 0)
    BY <1>2 DEF Answer
  <2>2. asks \subseteq Nat /\ layer \in Layers
    BY DEF Known, CountTypes, WorldTypes
  <2> QED BY <1>c, <2>1, <2>2
<1>3. CASE AnswersVendor
  <2>1. /\ Listening /\ UNCHANGED <<registered, buf, lost>> /\ Replies(0, layer)
        /\ layer \in Layers
    BY <1>3 DEF AnswersVendor, Known, WorldTypes
  <2> QED BY <1>c, <2>1
<1>4. CASE Unplug
  <2>1. UNCHANGED <<registered, buf, undecoded, lost>>
    BY <1>4 DEF Unplug
  <2>2. wire' \in {wire, Append(wire, Removal(registered))}
    BY <1>4 DEF Unplug
  <2> QED BY <1>0, <1>a, <2>1, <2>2, RemovalCounts
<1>5. CASE SwitchLayer \/ Plug
  BY <1>5, <1>a DEF SwitchLayer, Plug
<1>6. CASE LoseReport
  <2>1. /\ wire # <<>> /\ wire' = Tail(wire) /\ wire[1] = Head(wire)
        /\ UNCHANGED <<registered, buf, undecoded>>
        /\ lost' = IF Head(wire).conn = registered THEN lost + 1 ELSE lost
    BY <1>6 DEF LoseReport
  <2>2. CASE Head(wire).conn = registered
    BY <1>0, <2>1, <2>2, LossCounts
  <2>3. CASE Head(wire).conn # registered
    BY <1>0, <2>1, <2>3, PassedCounts
  <2> QED BY <2>2, <2>3
<1>7. CASE Open \/ Acquire \/ Status \/ SendRequest
  BY <1>7, <1>a DEF Open, Acquire, Status, SendRequest
<1>8. CASE Reconnect
  BY <1>8, <1>b DEF Reconnect, Dispose
<1>9. CASE Register
  <2>1. CASE UNCHANGED <<wire, registered, buf, undecoded, lost>>
    BY <1>a, <2>1
  <2>2. CASE /\ registered' = epochs + 1 /\ buf' = 0
             /\ undecoded' = 0 /\ lost' = 0
             /\ wire' \in {wire, Append(wire, Removal(epochs + 1))}
    <3> DEFINE c == epochs + 1
    <3>1. epochs \in Nat /\ \A k \in DOMAIN wire : wire[k].conn # c
      BY ElementOfSeq, BoundsAssumption DEF OnWire, Known, EpochTypes
    <3>2. /\ Removal(c) \in Reports /\ Removal(c).conn = c
          /\ Removal(c).part = "removal"
      BY <3>1 DEF Removal, Reports, NoMessage, Messages
    <3>3. Framed(wire, c) /\ ~Midway(wire, c) /\ Ends(wire, c) = {}
      BY <3>1 DEF Framed, Midway, Ends
    <3>4. Cardinality(Ends(wire, c)) = 0
      BY <3>3, FS_EmptySet
    <3> HIDE DEF c
    <3>5. /\ Framed(Append(wire, Removal(c)), c)
          /\ ~Midway(Append(wire, Removal(c)), c)
          /\ Cardinality(Ends(Append(wire, Removal(c)), c)) = 0
      <4>1. /\ Framed(Append(wire, Removal(c)), c)
            /\ Midway(Append(wire, Removal(c)), c) <=> Midway(wire, c)
            /\ Cardinality(Ends(Append(wire, Removal(c)), c))
               = Cardinality(Ends(wire, c)) + 0
        BY <1>0, <3>2, <3>3, AppendFramed
      <4> QED BY <3>3, <3>4, <4>1
    <3>6. /\ Framed(wire', c) /\ ~Midway(wire', c)
          /\ Cardinality(Ends(wire', c)) = 0
      BY <2>2, <3>3, <3>4, <3>5 DEF c
    <3> QED BY <2>2, <3>6 DEF CountInv, InStep, c
  <2> QED BY <1>9, <2>1, <2>2 DEF Register, RegisterWith, Registers, RollsBack
<1>10. CASE Abandon
  BY <1>10, <1>a, <1>b DEF Abandon, Dispose
<1>11. CASE TakeReply \/ GiveUp \/ Poll \/ PollReturns
  BY <1>11, <1>a DEF TakeReply, GiveUp, Poll, PollReturns
<1>12. CASE AwaitPump \/ PollPump
  <2>1. connected
    BY <1>12 DEF AwaitPump, PollPump, Pump
  <2>2. registered # 0
    BY <2>1 DEF Known, PhaseInv
  <2>3. Deliver \/ UNCHANGED <<wire, registered, buf, undecoded, lost>>
    BY <1>12 DEF AwaitPump, PollPump, Pump
  <2> QED BY <1>0, <1>a, <2>2, <2>3, DeliverCounts DEF Known
<1>13. CASE FlushPump
  BY <1>0, <1>13, DeliverCounts DEF FlushPump, Known
<1>14. CASE DiscardHidInputs \/ SendFails \/ Close
  BY <1>14, <1>a DEF DiscardHidInputs, SendFails, Close
<1>15. CASE CloseEnds
  BY <1>15, <1>b DEF CloseEnds, Dispose
<1>16. CASE UNCHANGED vars
  BY <1>16, <1>a DEF vars
<1> QED
  BY <1>1, <1>2, <1>3, <1>4, <1>5, <1>6, <1>7, <1>8, <1>9, <1>10, <1>11, <1>12,
     <1>13, <1>14, <1>15, <1>16 DEF Next, Owner, World

(* --------------------------- what is verified --------------------------- *)

\* The verified layer is one of those since the last request.
FreshInv == verified => layerIndex \in since

\* A layer is verified by a reply to the last request, which is honest.
LEMMA FreshStep ==
    Known /\ MailInv /\ FreshInv /\ [Next]_vars => FreshInv'
<1> SUFFICES ASSUME Known, MailInv, FreshInv, [Next]_vars
             PROVE  FreshInv'
  OBVIOUS
<1> USE DEF world, status, conn, inbox, control, trace, Goes
<1>a. ASSUME NotVerified \/ UNCHANGED <<verified, layerIndex>>,
             since \subseteq since'
      PROVE  FreshInv'
  <2>1. CASE NotVerified
    BY <2>1 DEF FreshInv, NotVerified
  <2>2. CASE UNCHANGED <<verified, layerIndex>>
    BY <1>a, <2>2 DEF FreshInv
  <2> QED BY <1>a, <2>1, <2>2
<1>1. CASE World
  BY <1>1, <1>a DEF World, Press, Answer, AnswersVendor, LoseReport,
                    SwitchLayer, Unplug, Plug
<1>2. CASE Open \/ Reconnect \/ Acquire
  BY <1>2, <1>a DEF Open, Reconnect, Dispose, Acquire
<1>3. CASE Status
  BY <1>3, <1>a DEF Status
<1>4. CASE SendRequest
  <2>1. pc = "send" /\ ~verified
    BY <1>4 DEF SendRequest, Known, PhaseInv
  <2>2. NotVerified \/ UNCHANGED <<verified, layerIndex>>
    BY <1>4 DEF SendRequest
  <2>3. ~verified'
    BY <2>1, <2>2 DEF NotVerified
  <2> QED BY <2>3 DEF FreshInv
<1>5. CASE Register \/ Abandon
  BY <1>5, <1>a DEF Register, RegisterWith, Abandon, Dispose
<1>6. ASSUME NEW at, NEW raised, Pump(at, raised)
      PROVE  FreshInv'
  BY <1>6, <1>a DEF Pump, Deliver, Broken, Fault
<1>7. CASE FlushPump
  BY <1>7, <1>a DEF FlushPump, Deliver, Broken, Fault
<1>8. CASE TakeReply
  <2> DEFINE m == messages[Found]
  <2>1. CASE Usable(m)
    <3>1. Found \in 1..Len(messages) /\ Matches(m) /\ m \in InBox
      BY <1>8, FoundMatches, ElementOfSeq DEF TakeReply, MailInv
    <3>2. requests # 0
      BY <1>8 DEF TakeReply, Known, PhaseInv
    <3>3. m.layer \in since
      BY <2>1, <3>1, <3>2 DEF InBox, Honest, Matches, Usable, Layers
    <3>4. layerIndex' = m.layer /\ since' = since
      BY <1>8, <2>1 DEF TakeReply
    <3> QED BY <3>3, <3>4 DEF FreshInv
  <2>2. CASE ~Usable(m)
    BY <1>8, <1>a, <2>2 DEF TakeReply
  <2> QED BY <2>1, <2>2
<1>9. CASE GiveUp \/ Poll \/ PollReturns
  BY <1>9, <1>a DEF GiveUp, Poll, PollReturns
<1>10. CASE DiscardHidInputs \/ SendFails \/ Close
  BY <1>10, <1>a DEF DiscardHidInputs, SendFails, Close
<1>11. CASE CloseEnds
  BY <1>11, <1>a DEF CloseEnds, Dispose
<1>12. CASE UNCHANGED vars
  BY <1>12, <1>a DEF vars
<1> QED
  BY <1>1, <1>2, <1>3, <1>4, <1>5, <1>6, <1>7, <1>8, <1>9, <1>10, <1>11, <1>12
     DEF Next, Owner, AwaitPump, PollPump

(* ---------------------------- what breaks it ---------------------------- *)

\* What takes the connection away is a disposal, a failure or its own removal.
LEMMA BreaksFor ==
    ASSUME Known, wire \in Seq(OnWire), [Next]_vars,
           connected, ~connected', device' # "none"
    PROVE  device = "gone" \/ events' # events
<1> USE DEF world, status, conn, inbox, control, trace, Goes
<1>0. /\ registered # 0 /\ registered = epoch
      /\ Event => events' # events
  <2>1. registered # 0 /\ registered = epoch
    BY DEF Known, PhaseInv, EpochTypes
  <2>2. Event => events' # events
    BY BoundsAssumption DEF Event, Known, CountTypes
  <2> QED BY <2>1, <2>2
<1>a. CASE Deliver
  <2>1. wire # <<>> /\ Head(wire) \in OnWire
    BY <1>a, HeadTailProperties DEF Deliver
  <2>2. CASE Current(Head(wire)) /\ Head(wire).part = "removal"
    BY <1>0, <2>1, <2>2 DEF OnWire, Current
  <2>3. CASE Fault
    BY <1>0, <2>3 DEF Fault
  <2> QED BY <1>a, <2>2, <2>3 DEF Deliver
<1>1. CASE World
  BY <1>1 DEF World, Press, Answer, AnswersVendor, LoseReport, SwitchLayer,
              Unplug, Plug
<1>2. CASE Open \/ Reconnect \/ Acquire \/ Status \/ SendRequest
  BY <1>2 DEF Open, Reconnect, Dispose, Acquire, Status, SendRequest
<1>3. CASE Register
  BY <1>0, <1>3 DEF Register, RegisterWith, RollsBack
<1>4. CASE Abandon
  BY <1>4 DEF Abandon, Dispose
<1>5. CASE AwaitPump \/ PollPump \/ FlushPump
  BY <1>0, <1>5, <1>a DEF AwaitPump, PollPump, FlushPump, Pump
<1>6. CASE TakeReply \/ GiveUp \/ Poll \/ PollReturns
  BY <1>6 DEF TakeReply, GiveUp, Poll, PollReturns
<1>7. CASE DiscardHidInputs \/ SendFails \/ Close
  BY <1>7 DEF DiscardHidInputs, SendFails, Close
<1>8. CASE CloseEnds
  BY <1>8 DEF CloseEnds, Dispose
<1>9. CASE UNCHANGED vars
  BY <1>9 DEF vars
<1> QED
  BY <1>1, <1>2, <1>3, <1>4, <1>5, <1>6, <1>7, <1>8, <1>9 DEF Next, Owner

(* ------------------------------ theorems -------------------------------- *)

\* The inductive invariant: types and phases, who holds the device, the mail,
\* what is verified and the account of messages.
IInv ==
    /\ Known /\ StatusTypes /\ CallTypes /\ HeldInv
    /\ MailInv /\ FreshInv /\ CountInv

\* It holds throughout.
THEOREM Inductive == Spec => []IInv
<1>1. Init => IInv
  <2> SUFFICES ASSUME Init PROVE IInv
    OBVIOUS
  <2>1. Known
    BY BoundsAssumption DEF Init, Known, CountTypes, EpochTypes, WorldTypes,
       PhaseInv, AskedInv
  <2>2. StatusTypes /\ CallTypes /\ HeldInv /\ FreshInv
    BY DEF Init, StatusTypes, CallTypes, HeldInv, FreshInv
  <2>3. MailInv /\ CountInv
    BY DEF Init, MailInv, CountInv
  <2> QED BY <2>1, <2>2, <2>3 DEF IInv
<1>2. IInv /\ [Next]_vars => IInv'
  <2> SUFFICES ASSUME IInv, [Next]_vars PROVE IInv'
    OBVIOUS
  <2>1. Known'
    BY CountTypesStep, EpochTypesStep, WorldTypesStep, PhaseStep, AskedStep
       DEF IInv, Known
  <2>2. StatusTypes' /\ CallTypes' /\ HeldInv'
    BY StatusTypesStep, CallTypesStep, HeldStep DEF IInv
  <2>3. MailInv'
    BY WireSteps, InBoxSteps DEF IInv, MailInv
  <2>4. FreshInv' /\ CountInv'
    BY FreshStep, CountStep DEF IInv, MailInv
  <2> QED BY <2>1, <2>2, <2>3, <2>4 DEF IInv
<1> QED BY <1>1, <1>2, PTL DEF Spec

\* Every variable keeps its type, the account of undecoded messages included,
\* which is never overdrawn.
THEOREM TypeCorrect == Spec => []TypeOK
<1>1. IInv => TypeOK
  <2> SUFFICES ASSUME IInv PROVE TypeOK
    OBVIOUS
  <2>1. /\ plugged \in BOOLEAN /\ layer \in Layers /\ asks \subseteq 1..requests
        /\ device \in {"none", "live", "gone"} /\ since \subseteq Layers
    BY DEF IInv, Known, WorldTypes, CountTypes
  <2>2. wire \in Seq(Reports) /\ messages \in Seq(Messages)
    <3>1. OnWire \subseteq Reports /\ InBox \subseteq Messages
      BY DEF OnWire, InBox
    <3> QED BY <3>1, QueueOfMore DEF IInv, MailInv
  <2>3. handles \in Nat
    BY DEF IInv, HeldInv
  <2>4. /\ registered \in {0, epoch} /\ epoch \in 0..epochs
        /\ epochs \in 0..MaxEpochs
    BY DEF IInv, Known, EpochTypes
  <2>5. /\ connected \in BOOLEAN /\ verified \in BOOLEAN /\ error \in BOOLEAN
        /\ layerIndex \in IF verified THEN Layers ELSE {0}
    BY DEF IInv, StatusTypes
  <2>6. /\ buf \in 0..MaxBuffer
        /\ requests \in 0..MaxRequests /\ events \in 0..MaxEvents
    BY DEF IInv, Known, CountTypes
  <2>7. undecoded \in Nat /\ lost \in Nat
    BY DEF IInv, CountInv
  <2> QED
    BY <2>1, <2>2, <2>3, <2>4, <2>5, <2>6, <2>7 DEF TypeOK, IInv, CallTypes
<1> QED BY <1>1, Inductive, PTL

\* A verified layer is one the device was on after the request was sent
\* (Pad.status), whatever else answers or is removed meanwhile.
THEOREM VerifiesFresh == Spec => []VerifiedLayerIsFresh
<1>1. IInv => VerifiedLayerIsFresh
  BY DEF IInv, FreshInv, VerifiedLayerIsFresh
<1> QED BY <1>1, Inductive, PTL

\* What waits to be polled came in on the present connection (Pad._connect),
\* even if the callbacks of earlier ones survive.
THEOREM KeepsApart == Spec => []NoContamination
<1>1. IInv => NoContamination
  BY ElementOfSeq DEF IInv, MailInv, InBox, NoContamination
<1> QED BY <1>1, Inductive, PTL

\* When all that was sent has been delivered, at most two messages are missing
\* for each report that was lost (FrameDecoder.feed), whatever was lost when.
THEOREM LosesLittle == Spec => []LossIsBounded
<1>1. IInv => LossIsBounded
  <2> SUFFICES ASSUME IInv, Delivered PROVE undecoded <= 2 * lost
    BY DEF LossIsBounded
  <2>1. registered # 0 /\ Ends(wire, registered) = {}
    BY DEF Delivered, Ends
  <2>2. Cardinality(Ends(wire, registered)) = 0
    BY <2>1, FS_EmptySet
  <2>3. /\ undecoded <= Cardinality(Ends(wire, registered)) + 2 * lost
        /\ undecoded \in Nat /\ lost \in Nat
    BY <2>1 DEF IInv, CountInv
  <2> QED BY <2>2, <2>3
<1> QED BY <1>1, Inductive, PTL

\* The removal of a device that an earlier connection had does not break the
\* present one (Pad._on_remove).
THEOREM SurvivesLateRemovals == Spec => LateRemovalIsHarmless
<1>1. IInv /\ [Next]_vars
      => [connected /\ ~connected' /\ device' # "none"
             => device = "gone" \/ events' # events]_vars
  BY BreaksFor DEF IInv, MailInv
<1> QED BY <1>1, Inductive, PTL DEF Spec, LateRemovalIsHarmless

\* The device is released once, and none is held by a pad that was not opened,
\* could not be, or is closed (Pad._dispose_connection).
THEOREM LeaksNothing == Spec => []NothingLeaks
<1>1. IInv => NothingLeaks
  BY DEF IInv, HeldInv, NothingLeaks
<1> QED BY <1>1, Inductive, PTL
=============================================================================
