-------------------------------- MODULE Pad --------------------------------
(***************************************************************************)
(* The vendor channel (src/src/paneglow/pad.py, with the decoder of        *)
(* protocol.py): one HID connection at a time, opened, verified by a       *)
(* device.status round trip, polled, lost, reconnected and closed, by the  *)
(* one thread that owns it.                                                *)
(*                                                                         *)
(* The firmware and the vendor's app run beside it.  What the device sends *)
(* waits on the wire until a pump of the run loop hands it to the callback *)
(* of the registration it is for; it may be lost on the way.  A message is *)
(* one report ("whole") or two ("head" and "tail"): a status reply is two, *)
(* and what matters of it is in the second.                                *)
(***************************************************************************)
EXTENDS Naturals, SequencesExt, Queues

CONSTANTS
    MaxEvents,    \* presses, the vendor's requests, layer switches, unplugs, faults
    MaxRequests,  \* status requests
    MaxEpochs,    \* successful openings
    MaxBuffer     \* unterminated reports the decoder keeps (_MAX_BUFFER)

ASSUME BoundsAssumption ==
    /\ {MaxEvents, MaxRequests, MaxEpochs} \subseteq Nat
    /\ MaxBuffer \in Nat \ {0}

VARIABLES
    plugged, layer,   \* the device
    asks,             \* ids of requests it has still to answer
    wire,             \* reports and removals waiting for a pump
    device,           \* _device: "none", "live", or "gone" if it was unplugged since
    handles,          \* device references acquired and not yet released
    registered,       \* epoch of the callbacks of _registration, or 0
    epoch,            \* self.epoch
    epochs,           \* _epoch_counter
    connected,        \* _connected and not _closed
    verified, layerIndex, error,   \* _status_verified, _layer_index, _callback_error
    buf,              \* unterminated reports in the decoder
    messages,         \* _messages
    pc, op,           \* where the owner thread is, and in which call
    requests,         \* _request_counter
    events,           \* counts against MaxEvents
    since,            \* layers the device has been on since the last request was sent
    undecoded, lost   \* of this registration: messages not decoded yet, reports lost

world   == <<plugged, layer, asks>>
status  == <<connected, verified, layerIndex>>
conn    == <<device, handles, registered, epoch, epochs, error>>
inbox   == <<buf, messages>>
control == <<pc, op, requests>>
trace   == <<since, undecoded, lost>>
vars    == <<world, wire, conn, status, inbox, control, events, trace>>

Layers   == {1, 2}
Messages == [kind : {"input", "reply"}, id : Nat, layer : {0} \cup Layers, conn : Nat]
Reports  == [conn : Nat, part : {"whole", "head", "tail", "removal"}, msg : Messages]
NoMessage == [kind |-> "input", id |-> 0, layer |-> 0, conn |-> 0]

TypeOK ==
    /\ plugged \in BOOLEAN /\ layer \in Layers /\ asks \subseteq 1..requests
    /\ wire \in Seq(Reports)
    /\ device \in {"none", "live", "gone"} /\ handles \in Nat
    /\ registered \in {0, epoch} /\ epoch \in 0..epochs /\ epochs \in 0..MaxEpochs
    /\ connected \in BOOLEAN /\ verified \in BOOLEAN /\ error \in BOOLEAN
    /\ layerIndex \in IF verified THEN Layers ELSE {0}
    /\ buf \in 0..MaxBuffer /\ messages \in Seq(Messages)
    /\ pc \in {"unopened", "idle", "acquire", "register", "send", "await", "poll",
               "flush", "failed", "shut"}
    /\ op \in {"open", "reconnect", "status"}
    /\ requests \in 0..MaxRequests /\ events \in 0..MaxEvents
    /\ since \subseteq Layers /\ undecoded \in Nat /\ lost \in Nat

Init ==
    /\ plugged \in BOOLEAN /\ layer \in Layers /\ asks = {} /\ wire = <<>>
    /\ device = "none" /\ handles = 0 /\ registered = 0 /\ epoch = 0 /\ epochs = 0
    /\ connected = FALSE /\ verified = FALSE /\ layerIndex = 0 /\ error = FALSE
    /\ buf = 0 /\ messages = <<>>
    /\ pc = "unopened" /\ op = "open" /\ requests = 0
    /\ events = 0 /\ since = {} /\ undecoded = 0 /\ lost = 0

Event   == events < MaxEvents /\ events' = events + 1
Goes(next) == pc' = next /\ UNCHANGED <<op, requests>>
NotVerified == verified' = FALSE /\ layerIndex' = 0

-----------------------------------------------------------------------------
(* The device and the vendor's app.                                         *)

Listening == device = "live" /\ registered # 0
Report(part, m) == [conn |-> registered, part |-> part, msg |-> m]
Message(kind, id, l) == [kind |-> kind, id |-> id, layer |-> l, conn |-> registered]
Emits(reports) ==
    /\ wire' = wire \o reports
    /\ undecoded' = undecoded + 1
Replies(id, l) ==
    LET m == Message("reply", id, l)
    IN Emits(<<Report("head", m), Report("tail", m)>>)

Press ==
    /\ Listening /\ Event
    /\ Emits(<<Report("whole", Message("input", 0, 0))>>)
    /\ UNCHANGED <<world, conn, status, inbox, control, since, lost>>

\* The device answers in its own time, perhaps a later connection, and, for one
\* event, without a usable layer.
Answer ==
    /\ Listening
    /\ \E id \in asks :
        /\ asks' = asks \ {id}
        /\ \/ Replies(id, layer) /\ UNCHANGED events
           \/ Replies(id, 0) /\ Event
    /\ UNCHANGED <<plugged, layer, conn, status, inbox, control, since, lost>>

\* Every client of the device hears the answers to the others; ids differ.
AnswersVendor ==
    /\ Listening /\ Event
    /\ Replies(0, layer)
    /\ UNCHANGED <<world, conn, status, inbox, control, since, lost>>

SwitchLayer ==
    /\ plugged /\ Event
    /\ layer' = 3 - layer
    /\ since' = since \cup {layer'}
    /\ UNCHANGED <<plugged, asks, wire, conn, status, inbox, control, undecoded, lost>>

Removal(c) == [conn |-> c, part |-> "removal", msg |-> NoMessage]
Unplug ==
    /\ plugged /\ Event
    /\ plugged' = FALSE /\ asks' = {}
    /\ device' = IF device = "live" THEN "gone" ELSE device
    /\ wire' = IF Listening THEN Append(wire, Removal(registered)) ELSE wire
    /\ UNCHANGED <<layer, handles, registered, epoch, epochs, error, status, inbox,
                   control, trace>>

Plug ==
    /\ ~plugged
    /\ plugged' = TRUE
    /\ UNCHANGED <<layer, asks, wire, conn, status, inbox, control, events, trace>>

LoseReport ==
    /\ wire # <<>> /\ Head(wire).part # "removal" /\ Event
    /\ wire' = Tail(wire)
    /\ lost' = IF Head(wire).conn = registered THEN lost + 1 ELSE lost
    /\ UNCHANGED <<world, conn, status, inbox, control, since, undecoded>>

World == Press \/ Answer \/ AnswersVendor \/ SwitchLayer \/ Unplug \/ Plug \/ LoseReport

-----------------------------------------------------------------------------
(* Opening and disposing of a connection.                                   *)

\* _dispose_connection runs every step and reports the first that failed.
Dispose ==
    /\ device' = "none"
    /\ handles' = IF device = "none" THEN handles ELSE handles - 1
    /\ registered' = 0
    /\ connected' = FALSE /\ NotVerified
    /\ UNCHANGED <<epoch, epochs, error>>
\* Unregistered and unscheduled, its callbacks are never called again; they may
\* survive a step that failed, for good.
Unregistered == Only(wire, LAMBDA n : n.conn # registered)
Cleanly == wire' = Unregistered /\ UNCHANGED events
Badly   == device # "none" /\ wire' \in {Unregistered, wire} /\ Event

Open ==
    /\ pc = "unopened"
    /\ pc' = "acquire" /\ op' = "open"
    /\ UNCHANGED <<world, wire, conn, status, inbox, requests, events, trace>>

\* A cleanup that failed is raised before anything is opened.
Reconnect ==
    /\ pc = "idle" /\ epochs < MaxEpochs
    /\ Dispose
    /\ \/ Cleanly /\ pc' = "acquire"
       \/ Badly /\ pc' = "idle"
    /\ op' = "reconnect"
    /\ UNCHANGED <<world, inbox, requests, trace>>

\* IOHIDDeviceOpen grants the one matching device; or there is none, or it cannot
\* be opened, and the reference to it is given back.
Granted == plugged /\ device' = "live" /\ handles' = handles + 1 /\ UNCHANGED events
Refused ==
    /\ IF plugged THEN Event ELSE UNCHANGED events
    /\ UNCHANGED <<device, handles>>

\* _connect up to the registration.
Acquire ==
    /\ pc = "acquire"
    /\ \/ Granted /\ epochs < MaxEpochs /\ Goes("register")
       \/ Refused /\ Goes(IF op = "open" THEN "unopened" ELSE "idle")
    /\ UNCHANGED <<world, wire, registered, epoch, epochs, error, status, inbox, trace>>

\* The run loop now calls this connection, to say first that its device is gone.
Registers(c) ==
    /\ registered' = c
    /\ wire' = IF device = "gone" THEN Append(wire, Removal(c)) ELSE wire
    /\ UNCHANGED events
\* An exception on the way rolls back what was done of it.
RollsBack == Event /\ UNCHANGED <<registered, wire>>

\* _connect from there on.  An unknown transport or a failed registration is
\* raised.
RegisterWith(buffer, queue) ==
    /\ pc = "register"
    /\ \/ /\ epochs' = epochs + 1 /\ epoch' = epochs'
          /\ Registers(epochs')
          /\ connected' = TRUE /\ NotVerified /\ error' = FALSE
          /\ buf' = buffer /\ messages' = queue
          /\ undecoded' = 0 /\ lost' = 0
          /\ Goes(IF op = "open" THEN "idle" ELSE "send")
       \/ /\ RollsBack
          /\ epochs' \in {epochs, epochs + 1}
          /\ connected' = FALSE /\ NotVerified
          /\ Goes("failed")
          /\ UNCHANGED <<epoch, error, inbox, undecoded, lost>>
    /\ UNCHANGED <<world, device, handles, since>>
\* Mutants: the decoder, or the messages, of the old connection stay.
RegisterKeepingDecoder  == RegisterWith(buf, <<>>)
RegisterKeepingMessages == RegisterWith(0, messages)

\* A new connection has a new decoder and no messages.
Register == RegisterWith(0, <<>>)

\* open and reconnect dispose of what they could not verify; status leaves that
\* to its caller.  Mutant: a failed open forgets the device.
AbandonNothing ==
    /\ pc = "failed"
    /\ Goes(IF op = "open" THEN "unopened" ELSE "idle")
    /\ UNCHANGED <<world, wire, conn, status, inbox, events, trace>>

Abandon ==
    /\ pc = "failed"
    /\ IF op = "status" THEN UNCHANGED <<wire, conn, status, events>>
                        ELSE Dispose /\ (Cleanly \/ Badly)
    /\ Goes(IF op = "open" THEN "unopened" ELSE "idle")
    /\ UNCHANGED <<world, inbox, trace>>

-----------------------------------------------------------------------------
(* The callbacks, in a pump of the run loop.                                *)

\* Mutant: a callback of an old registration counts.
AnyConnection(n) == TRUE

\* Callbacks close over the epoch of their connection.
Current(n) == n.conn = epoch

\* FrameDecoder.feed: a report that ends a line takes the reports before it
\* along, and the line is read if it is just one message.
Feed(n) ==
    LET ends  == n.part \in {"whole", "tail"}
        reads == (n.part = "whole" /\ buf = 0) \/ (n.part = "tail" /\ buf = 1)
    IN /\ buf' = IF ends \/ buf = MaxBuffer THEN 0 ELSE buf + 1
       /\ messages' = IF reads THEN Append(messages, n.msg) ELSE messages
       /\ undecoded' = IF reads THEN undecoded - 1 ELSE undecoded

Broken == connected' = FALSE /\ NotVerified

\* input_callback is told of an error, or of a report it cannot read.
Fault ==
    /\ Event
    /\ Broken /\ error' = TRUE
    /\ lost' = lost + 1

\* _on_report and _on_remove, then _drain_reports.
Deliver ==
    /\ wire # <<>> /\ wire' = Tail(wire)
    /\ LET n == Head(wire) IN
       \/ /\ ~Current(n)
          /\ UNCHANGED <<status, error, inbox, undecoded, lost, events>>
       \/ /\ Current(n) /\ n.part = "removal"
          /\ Broken
          /\ UNCHANGED <<error, inbox, undecoded, lost, events>>
       \/ /\ Current(n) /\ n.part # "removal"
          /\ Feed(n)
          /\ UNCHANGED <<status, error, lost, events>>
       \/ /\ Current(n) /\ n.part # "removal"
          /\ Fault
          /\ UNCHANGED <<inbox, undecoded>>
    /\ UNCHANGED <<device, handles, registered, epoch, epochs>>

\* _pump_for, one turn: a callback's error is raised at once; a run loop that
\* fails breaks the connection.
Pump(at, raised) ==
    /\ pc = at /\ connected
    /\ \/ /\ Deliver
          /\ Goes(IF error' THEN raised ELSE at)
       \/ /\ Event
          /\ Broken
          /\ Goes(raised)
          /\ UNCHANGED <<wire, conn, inbox, undecoded, lost>>
    /\ UNCHANGED <<world, since>>

-----------------------------------------------------------------------------
(* The calls.                                                               *)

Status ==
    /\ pc = "idle"
    /\ NotVerified
    /\ pc' = IF connected THEN "send" ELSE "idle"
    /\ op' = "status"
    /\ UNCHANGED <<world, wire, conn, connected, inbox, requests, events, trace>>

\* request: a write fails, or is accepted, which proves nothing.
SendRequest ==
    /\ pc = "send" /\ requests < MaxRequests
    /\ requests' = requests + 1
    /\ \/ /\ device = "live"
          /\ since' = {layer}
          /\ \/ asks' = asks \cup {requests'} /\ UNCHANGED events
             \/ UNCHANGED asks /\ Event
          /\ pc' = "await"
          /\ UNCHANGED <<verified, layerIndex>>
       \/ /\ IF device = "live" THEN Event ELSE UNCHANGED events
          /\ NotVerified
          /\ pc' = "failed"
          /\ UNCHANGED <<asks, since>>
    /\ UNCHANGED <<plugged, layer, wire, conn, connected, inbox, op, undecoded, lost>>

AwaitPump == Pump("await", "failed")

\* Mutants: any status reply will do; so will one without a layer.
MatchesMethod(m) == m.kind = "reply"
AnyLayer(m) == TRUE

Matches(m) == m.kind = "reply" /\ m.id = requests
Usable(m) == m.layer \in Layers
Found == SelectInSeq(messages, Matches)

\* _take_reply, after any number of turns, and what status makes of it.
TakeReply ==
    /\ pc = "await" /\ Found # 0
    /\ messages' = RemoveAt(messages, Found)
    /\ IF Usable(messages[Found])
         THEN /\ verified' = TRUE /\ layerIndex' = messages[Found].layer
              /\ Goes("idle")
         ELSE Goes("failed") /\ UNCHANGED <<verified, layerIndex>>
    /\ UNCHANGED <<world, wire, conn, connected, buf, events, trace>>

\* Time is up, or the connection is broken.
GiveUp ==
    /\ pc = "await" /\ Found = 0
    /\ Goes("failed")
    /\ UNCHANGED <<world, wire, conn, status, inbox, events, trace>>

Poll ==
    /\ pc = "idle" /\ ~error
    /\ Goes("poll")
    /\ UNCHANGED <<world, wire, conn, status, inbox, events, trace>>

PollPump == Pump("poll", "idle")

PollReturns ==
    /\ pc = "poll"
    /\ messages' = <<>>
    /\ Goes("idle")
    /\ UNCHANGED <<world, wire, conn, status, buf, events, trace>>

DiscardHidInputs ==
    /\ pc = "idle"
    /\ messages' = Only(messages, LAMBDA m : m.kind # "input")
    /\ UNCHANGED <<world, wire, conn, status, buf, control, events, trace>>

\* send, for a painting: only its failure changes anything.
SendFails ==
    /\ pc = "idle" /\ connected
    /\ IF device = "live" THEN Event ELSE UNCHANGED events
    /\ NotVerified
    /\ UNCHANGED <<world, wire, conn, connected, inbox, control, trace>>

\* close: the zones' writes, each of which may fail, a flush that raises
\* nothing, and the disposal whatever happened.
Close ==
    /\ pc = "idle" /\ device # "none"
    /\ Goes("flush")
    /\ \/ UNCHANGED <<verified, layerIndex, events>>
       \/ /\ connected /\ NotVerified
          /\ IF device = "live" THEN Event ELSE UNCHANGED events
    /\ UNCHANGED <<world, wire, conn, connected, inbox, trace>>

FlushPump ==
    /\ pc = "flush" /\ registered # 0
    /\ Deliver
    /\ UNCHANGED <<world, control, since>>

CloseEnds ==
    /\ pc = "flush"
    /\ Dispose /\ (Cleanly \/ Badly)
    /\ Goes("shut")
    /\ UNCHANGED <<world, inbox, trace>>

-----------------------------------------------------------------------------

Owner ==
    \/ Open \/ Reconnect \/ Acquire \/ Register \/ Abandon
    \/ Status \/ SendRequest \/ AwaitPump \/ TakeReply \/ GiveUp
    \/ Poll \/ PollPump \/ PollReturns \/ DiscardHidInputs \/ SendFails
    \/ Close \/ FlushPump \/ CloseEnds

Next == Owner \/ World

Spec == Init /\ [][Next]_vars

-----------------------------------------------------------------------------
(* Properties.                                                              *)

\* "Pad.status is the delivery proof: it correlates a unique request id with a
\* device.status reply" (pad.py:11-12): a verified layer is one the device was on
\* after the request was sent, though older requests' answers and the vendor's
\* arrive meanwhile, in any order, or on the next connection, or the removal of
\* the device in the same pump as the reply, which is taken all the same.
VerifiedLayerIsFresh == verified => layerIndex \in since

\* Whatever waits to be polled came in on the present connection (Pad._on_report,
\* Pad._connect), even if callbacks survive the teardown of an earlier one.
NoContamination == \A k \in DOMAIN messages : messages[k].conn = epoch

\* However opening, verifying, reconnecting or closing fails, the device is
\* released once, and no reference is left behind (Pad._dispose_connection).
NothingLeaks ==
    /\ handles = IF device = "none" THEN 0 ELSE 1
    /\ pc \in {"unopened", "shut"} => handles = 0

\* "A delayed removal from a disposed registration says nothing about the
\* current device" (pad.py:665): a connection only breaks if its own device was
\* unplugged, something failed, or it is disposed of.
LateRemovalIsHarmless ==
    [][connected /\ ~connected' /\ device' # "none"
         => device = "gone" \/ events' # events]_vars

Delivered == registered # 0 /\ \A k \in DOMAIN wire : wire[k].conn # registered

\* What protocol.FrameDecoder really does: a lost report costs its message and
\* at most one more.
LossIsBounded == Delivered => undecoded <= 2 * lost

\* "A dropped packet costs exactly one message: the leftover fragment glues onto
\* the front of the next one and that line fails to parse. Everything after it
\* decodes normally." (protocol.py:128-130): once the wire is empty, no more
\* messages are missing than reports were lost.
LossCostsOneMessage == Delivered => undecoded <= lost
=============================================================================
