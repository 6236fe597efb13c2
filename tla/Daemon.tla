------------------------------- MODULE Daemon -------------------------------
(***************************************************************************)
(* The daemon's tick (src/paneglow/daemon.py) over one pad connection      *)
(* (src/paneglow/pad.py), while the user, the vendor's app and the cable   *)
(* go on between any two of its steps.                                     *)
(*                                                                         *)
(* A tick refreshes the sessions, makes sure of the pad, polls it (which   *)
(* blocks), samples the frontmost app, handles what arrived, samples again *)
(* and paints the A-zone and the border.  Time passes between ticks: a     *)
(* deadline is "armed" until Elapse makes it "due".                        *)
(***************************************************************************)
EXTENDS Naturals, Sequences, Queues

CONSTANTS
    Keys,            \* the slots of the A-zone (A1..A6)
    Sessions,        \* session ids the scanner may report
    NoSession,       \* an empty slot
    GateMode,        \* cfg.gate_mode: "frontmost", "always" or "off"
    Scope,           \* cfg.underglow_scope: "outside", "all_sessions" or "off"
    LayerUnderglow,  \* cfg.layer_underglow: "keep" or "off"
    ReclaimAtOnce,   \* whether cfg.reclaim_delay_ms is 0
    LayersAreSeen,   \* environment: a layer is not left before a status saw it
    MaxEvents        \* bound: world events and I/O failures in a behaviour

ASSUME ConfigAssumption ==
    /\ GateMode \in {"frontmost", "always", "off"}
    /\ Scope \in {"outside", "all_sessions", "off"}
    /\ LayerUnderglow \in {"keep", "off"}
    /\ ReclaimAtOnce \in BOOLEAN /\ LayersAreSeen \in BOOLEAN
    /\ MaxEvents \in Nat
    /\ NoSession \notin Sessions

VARIABLES
    front,      \* what the frontmost app means to owner_for, or "error"
    plugged,    \* whether the pad is there
    layer,      \* the layer it is on
    aZone,      \* what its A keys show
    edge,       \* what its border shows
    events,     \* how many world events and failures there have been
    handle,     \* pad.py: the device it holds is "none", "live" or "gone"
    connected,  \* Pad._connected
    verified,   \* Pad._status_verified
    epoch,      \* Pad.epoch
    queue,      \* reports and messages poll_received has not returned yet
    pc,         \* where the daemon stands in tick
    owner,      \* Daemon.owner
    board,      \* slots and effective_states
    ver,        \* _verified_epoch and _verified_layer, 0 for None
    dirty,      \* _dirty_keys and _dirty_ambient
    last,       \* _last_keys and _last_ambient
    timers,     \* its deadlines: "off", "armed" or "due"
    reopen,     \* _needs_reconnect
    batch,      \* messages the poll returned and not handled yet
    served,     \* the last press that opened a session
    yielding    \* the vendor's app has been in front since the last blocking call
                \* or, in close, since it began

world == <<front, plugged, layer>>
zones == <<aZone, edge>>
pad   == <<handle, connected, verified, epoch, queue>>
core  == <<owner, ver, dirty, last, reopen>>
trace == <<served, yielding>>
vars  == <<world, zones, events, pad, pc, core, board, timers, batch, trace>>

Apps    == {"own", "yield", "other", "error"}
Owners  == {"none", "claude", "codex"}
Lights  == {"absent", "dark", "calm", "alert"}   \* a session's effective state
Timers  == {"keys", "ambient", "feedback", "status", "retry"}
Colours == {"off", "calm", "alert", "unset", "vendor"}

AllKeys(colour) == [k \in Keys |-> colour]
Border(colour, effect) == [colour |-> colour, effect |-> effect]
Off    == Border("off", "off")
Vendor == Border("vendor", "off")
Unset  == [keys |-> AllKeys("unset"), ambient |-> Border("unset", "off")]
Never  == [kind |-> "none", key |-> NoSession, epoch |-> 0, known |-> <<0, 0>>]

\* The slots slots.assign may return: no session twice, only reported ones,
\* and no lit session left out while a key is empty.
Boards ==
    {b \in [slots : [Keys -> Sessions \cup {NoSession}], state : [Sessions -> Lights]] :
        /\ \A k \in Keys : b.slots[k] # NoSession => b.state[b.slots[k]] # "absent"
        /\ \A j, k \in Keys : b.slots[j] = b.slots[k] /\ b.slots[j] # NoSession => j = k
        /\ \A s \in Sessions : b.state[s] \in {"calm", "alert"} =>
             \A k \in Keys : b.slots[k] # NoSession \/ \E j \in Keys : b.slots[j] = s}
NoBoard == [slots |-> [k \in Keys |-> NoSession], state |-> [s \in Sessions |-> "absent"]]

Borders  == [colour : {"off", "unset", "vendor", "claude", "codex"},
             effect : {"off", "normal", "alert", "fault"}]
Messages == [kind : {"none", "press", "keyAck", "ambientAck"},
             key : Keys \cup {NoSession}, epoch : Nat, known : Nat \X Nat]

TypeOK ==
    /\ front \in Apps /\ plugged \in BOOLEAN /\ layer \in {1, 2}
    /\ aZone \in [Keys -> Colours] /\ edge \in Borders
    /\ events \in 0..MaxEvents
    /\ handle \in {"none", "live", "gone"}
    /\ connected \in BOOLEAN /\ verified \in BOOLEAN /\ epoch \in Nat
    /\ queue \in Seq(Messages) /\ batch \in Seq(Messages)
    /\ pc \in {"idle", "pad", "poll", "sample", "dispatch", "open", "resample", "paint",
               "paintAmbient", "closing", "closed"}
    /\ owner \in Owners /\ board \in Boards
    /\ ver \in [epoch : Nat, layer : {0, 1, 2}] /\ (ver.epoch = 0 <=> ver.layer = 0)
    /\ dirty \in [keys : BOOLEAN, ambient : BOOLEAN]
    /\ last \in [keys : [Keys -> Colours], ambient : Borders]
    /\ timers \in [Timers -> {"off", "armed", "due"}]
    /\ reopen \in BOOLEAN /\ served \in Messages /\ yielding \in BOOLEAN

Dirty == [keys |-> TRUE, ambient |-> TRUE]
Unverified == [epoch |-> 0, layer |-> 0]

Init ==
    /\ front \in Apps /\ plugged = TRUE /\ layer \in {1, 2}
    /\ aZone = AllKeys("vendor") /\ edge = Vendor
    /\ events = 0
    /\ handle = "none" /\ connected = FALSE /\ verified = FALSE /\ epoch = 0
    /\ queue = <<>> /\ batch = <<>>
    /\ pc = "idle" /\ owner = "none" /\ board = NoBoard
    /\ ver = Unverified /\ dirty = Dirty /\ last = Unset
    /\ timers = [t \in Timers |-> IF t \in {"status", "retry"} THEN "due" ELSE "off"]
    /\ reopen = FALSE /\ served = Never /\ yielding = FALSE

-----------------------------------------------------------------------------
(* The world.  Every event counts against MaxEvents.                        *)

Event == events < MaxEvents /\ events' = events + 1
Received(kind, key) ==
    queue' = IF handle = "live"
               THEN Append(queue, [kind |-> kind, key |-> key, epoch |-> epoch,
                                   known |-> <<ver.epoch, ver.layer>>])
               ELSE queue

SwitchApp ==
    /\ Event /\ pc # "closed"
    /\ \E app \in Apps \ {front} : front' = app
    /\ yielding' = FALSE
    /\ UNCHANGED <<plugged, layer, zones, pad, pc, core, board, timers, batch, served>>

SwitchLayer ==
    /\ Event /\ plugged
    /\ LayersAreSeen => ver.layer \in {0, layer}
    /\ layer' = 3 - layer
    /\ UNCHANGED <<front, plugged, zones, pad, pc, core, board, timers, batch, trace>>

\* A keys reach the vendor channel on layer 1 only.
Press ==
    /\ Event /\ plugged /\ layer = 1
    /\ \E k \in Keys : Received("press", k)
    /\ UNCHANGED <<world, zones, handle, connected, verified, epoch, pc, core, board,
                   timers, batch, trace>>

\* The vendor's app writes a zone; the pad acknowledges to everyone.  thstatus
\* is ignored on other layers than 1.
VendorWrites ==
    /\ Event /\ plugged
    /\ \/ /\ aZone' = IF layer = 1 THEN AllKeys("vendor") ELSE aZone
          /\ Received("keyAck", NoSession)
          /\ UNCHANGED edge
       \/ /\ edge' = Vendor
          /\ Received("ambientAck", NoSession)
          /\ UNCHANGED aZone
    /\ UNCHANGED <<world, handle, connected, verified, epoch, pc, core, board,
                   timers, batch, trace>>

Unplug ==
    /\ Event /\ plugged
    /\ plugged' = FALSE
    /\ handle' = IF handle = "live" THEN "gone" ELSE handle
    /\ UNCHANGED <<front, layer, zones, connected, verified, epoch, queue, pc, core,
                   board, timers, batch, trace>>

Plug ==
    /\ ~plugged
    /\ plugged' = TRUE
    /\ UNCHANGED <<front, layer, zones, events, pad, pc, core, board, timers, batch, trace>>

\* Time reaches a deadline; one tick sees one `now`.
Elapse(t) ==
    /\ pc = "idle" /\ timers[t] = "armed"
    /\ timers' = [timers EXCEPT ![t] = "due"]
    /\ UNCHANGED <<world, zones, events, pad, pc, core, board, batch, trace>>

-----------------------------------------------------------------------------
(* What the steps of a tick share.                                          *)

\* owner_for and _refresh_owner: a failed lookup forgets the previous owner.
OwnerFor(app, previous) ==
    CASE GateMode = "off"    -> "none"
      [] GateMode = "always" -> "claude"
      [] GateMode = "frontmost" /\ app = "own"   -> "claude"
      [] GateMode = "frontmost" /\ app = "yield" -> "codex"
      [] GateMode = "frontmost" /\ app = "error" -> "none"
      [] OTHER               -> previous
Sampled == OwnerFor(front, owner)
RefreshOwner ==
    /\ owner' = Sampled
    /\ dirty' = IF Sampled # owner THEN Dirty ELSE dirty

\* _gate_layer_one
LayerOne == handle # "none" /\ connected /\ verified /\ ver = [epoch |-> epoch, layer |-> 1]

\* _invalidate_pad; with reconnect the next attempt waits for its backoff.
Invalidate(reconnect) ==
    /\ ver' = Unverified /\ last' = Unset /\ dirty' = Dirty
    /\ reopen' = (reopen \/ reconnect)

\* Mutant: input from before the status is kept.
IsNoInput(m) == FALSE

IsInput(m) == m.kind = "press"
\* _accept_pad_status, after discard_hid_inputs: a new connection or layer is
\* painted afresh.  Mutants: a layer counted from 0; a change of layer alone not repainted.
AcceptFromZero(seen, old) ==
    /\ ver' = [epoch |-> seen, layer |-> layer - 1]
    /\ reopen' = FALSE /\ last' = Unset /\ dirty' = Dirty
AcceptQuietly(seen, old) ==
    /\ ver' = [epoch |-> seen, layer |-> layer]
    /\ reopen' = FALSE
    /\ IF ver'.epoch # old.epoch
         THEN last' = Unset /\ dirty' = Dirty
         ELSE UNCHANGED <<last, dirty>>

Accept(seen, old) ==
    /\ ver' = [epoch |-> seen, layer |-> layer]
    /\ reopen' = FALSE
    /\ IF ver' # old
         THEN last' = Unset /\ dirty' = Dirty
         ELSE UNCHANGED <<last, dirty>>

\* A call fails for a reason the model knows, or for some other one.
Fails(cause) == IF cause THEN UNCHANGED events ELSE Event

SetTimers(changes) ==
    timers' = [t \in Timers |-> IF t \in DOMAIN changes THEN changes[t] ELSE timers[t]]
Goes(next) == pc' = next
AfterMessage(rest) == IF rest = <<>> THEN "resample" ELSE "dispatch"
Blocked == yielding' = (front = "yield")

-----------------------------------------------------------------------------
(* One tick.                                                                *)

\* _refresh_sessions: any change of the scan or of a state dirties both zones,
\* whether or not it shows on the board.
RefreshSessions ==
    /\ pc = "idle" /\ Goes("pad")
    /\ \/ UNCHANGED <<board, dirty, events>>
       \/ /\ Event
          /\ \E b \in Boards : board' = b
          /\ dirty' = Dirty
    /\ UNCHANGED <<world, zones, pad, owner, ver, last, reopen, timers, batch, trace>>

\* Pad.open: the first connection, or another try after one that failed.
OpenPad ==
    /\ pc = "pad" /\ handle = "none" /\ timers["retry"] = "due"
    /\ \/ /\ plugged
          /\ handle' = "live" /\ connected' = TRUE /\ verified' = FALSE
          /\ epoch' = epoch + 1 /\ queue' = <<>>
          /\ SetTimers([status |-> "due"])
          /\ UNCHANGED <<pc, events>>
       \/ /\ Fails(~plugged)
          /\ SetTimers([retry |-> "armed"])
          /\ Goes("poll")
          /\ UNCHANGED pad
    /\ UNCHANGED <<world, zones, core, board, batch, trace>>

Lost == reopen \/ (handle # "none" /\ ~connected)

\* Pad.reconnect disposes of the old connection whatever comes of the new one.
Reconnect ==
    /\ pc = "pad" /\ Lost /\ timers["retry"] = "due"
    /\ \/ /\ plugged
          /\ handle' = "live" /\ connected' = TRUE /\ verified' = TRUE
          /\ epoch' = epoch + 1 /\ queue' = <<>>
          /\ Accept(epoch + 1, ver)
          /\ SetTimers([status |-> "armed", retry |-> "due"])
          /\ UNCHANGED events
       \/ /\ \/ ~plugged /\ UNCHANGED <<events, epoch, queue>>
             \/ plugged /\ Event /\ epoch' \in {epoch, epoch + 1} /\ queue' \in {queue, <<>>}
          /\ handle' = "gone" /\ connected' = FALSE /\ verified' = FALSE
          /\ Invalidate(TRUE)
          /\ SetTimers([retry |-> "armed"])
    /\ Goes("poll")
    /\ UNCHANGED <<world, zones, owner, board, batch, trace>>

\* _verify_status: a reply, an exception, or no (usable) reply.
VerifyStatus ==
    /\ pc = "pad" /\ handle # "none" /\ ~Lost /\ timers["status"] = "due"
    /\ \/ /\ handle = "live" /\ verified' = TRUE
          /\ queue' = Only(queue, LAMBDA m : ~IsInput(m))
          /\ Accept(epoch, ver)
          /\ SetTimers([status |-> "armed", retry |-> "due"])
          /\ UNCHANGED <<connected, events>>
       \/ /\ Fails(handle = "gone")
          /\ verified' = FALSE /\ Invalidate(TRUE)
          /\ SetTimers([retry |-> "armed"])
          /\ UNCHANGED <<connected, queue>>
       \/ /\ Fails(handle = "gone")
          /\ connected' = (handle # "gone")
          /\ verified' = FALSE /\ Invalidate(FALSE)
          /\ SetTimers([status |-> "armed"])
          /\ UNCHANGED queue
    /\ Goes("poll")
    /\ UNCHANGED <<world, zones, handle, epoch, owner, board, batch, trace>>

LeavePadAlone ==
    /\ pc = "pad"
    /\ IF Lost \/ handle = "none" THEN timers["retry"] # "due" ELSE timers["status"] # "due"
    /\ Goes("poll")
    /\ UNCHANGED <<world, zones, events, pad, core, board, timers, batch, trace>>

\* poll_received blocks while messages arrive; a removal ends it early.
Poll ==
    /\ pc = "poll" /\ ver.epoch # 0
    /\ batch' = queue /\ queue' = <<>>
    /\ IF handle = "live"
         THEN UNCHANGED <<connected, verified>>
         ELSE connected' = FALSE /\ verified' = FALSE
    /\ Goes("sample")
    /\ Blocked
    /\ UNCHANGED <<world, zones, events, handle, epoch, core, board, timers, served>>

\* A raising poll invalidates the pad; the owner is sampled for the snapshot.
PollFails ==
    /\ pc = "poll" /\ ver.epoch # 0 /\ Event
    /\ connected' = FALSE /\ verified' = FALSE
    /\ Invalidate(TRUE)
    /\ SetTimers([retry |-> "armed"])
    /\ owner' = Sampled
    /\ Goes("paint")
    /\ Blocked
    /\ UNCHANGED <<world, zones, handle, epoch, queue, board, batch, served>>

NoPoll ==
    /\ pc = "poll" /\ ver.epoch = 0
    /\ RefreshOwner
    /\ Goes("paint")
    /\ UNCHANGED <<world, zones, events, pad, board, ver, last, reopen, timers, batch, trace>>

SampleAfterPoll ==
    /\ pc = "sample"
    /\ RefreshOwner
    /\ Goes(IF batch = <<>> THEN "paint" ELSE "dispatch")
    /\ UNCHANGED <<world, zones, events, pad, board, ver, last, reopen, timers, batch, trace>>

\* _schedule_reclaim: only other writers' acknowledgements count, those for the
\* A-zone only while it is ours, and a pending reclaim is not put off.
Reclaim(timer) ==
    IF timers[timer] = "off"
      THEN timers' = [timers EXCEPT ![timer] = IF ReclaimAtOnce THEN "due" ELSE "armed"]
      ELSE UNCHANGED timers

\* Mutant: the border is only reclaimed for Claude.
HandleAckForClaude(m) ==
    /\ CASE m.kind = "ambientAck" /\ owner = "claude" -> Reclaim("ambient")
         [] m.kind = "keyAck" /\ owner = "claude" /\ LayerOne -> Reclaim("keys")
         [] OTHER -> UNCHANGED timers
    /\ UNCHANGED <<owner, dirty, served>>

HandleAck(m) ==
    /\ CASE m.kind = "ambientAck" -> Reclaim("ambient")
         [] m.kind = "keyAck" /\ owner = "claude" /\ LayerOne -> Reclaim("keys")
         [] OTHER -> UNCHANGED timers
    /\ UNCHANGED <<owner, dirty, served>>

\* _handle_input: ownership is read again, then the gate, then the slot.  A
\* refused press changes nothing else, an empty key lights the border.
HandlePress(m) ==
    LET changed == IF Sampled # owner THEN Dirty ELSE dirty
    IN /\ owner' = Sampled
       /\ \/ /\ Sampled # "claude" \/ ~LayerOne
             /\ dirty' = changed
             /\ Goes(AfterMessage(Tail(batch)))
             /\ UNCHANGED <<timers, served>>
          \/ /\ Sampled = "claude" /\ LayerOne /\ board.slots[m.key] # NoSession
             /\ served' = m
             /\ dirty' = changed
             /\ Goes("open")
             /\ UNCHANGED timers
          \/ /\ Sampled = "claude" /\ LayerOne /\ board.slots[m.key] = NoSession
             /\ SetTimers([feedback |-> "armed"])
             /\ dirty' = [changed EXCEPT !.ambient = TRUE]
             /\ Goes(AfterMessage(Tail(batch)))
             /\ UNCHANGED served

\* _handle_messages, one message: an old connection's are dropped.
Dispatch ==
    /\ pc = "dispatch"
    /\ LET m == Head(batch)
       IN \/ /\ m.epoch = ver.epoch /\ m.kind = "press"
             /\ HandlePress(m)
          \/ /\ IF m.epoch = ver.epoch THEN m.kind # "press" /\ HandleAck(m)
                                        ELSE UNCHANGED <<owner, dirty, timers, served>>
             /\ Goes(AfterMessage(Tail(batch)))
    /\ batch' = Tail(batch)
    /\ UNCHANGED <<world, zones, events, pad, board, ver, last, reopen, yielding>>

\* The opener blocks until the deep link is launched, or fails.
OpenerReturns ==
    /\ pc = "open"
    /\ \/ UNCHANGED <<timers, dirty>>
       \/ /\ SetTimers([feedback |-> "armed"])
          /\ dirty' = [dirty EXCEPT !.ambient = TRUE]
    /\ Goes(AfterMessage(batch))
    /\ Blocked
    /\ UNCHANGED <<world, zones, events, pad, owner, ver, last, reopen, board, batch, served>>

\* Mutant: no second sample.
ResampleNothing ==
    /\ pc = "resample"
    /\ Goes("paint")
    /\ UNCHANGED <<world, zones, events, pad, core, board, timers, batch, trace>>

Resample ==
    /\ pc = "resample"
    /\ RefreshOwner
    /\ Goes("paint")
    /\ UNCHANGED <<world, zones, events, pad, board, ver, last, reopen, timers, batch, trace>>

-----------------------------------------------------------------------------
(* _paint                                                                   *)

KeyColours ==
    [k \in Keys |->
        IF board.slots[k] # NoSession /\ board.state[board.slots[k]] \in {"calm", "alert"}
          THEN board.state[board.slots[k]] ELSE "off"]
DesiredKeys == IF owner = "claude" THEN KeyColours ELSE AllKeys("off")

\* _ambient_value: sessions off the keys raise the alert, or all of them.
AlertLevel ==
    LET shown == {board.slots[k] : k \in Keys}
        counted == IF Scope = "all_sessions" \/ owner = "codex"
                     THEN Sessions ELSE Sessions \ shown
    IN IF \E s \in counted : board.state[s] = "alert" THEN "alert" ELSE "normal"
DesiredAmbient ==
    IF ver.layer # 1 /\ LayerUnderglow = "off" THEN Off
    ELSE IF timers["feedback"] = "armed" THEN Border("claude", "fault")
    ELSE IF owner = "none" \/ Scope = "off" THEN Off
    ELSE Border(owner, AlertLevel)

\* Pad.send: refused once disconnected, else accepted or failing.
Sends == handle = "live" /\ connected
SendFails ==
    /\ Fails(~Sends)
    /\ verified' = FALSE
    /\ Invalidate(TRUE)

\* Deadlines that passed are cleared, whatever comes of the writes.
Clear(passed) == [t \in Timers |-> IF t \in passed /\ timers[t] = "due" THEN "off" ELSE timers[t]]

NothingToPaint ==
    /\ pc = "paint" /\ ver.epoch = 0
    /\ timers' = Clear({"feedback"})
    /\ dirty' = [dirty EXCEPT !.ambient = @ \/ timers["feedback"] = "due"]
    /\ Goes("idle")
    /\ UNCHANGED <<world, zones, events, pad, owner, ver, last, reopen, board, batch, trace>>

\* The A-zone is written on layer 1 only, and never while Codex owns it.
\* Mutant: on any layer.
WantsKeysAnywhere ==
    /\ owner # "codex"
    /\ timers["keys"] = "due" \/ dirty.keys \/ DesiredKeys # last.keys
WantsKeys ==
    /\ ver.layer = 1 /\ owner # "codex"
    /\ timers["keys"] = "due" \/ dirty.keys \/ DesiredKeys # last.keys

PaintKeys ==
    LET stale == [dirty EXCEPT !.ambient = @ \/ timers["feedback"] = "due"]
        wants == WantsKeys
    IN /\ pc = "paint" /\ ver.epoch # 0
       /\ \/ /\ wants /\ Sends
             /\ aZone' = IF layer = 1 THEN DesiredKeys ELSE aZone
             /\ last' = [last EXCEPT !.keys = DesiredKeys]
             /\ dirty' = [stale EXCEPT !.keys = FALSE]
             /\ timers' = Clear({"feedback", "keys"})
             /\ Goes("paintAmbient")
             /\ UNCHANGED <<events, verified, ver, reopen>>
          \/ /\ wants /\ SendFails
             /\ timers' = [Clear({"feedback", "keys", "ambient"}) EXCEPT !["retry"] = "armed"]
             /\ Goes("idle")
             /\ UNCHANGED aZone
          \/ /\ ~wants
             /\ dirty' = IF ver.layer = 1 /\ owner = "codex"
                           THEN [stale EXCEPT !.keys = FALSE] ELSE stale
             /\ timers' = Clear({"feedback", "keys"})
             /\ Goes("paintAmbient")
             /\ UNCHANGED <<aZone, events, verified, ver, last, reopen>>
       /\ UNCHANGED <<world, edge, handle, connected, epoch, queue, owner, board, batch, trace>>

\* On other layers the border is left alone ("keep") or turned off once.
PaintAmbient ==
    LET force == timers["ambient"] = "due"
        wants == IF ver.layer = 1
                   THEN force \/ dirty.ambient \/ DesiredAmbient # last.ambient
                   ELSE LayerUnderglow = "off" /\ (force \/ last.ambient # Off)
        clean == [dirty EXCEPT !.ambient = FALSE]
    IN /\ pc = "paintAmbient"
       /\ \/ /\ wants /\ Sends
             /\ edge' = DesiredAmbient
             /\ last' = [last EXCEPT !.ambient = DesiredAmbient]
             /\ dirty' = clean
             /\ timers' = Clear({"ambient"})
             /\ UNCHANGED <<events, verified, ver, reopen>>
          \/ /\ wants /\ SendFails
             /\ timers' = [Clear({"ambient"}) EXCEPT !["retry"] = "armed"]
             /\ UNCHANGED edge
          \/ /\ ~wants
             /\ dirty' = IF ver.layer # 1 /\ LayerUnderglow = "off" THEN clean ELSE dirty
             /\ timers' = Clear({"ambient"})
             /\ UNCHANGED <<edge, events, verified, ver, last, reopen>>
       /\ Goes("idle")
       /\ UNCHANGED <<world, aZone, handle, connected, epoch, queue, owner, board, batch, trace>>

-----------------------------------------------------------------------------
(* Daemon.close: the owner is sampled once more, the zones that are ours go *)
(* dark (each write may fail), and the connection is disposed of.           *)

\* Mutant: no last sample.
CloseUnsampled ==
    /\ pc = "idle"
    /\ Goes("closing")
    /\ Blocked
    /\ UNCHANGED <<world, zones, events, pad, core, board, timers, batch, served>>

CloseSamples ==
    /\ pc = "idle"
    /\ RefreshOwner
    /\ Goes("closing")
    /\ Blocked
    /\ UNCHANGED <<world, zones, events, pad, board, ver, last, reopen, timers, batch, served>>

\* By now somebody else may be in front.
Close ==
    /\ pc = "closing"
    /\ LET darkens == LayerOne /\ Sends
           dark    == IF owner = "claude" /\ layer = 1 THEN AllKeys("off") ELSE aZone
       IN \/ /\ aZone' = IF darkens THEN dark ELSE aZone
             /\ edge' = IF darkens THEN Off ELSE edge
             /\ UNCHANGED events
          \/ /\ darkens /\ Event
             /\ aZone' \in {aZone, dark} /\ edge' \in {edge, Off}
    /\ handle' = "gone" /\ connected' = FALSE /\ verified' = FALSE
    /\ ver' = Unverified
    /\ Goes("closed")
    /\ UNCHANGED <<world, epoch, queue, owner, board, dirty, last, timers, reopen, batch,
                   trace>>

-----------------------------------------------------------------------------

Tick ==
    \/ RefreshSessions \/ OpenPad \/ Reconnect \/ VerifyStatus \/ LeavePadAlone
    \/ Poll \/ PollFails \/ NoPoll \/ SampleAfterPoll \/ Dispatch \/ OpenerReturns \/ Resample
    \/ NothingToPaint \/ PaintKeys \/ PaintAmbient

World == SwitchApp \/ SwitchLayer \/ Press \/ VendorWrites \/ Unplug \/ Plug

Next == Tick \/ World \/ CloseSamples \/ Close \/ \E t \in Timers : Elapse(t)

Spec == Init /\ [][Next]_vars

Over == pc \in {"closing", "closed"}

\* Ticks follow one another, and while they do no deadline stays armed forever;
\* the world owes nothing.
FairSpec ==
    /\ Spec
    /\ WF_vars(Tick)
    /\ \A t \in Timers : []<>(timers[t] = "armed" => Over)

-----------------------------------------------------------------------------
(* Properties.                                                              *)

\* A press opens a session only if, when it was made, the daemon had verified
\* this very connection to be on layer 1 (_handle_messages drops other epochs,
\* discard_hid_inputs what came before a status), if the frontmost app gives
\* Claude the pad at the moment of opening ("Re-read ownership at dispatch
\* time", daemon.py:454), and if the key still stands for a session.
OpensOnlyKnownPresses ==
    [][served' # served =>
          /\ served'.known = <<epoch, 1>>
          /\ OwnerFor(front, owner) = "claude"
          /\ board.slots[served'.key] # NoSession]_vars

\* "Yielding means zero thstatus writes" (daemon.py:590), even if the user
\* switched to Codex while the daemon was blocked in the poll or in a deep
\* link (daemon.py:646-657), or between the last tick and a shutdown
\* (daemon.py:675-676): the A-zone is only written if some other app has been in
\* front since the last blocking call, or since the shutdown began.
YieldsToCodex ==
    [][aZone' # aZone /\ aZone' # AllKeys("vendor") => ~yielding]_vars

\* Once the world leaves the pad alone with Claude in front on layer 1, the A
\* keys come to show the sessions on them, whatever the vendor wrote, however
\* often the cable or a write failed, and in whatever order that was noticed.
KeysConverge ==
    <>[](plugged /\ layer = 1 /\ front = "own" /\ ~Over)
        => <>[](aZone = KeyColours)

\* So does the border, for either owner, once its feedback has run out.
BorderConverges ==
    <>[](plugged /\ layer = 1 /\ front \in {"own", "yield"} /\ ~Over)
        => <>[](edge = Border(IF front = "own" THEN "claude" ELSE "codex", AlertLevel))

\* On a layer where the A-zone is not ours the daemon, once it knows, writes
\* nothing but the border's "off", and that only if so configured.
OtherLayersAreLeftAlone ==
    [][ver.layer = 2 =>
          /\ aZone' # aZone => aZone' = AllKeys("vendor")
          /\ edge' # edge => edge' \in {Vendor, Off}
          /\ edge' = Off /\ edge # Off => LayerUnderglow = "off"]_vars
=============================================================================
