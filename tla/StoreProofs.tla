---- MODULE StoreProofs ----
(***************************************************************************)
(* Two promises of the record store, for any number of sessions, hooks and  *)
(* ticks: the newest event of a session stands, and a scan costs no living  *)
(* session its record.  They are proved of Sessions, where hooks, sessions  *)
(* and the pruning daemon meet.                                             *)
(***************************************************************************)
EXTENDS Sessions, TLAPS

(* ----------------------- the inductive invariant ------------------------ *)

\* What a hook holds agrees with where it is.
HookInv ==
    \A h \in Hooks :
        /\ hooks[h].pc # "idle" => hooks[h].session \in Sessions
        /\ hooks[h].pc \in {"promote", "write"} =>
              hooks[h].record \in Records /\ hooks[h].record.rev <= clock

\* Nothing is as new as the clock's next tick, and the prompts that have yet to
\* look at the store were stamped at times of their own.
StampInv ==
    /\ \A s \in Sessions : best[s] # Absent => best[s].rev <= clock
    /\ \A h \in Hooks : hooks[h].pc = "promote" =>
          /\ \A s \in Sessions : best[s] # Absent =>
                best[s].rev # hooks[h].record.rev
          /\ \A g \in Hooks \ {h} : hooks[g].pc = "promote" =>
                hooks[g].record.rev # hooks[h].record.rev

Behind(record, s) ==
    best[s] # Absent /\ (record = best[s] \/ record.rev < best[s].rev)

\* The newest record a hook set out to write is behind none: it is in the store
\* or on its way there, unless the session is one of those that lost something.
BestInv ==
    \A s \in Tracked :
        /\ records[s] # Absent => Behind(records[s], s)
        /\ \A h \in Hooks : hooks[h].pc = "write" /\ hooks[h].session = s =>
              Behind(hooks[h].record, s)
        /\ \/ s \in gap
           \/ best[s] = records[s]
           \/ \E h \in Hooks : /\ hooks[h].pc = "write" /\ hooks[h].session = s
                               /\ hooks[h].record = best[s]

\* An authoritative scan knows every session that was live.
ScanInv ==
    /\ scan \in Scans
    /\ pc = "prune" /\ scan.authoritative => since \subseteq scan.live

IInv == StoreTypeOK /\ HookInv /\ StampInv /\ BestInv /\ ScanInv

(* --------------------------- its preservation --------------------------- *)

\* What a hook may be about to do.
Calls == [pc : {"idle", "called", "promote", "write"},
          session : Sessions \cup {Absent},
          event : Events \cup {"none"},
          record : Records \cup {Absent}]

\* A hook that sets out to write a record stays a hook with a record.
LEMMA SettingOutTypes ==
    ASSUME StoreTypeOK, NEW h \in Hooks, NEW r \in Records, SetsOut(h, r)
    PROVE  /\ hooks' \in [Hooks -> Calls]
           /\ best' \in [Sessions -> Records \cup {Absent}]
<1>1. hooks' \in [Hooks -> Calls]
  <2>1. hooks \in [Hooks -> Calls]
    BY DEF StoreTypeOK, Calls
  <2>2. hooks[h] \in Calls
    BY <2>1
  <2>3. [hooks[h] EXCEPT !.pc = "write", !.record = r] \in Calls
    BY <2>2 DEF Calls
  <2>4. hooks' = [hooks EXCEPT
                   ![h] = [hooks[h] EXCEPT !.pc = "write", !.record = r]]
    BY <2>1, <2>2 DEF SetsOut, Calls
  <2> QED BY <2>1, <2>3, <2>4
<1>2. best' \in [Sessions -> Records \cup {Absent}]
  BY DEF StoreTypeOK, SetsOut
<1> QED BY <1>1, <1>2

\* The store and the hooks keep their types.
LEMMA TypeStep == IInv /\ [Next]_vars => StoreTypeOK'
<1> SUFFICES ASSUME IInv, [Next]_vars PROVE StoreTypeOK'
  OBVIOUS
<1> USE StoreAssumption
    DEF IInv, StoreTypeOK, HookInv, Records, States, AllEvents,
        Classify, Classified, world, store, board
<1>1. ASSUME NEW s \in Sessions, Start(s) \/ End(s)
      PROVE  StoreTypeOK'
  BY <1>1 DEF Start, End
<1>2. ASSUME NEW h \in Hooks, Fire(h) \/ RunHook(h)
      PROVE  StoreTypeOK'
  <2>1. CASE Fire(h) BY <2>1 DEF Fire, Call, Live
  <2>2. CASE RunHook(h) /\ Stamp(h)
    BY <2>2 DEF RunHook, Stamp, SetsOut, Ends, Newer, Resting
  <2>3. CASE RunHook(h) /\ Promote(h)
    <3>1. /\ UNCHANGED <<clock, records, gap>>
          /\ hooks[h].record \in Records
      BY <2>3 DEF RunHook, Promote
    <3>2. CASE SetsOut(h, hooks[h].record)
      <4>1. /\ hooks' \in [Hooks -> Calls]
            /\ best' \in [Sessions -> Records \cup {Absent}]
        BY <3>1, <3>2, SettingOutTypes DEF Records, States
      <4> QED BY <3>1, <4>1 DEF Calls
    <3>3. CASE UNCHANGED best /\ Ends(h)
      BY <3>1, <3>3 DEF Ends, Resting
    <3> QED BY <2>3, <3>2, <3>3 DEF Promote
  <2>4. CASE RunHook(h) /\ Write(h)
    BY <2>4 DEF RunHook, Write, Ends, Newer, Resting
  <2>5. CASE RunHook(h) /\ Fail(h) BY <2>5 DEF RunHook, Fail, Ends, Resting
  <2> QED BY <1>2, <2>1, <2>2, <2>3, <2>4, <2>5 DEF RunHook, Hook
<1>3. CASE Pass BY <1>3 DEF Pass
<1>4. CASE Scan BY <1>4 DEF Scan, Live
<1>5. CASE PruneStore BY <1>5 DEF PruneStore, Prune
<1>6. ASSUME NEW read \in BOOLEAN, ReadStore(read)
      PROVE  StoreTypeOK'
  BY <1>6 DEF ReadStore
<1>7. CASE UNCHANGED vars BY <1>7 DEF vars
<1> QED BY <1>1, <1>2, <1>3, <1>4, <1>5, <1>6, <1>7 DEF Next, Refresh

\* A hook holds a record once it has stamped one.
LEMMA HookStep == IInv /\ [Next]_vars => HookInv'
<1> SUFFICES ASSUME IInv, [Next]_vars PROVE HookInv'
  OBVIOUS
<1> USE StoreAssumption
    DEF IInv, StoreTypeOK, HookInv, Records, States, Classify, Classified,
        world, store, board
<1>1. ASSUME NEW s \in Sessions, Start(s) \/ End(s)
      PROVE  HookInv'
  BY <1>1 DEF Start, End
<1>2. ASSUME NEW h \in Hooks, Fire(h) \/ RunHook(h)
      PROVE  HookInv'
  <2>1. CASE Fire(h) BY <2>1 DEF Fire, Call, Live
  <2>2. CASE RunHook(h) /\ Stamp(h)
    BY <2>2 DEF RunHook, Stamp, SetsOut, Ends, Newer, Resting
  <2>3. CASE RunHook(h) /\ Promote(h)
    BY <2>3 DEF RunHook, Promote, SetsOut, Ends, Newer, Resting
  <2>4. CASE RunHook(h) /\ Write(h)
    BY <2>4 DEF RunHook, Write, Ends, Newer, Resting
  <2>5. CASE RunHook(h) /\ Fail(h) BY <2>5 DEF RunHook, Fail, Ends, Resting
  <2> QED BY <1>2, <2>1, <2>2, <2>3, <2>4, <2>5 DEF RunHook, Hook
<1>3. CASE Pass BY <1>3 DEF Pass
<1>4. CASE Scan BY <1>4 DEF Scan, Live
<1>5. CASE PruneStore BY <1>5 DEF PruneStore, Prune
<1>6. ASSUME NEW read \in BOOLEAN, ReadStore(read)
      PROVE  HookInv'
  BY <1>6 DEF ReadStore
<1>7. CASE UNCHANGED vars BY <1>7 DEF vars
<1> QED BY <1>1, <1>2, <1>3, <1>4, <1>5, <1>6, <1>7 DEF Next, Refresh

\* No two stamps are alike.
LEMMA StampStep == IInv /\ [Next]_vars => StampInv'
<1> SUFFICES ASSUME IInv, [Next]_vars PROVE StampInv'
  OBVIOUS
<1> USE StoreAssumption
    DEF IInv, StoreTypeOK, HookInv, StampInv, Records,
        world, store, board
<1>1. ASSUME NEW s \in Sessions, Start(s) \/ End(s)
      PROVE  StampInv'
  BY <1>1 DEF Start, End
<1>2. ASSUME NEW h \in Hooks, Fire(h) \/ RunHook(h)
      PROVE  StampInv'
  <2>1. CASE Fire(h) BY <2>1 DEF Fire, Call, Live
  <2>2. CASE RunHook(h) /\ Stamp(h)
    <3>1. /\ hooks[h].pc = "called" /\ clock \in Nat /\ clock' = clock + 1
          /\ UNCHANGED <<records, gap>> /\ hooks[h].session \in Sessions
      BY <2>2 DEF RunHook, Stamp
    <3>2. ASSUME NEW r \in Records, r.rev = clock', SetsOut(h, r)
          PROVE  StampInv'
      <4>1. /\ hooks'[h].pc = "write" /\ hooks'[h].record = r
            /\ hooks'[h].session = hooks[h].session
            /\ \A g \in Hooks \ {h} : hooks'[g] = hooks[g]
        BY <3>2 DEF SetsOut
      <4>2. \A s \in Sessions :
              best'[s] = IF s = hooks[h].session /\ s \in Tracked THEN r
                                                                 ELSE best[s]
        BY <3>1, <3>2 DEF SetsOut, Newer
      <4> QED BY <3>1, <3>2, <4>1, <4>2
    <3>3. CASE UNCHANGED best /\ hooks' = [hooks EXCEPT ![h].pc = "promote",
                 ![h].record = [state |-> "waiting", rev |-> clock']]
      BY <3>1, <3>3
    <3>4. CASE UNCHANGED best /\ Ends(h)
      BY <3>1, <3>4 DEF Ends, Resting
    <3>5. ASSUME hooks[h].event \in Classified
          PROVE  [state |-> Classify(hooks[h].event), rev |-> clock']
                   \in Records
      BY <2>2, <3>1, <3>5
         DEF RunHook, Stamp, Classify, Classified, Records, States
    <3> QED BY <2>2, <3>2, <3>3, <3>4, <3>5 DEF Stamp
  <2>3. CASE RunHook(h) /\ Promote(h)
    BY <2>3 DEF RunHook, Promote, SetsOut, Ends, Newer, Resting
  <2>4. CASE RunHook(h) /\ Write(h)
    BY <2>4 DEF RunHook, Write, Ends, Newer, Resting
  <2>5. CASE RunHook(h) /\ Fail(h) BY <2>5 DEF RunHook, Fail, Ends, Resting
  <2> QED BY <1>2, <2>1, <2>2, <2>3, <2>4, <2>5 DEF RunHook, Hook
<1>3. CASE Pass BY <1>3 DEF Pass
<1>4. CASE Scan BY <1>4 DEF Scan, Live
<1>5. CASE PruneStore BY <1>5 DEF PruneStore, Prune
<1>6. ASSUME NEW read \in BOOLEAN, ReadStore(read)
      PROVE  StampInv'
  BY <1>6 DEF ReadStore
<1>7. CASE UNCHANGED vars BY <1>7 DEF vars
<1> QED BY <1>1, <1>2, <1>3, <1>4, <1>5, <1>6, <1>7 DEF Next, Refresh

\* A step may make another record of s the best one, if it is newer.
Overtakes(s) ==
    \/ best'[s] = best[s]
    \/ /\ best'[s] # Absent
       /\ best[s] # Absent =>
             /\ best[s].rev \in Nat /\ best'[s].rev \in Nat
             /\ best'[s].rev > best[s].rev

\* What was behind the best record is behind the next one.
LEMMA StaysBehind ==
    ASSUME NEW s, NEW record, Behind(record, s), record.rev \in Nat,
           Overtakes(s)
    PROVE  best'[s] # Absent /\ (record = best'[s] \/ record.rev < best'[s].rev)
BY DEF Behind, Overtakes

\* A record is none, and its rev a time.
LEMMA RecordFacts == ASSUME NEW r \in Records PROVE r # Absent /\ r.rev \in Nat
<1>1. Absent \notin Records
  BY StoreAssumption DEF Records, States
<1>2. r.rev \in 1..MaxTime
  BY DEF Records
<1> QED BY <1>1, <1>2, StoreAssumption

\* Of two different times, one that is not the later is the earlier.
LEMMA Earlier ==
    ASSUME NEW a \in Nat, NEW b \in Nat, a # b, ~(a > b)
    PROVE  a < b
OBVIOUS

\* A hook that sets out to write a record makes it the best one if it is newer.
LEMMA SettingOut ==
    ASSUME IInv, NEW h \in Hooks, NEW r \in Records, SetsOut(h, r),
           NEW s \in Tracked
    PROVE  Overtakes(s)
<1>1. s \in Sessions /\ best \in [Sessions -> Records \cup {Absent}]
  BY StoreAssumption DEF IInv, StoreTypeOK
<1>2. best'[s] = best[s] \/ (best'[s] = r /\ Newer(r, best[s]))
  BY <1>1 DEF SetsOut
<1>3. r # Absent /\ r.rev \in Nat
  BY RecordFacts
<1>4. best[s] # Absent => best[s].rev \in Nat
  <2> SUFFICES ASSUME best[s] # Absent PROVE best[s].rev \in Nat
    OBVIOUS
  <2>1. best[s] \in Records
    BY <1>1
  <2> QED BY <2>1, RecordFacts
<1> QED BY <1>2, <1>3, <1>4 DEF Overtakes, Newer

\* The newest record is not lost on its way.
LEMMA BestStep == IInv /\ [Next]_vars => BestInv'
<1> SUFFICES ASSUME IInv, [Next]_vars PROVE BestInv'
  OBVIOUS
<1>0. IInv
  OBVIOUS
<1> USE StoreAssumption
    DEF IInv, StoreTypeOK, HookInv, StampInv, BestInv, Behind, Records,
        world, store, board
<1>1. ASSUME NEW s \in Sessions, Start(s) \/ End(s)
      PROVE  BestInv'
  BY <1>1 DEF Start, End
<1>2. ASSUME NEW h \in Hooks, Fire(h) \/ RunHook(h)
      PROVE  BestInv'
  <2>1. CASE Fire(h) BY <2>1 DEF Fire, Call, Live
  <2>2. CASE RunHook(h) /\ Stamp(h)
    <3>1. /\ hooks[h].pc = "called" /\ clock \in Nat /\ clock' = clock + 1
          /\ UNCHANGED <<records, gap>> /\ hooks[h].session \in Sessions
      BY <2>2 DEF RunHook, Stamp
    <3>2. ASSUME NEW r \in Records, r.rev = clock', SetsOut(h, r)
          PROVE  BestInv'
      <4>1. /\ hooks'[h].pc = "write" /\ hooks'[h].record = r
            /\ hooks'[h].session = hooks[h].session
            /\ \A g \in Hooks \ {h} : hooks'[g] = hooks[g]
        BY <3>2 DEF SetsOut
      <4>2. \A s \in Sessions :
              best'[s] = IF s = hooks[h].session /\ s \in Tracked THEN r
                                                                 ELSE best[s]
        BY <3>1, <3>2 DEF SetsOut, Newer
      <4>3. \A s \in Sessions : best[s] \in Records \cup {Absent}
        OBVIOUS
      <4>5. ASSUME NEW s \in Tracked
            PROVE  \/ s \in gap'
                   \/ best'[s] = records'[s]
                   \/ \E g \in Hooks : /\ hooks'[g].pc = "write"
                                        /\ hooks'[g].session = s
                                        /\ hooks'[g].record = best'[s]
        <5>1. CASE s = hooks[h].session /\ best'[s] = hooks'[h].record
          BY <4>1, <5>1
        <5>2. CASE best'[s] = best[s]
          BY <3>1, <4>1, <5>2
        <5> QED BY <3>1, <4>2, <4>1, <5>1, <5>2
      <4>6. \A s \in Tracked : Overtakes(s)
        BY <1>0, <3>2, SettingOut
      <4>7. ASSUME NEW s \in Tracked, records'[s] # Absent
            PROVE  Behind(records[s], s)'
        <5>1. records' = records
          BY <3>1
        <5>2. Behind(records[s], s) /\ records[s].rev \in Nat
          BY <4>7, <5>1
        <5> QED BY <4>6, <5>1, <5>2, StaysBehind
      <4>8. ASSUME NEW s \in Tracked, NEW g \in Hooks,
                   hooks'[g].pc = "write", hooks'[g].session = s
            PROVE  Behind(hooks[g].record, s)'
        <5>1. CASE g = h
          <6>1. s = hooks[h].session /\ s \in Sessions
            BY <4>1, <4>8, <5>1
          <6>2. best'[s] = r
            BY <4>2, <4>8, <6>1
          <6>3. hooks'[g].record = r /\ r # Absent
            BY <4>1, <5>1, <3>2, RecordFacts
          <6> QED BY <6>2, <6>3
        <5>2. CASE g # h
          <6>1. hooks'[g] = hooks[g]
            BY <4>1, <5>2
          <6>2. Behind(hooks[g].record, s) /\ hooks[g].record.rev \in Nat
            BY <4>8, <6>1
          <6> QED BY <4>6, <6>1, <6>2, StaysBehind
        <5> QED BY <5>1, <5>2
      <4> QED BY <4>5, <4>7, <4>8
    <3>3. CASE UNCHANGED best /\ hooks' = [hooks EXCEPT ![h].pc = "promote",
                 ![h].record = [state |-> "waiting", rev |-> clock']]
      <4>1. /\ hooks[h].pc # "write" /\ hooks'[h].pc # "write"
            /\ \A g \in Hooks \ {h} : hooks'[g] = hooks[g]
        BY <3>1, <3>3
      <4> QED BY <3>1, <3>3, <4>1
    <3>4. CASE UNCHANGED best /\ Ends(h)
      BY <3>1, <3>4 DEF Ends, Resting
    <3>5. ASSUME hooks[h].event \in Classified
          PROVE  [state |-> Classify(hooks[h].event), rev |-> clock']
                   \in Records
      BY <2>2, <3>1, <3>5
         DEF RunHook, Stamp, Classify, Classified, Records, States
    <3> QED BY <2>2, <3>2, <3>3, <3>4, <3>5 DEF Stamp
  <2>3. CASE RunHook(h) /\ Promote(h)
    <3>1. /\ hooks[h].pc = "promote" /\ UNCHANGED <<clock, records, gap>>
          /\ hooks[h].session \in Sessions /\ hooks[h].record \in Records
      BY <2>3 DEF RunHook, Promote
    <3>2. CASE SetsOut(h, hooks[h].record)
      <4>1. /\ hooks'[h].pc = "write" /\ hooks'[h].record = hooks[h].record
            /\ hooks'[h].session = hooks[h].session
            /\ \A g \in Hooks \ {h} : hooks'[g] = hooks[g]
        BY <3>2 DEF SetsOut
      <4>2. \A s \in Sessions :
              best'[s] = IF /\ s = hooks[h].session /\ s \in Tracked
                            /\ Newer(hooks[h].record, best[s])
                         THEN hooks[h].record ELSE best[s]
        BY <3>1, <3>2 DEF SetsOut
      <4>3. \A s \in Sessions : best[s] \in Records \cup {Absent}
        OBVIOUS
      <4>5. ASSUME NEW s \in Tracked
            PROVE  \/ s \in gap'
                   \/ best'[s] = records'[s]
                   \/ \E g \in Hooks : /\ hooks'[g].pc = "write"
                                        /\ hooks'[g].session = s
                                        /\ hooks'[g].record = best'[s]
        <5>1. CASE s = hooks[h].session /\ best'[s] = hooks'[h].record
          BY <4>1, <5>1
        <5>2. CASE best'[s] = best[s]
          BY <3>1, <4>1, <5>2
        <5> QED BY <3>1, <4>2, <4>1, <5>1, <5>2
      <4>6. \A s \in Tracked : Overtakes(s)
        BY <1>0, <3>1, <3>2, SettingOut
      <4>7. ASSUME NEW s \in Tracked, records'[s] # Absent
            PROVE  Behind(records[s], s)'
        <5>1. records' = records
          BY <3>1
        <5>2. Behind(records[s], s) /\ records[s].rev \in Nat
          BY <4>7, <5>1
        <5> QED BY <4>6, <5>1, <5>2, StaysBehind
      <4>8. ASSUME NEW s \in Tracked, NEW g \in Hooks,
                   hooks'[g].pc = "write", hooks'[g].session = s
            PROVE  Behind(hooks[g].record, s)'
        <5>1. CASE g = h
          <6>1. s = hooks[h].session /\ s \in Sessions
            BY <4>1, <4>8, <5>1
          <6>2. CASE Newer(hooks[h].record, best[s])
            <7>1. best'[s] = hooks[h].record /\ hooks[h].record # Absent
              BY <3>1, <4>2, <4>8, <6>1, <6>2, RecordFacts
            <7> QED BY <4>1, <5>1, <7>1
          <6>3. CASE ~Newer(hooks[h].record, best[s])
            <7>1. best'[s] = best[s] /\ best[s] # Absent
              BY <4>2, <6>1, <6>3 DEF Newer
            <7>2. best[s].rev # hooks[h].record.rev
              BY <3>1, <6>1, <7>1
            <7>3. best[s].rev \in Nat /\ hooks[h].record.rev \in Nat
              BY <3>1, <4>3, <6>1, <7>1, RecordFacts
            <7>4. hooks[h].record.rev < best[s].rev
              <8>1. ~(hooks[h].record.rev > best[s].rev)
                BY <6>3 DEF Newer
              <8> QED BY <7>2, <7>3, <8>1, Earlier
            <7> QED BY <4>1, <5>1, <7>1, <7>4
          <6> QED BY <6>2, <6>3
        <5>2. CASE g # h
          <6>1. hooks'[g] = hooks[g]
            BY <4>1, <5>2
          <6>2. Behind(hooks[g].record, s) /\ hooks[g].record.rev \in Nat
            BY <4>8, <6>1
          <6> QED BY <4>6, <6>1, <6>2, StaysBehind
        <5> QED BY <5>1, <5>2
      <4> QED BY <4>5, <4>7, <4>8
    <3>3. CASE UNCHANGED best /\ Ends(h)
      BY <3>1, <3>3 DEF Ends, Resting
    <3> QED BY <2>3, <3>2, <3>3 DEF Promote
  <2>4. CASE RunHook(h) /\ Write(h)
    BY <2>4 DEF RunHook, Write, Ends, Newer, Resting
  <2>5. CASE RunHook(h) /\ Fail(h) BY <2>5 DEF RunHook, Fail, Ends, Resting
  <2> QED BY <1>2, <2>1, <2>2, <2>3, <2>4, <2>5 DEF RunHook, Hook
<1>3. CASE Pass BY <1>3 DEF Pass
<1>4. CASE Scan BY <1>4 DEF Scan, Live
<1>5. CASE PruneStore BY <1>5 DEF PruneStore, Prune
<1>6. ASSUME NEW read \in BOOLEAN, ReadStore(read)
      PROVE  BestInv'
  BY <1>6 DEF ReadStore
<1>7. CASE UNCHANGED vars BY <1>7 DEF vars
<1> QED BY <1>1, <1>2, <1>3, <1>4, <1>5, <1>6, <1>7 DEF Next, Refresh

\* The scan stays what it was until the next one.
LEMMA ScanStep == IInv /\ [Next]_vars => ScanInv'
<1> SUFFICES ASSUME IInv, [Next]_vars PROVE ScanInv'
  OBVIOUS
<1> USE StoreAssumption
    DEF IInv, StoreTypeOK, ScanInv, Scans,
        world, store, board
<1>1. ASSUME NEW s \in Sessions, Start(s) \/ End(s)
      PROVE  ScanInv'
  BY <1>1 DEF Start, End
<1>2. ASSUME NEW h \in Hooks, Fire(h) \/ RunHook(h)
      PROVE  ScanInv'
  <2>1. CASE Fire(h) BY <2>1 DEF Fire, Call, Live
  <2>2. CASE RunHook(h) /\ Stamp(h)
    BY <2>2 DEF RunHook, Stamp, SetsOut, Ends, Newer, Resting
  <2>3. CASE RunHook(h) /\ Promote(h)
    BY <2>3 DEF RunHook, Promote, SetsOut, Ends, Newer, Resting
  <2>4. CASE RunHook(h) /\ Write(h)
    BY <2>4 DEF RunHook, Write, Ends, Newer, Resting
  <2>5. CASE RunHook(h) /\ Fail(h) BY <2>5 DEF RunHook, Fail, Ends, Resting
  <2> QED BY <1>2, <2>1, <2>2, <2>3, <2>4, <2>5 DEF RunHook, Hook
<1>3. CASE Pass BY <1>3 DEF Pass
<1>4. CASE Scan
  <2>0. Live \subseteq Sessions
    BY DEF Live
  <2>1. scan'.live \subseteq Sessions /\ scan'.authoritative \in BOOLEAN
    <3>1. CASE scan' = [live |-> Live, authoritative |-> TRUE, now |-> clock]
      BY <2>0, <3>1
    <3>2. ASSUME NEW some \in SUBSET Live,
                 scan' = [live |-> some, authoritative |-> FALSE, now |-> clock]
          PROVE  /\ scan'.live \subseteq Sessions
                 /\ scan'.authoritative \in BOOLEAN
      BY <2>0, <3>2
    <3> QED BY <1>4, <3>1, <3>2 DEF Scan
  <2>2. scan' = [live |-> scan'.live, authoritative |-> scan'.authoritative,
                 now |-> clock]
    BY <1>4 DEF Scan
  <2>3. scan'.authoritative => since' \subseteq scan'.live
    BY <1>4 DEF Scan
  <2> QED BY <2>1, <2>2, <2>3
<1>5. CASE PruneStore BY <1>5 DEF PruneStore, Prune
<1>6. ASSUME NEW read \in BOOLEAN, ReadStore(read)
      PROVE  ScanInv'
  BY <1>6 DEF ReadStore
<1>7. CASE UNCHANGED vars BY <1>7 DEF vars
<1> QED BY <1>1, <1>2, <1>3, <1>4, <1>5, <1>6, <1>7 DEF Next, Refresh

(* ------------------------------ theorems -------------------------------- *)

\* The invariant holds at the start.
LEMMA InitInv == Init => IInv
BY StoreAssumption
   DEF Init, StoreInit, IInv, StoreTypeOK, HookInv, StampInv, BestInv, ScanInv,
       Resting, Scans

\* The inductive invariant holds in every behaviour.
THEOREM Inductive == Spec => []IInv
<1>1. IInv /\ [Next]_vars => IInv'
  BY TypeStep, HookStep, StampStep, BestStep, ScanStep DEF IInv
<1> QED BY InitInv, <1>1, PTL DEF Spec

\* Once the hooks of a session have ended, its record is the newest any of them
\* set out to write, in whatever order they ended.
THEOREM NewestStands == Spec => []LatestRevStands
<1>1. IInv => LatestRevStands
  BY DEF IInv, BestInv, LatestRevStands
<1> QED BY Inductive, <1>1, PTL

\* A scan that could not make out everything costs no living session its record,
\* and one that could costs only the dead theirs; the TTL is left.
THEOREM ScansSpareTheLiving == Spec => UncertainScansSpareTheLiving
<1>1. ASSUME IInv, [Next]_vars
      PROVE  [\A s \in since \cap Live :
                 records[s] # Absent /\ records'[s] = Absent =>
                   ~scan.authoritative /\ scan.now > records[s].rev + Ttl]_vars
  <2> SUFFICES ASSUME NEW s \in since \cap Live,
                      records[s] # Absent, records'[s] = Absent
               PROVE  ~scan.authoritative /\ scan.now > records[s].rev + Ttl
    OBVIOUS
  <2>0. s \in Sessions
    BY DEF Live
  <2>1. CASE PruneStore
    BY <1>1, <2>0, <2>1
       DEF PruneStore, Prune, Stale, IInv, ScanInv, StoreTypeOK, store, Scans
  <2>2. ASSUME NEW h \in Hooks, RunHook(h) PROVE FALSE
    BY <1>1, <2>0, <2>2, StoreAssumption
       DEF RunHook, Hook, Stamp, Promote, Write, Fail, Newer, IInv, HookInv,
           StoreTypeOK, Records, States
  <2>3. CASE UNCHANGED records
    BY <2>3
  <2> QED
    BY <1>1, <2>1, <2>2, <2>3
       DEF Next, Refresh, Start, End, Fire, Call, Pass, Scan, ReadStore, vars,
           store
<1> QED BY Inductive, <1>1, PTL DEF Spec, UncertainScansSpareTheLiving
====
