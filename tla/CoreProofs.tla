----------------------------- MODULE CoreProofs -----------------------------
(***************************************************************************)
(* What module Core promises, for every number of groups and every         *)
(* capacity of the event channel: its types, that only the two goroutines  *)
(* nobody waits for can send on the closed channel, and that it implements *)
(* CoreService.                                                            *)
(***************************************************************************)
EXTENDS Core, TLAPS

(***************************************************************************)
(* The inductive invariant.                                                *)
(***************************************************************************)
(* How far main has come decides what has already ended. *)
WayDown ==
    /\ main # "groups" => \A g \in Groups : gpc[g] = "done"
    /\ ioOpen <=> main \in {"groups", "completed"}
    /\ main \in {"loops", "close", "end"} => ctxDone
    /\ main \in {"close", "end"} => loops = {}
    /\ closed <=> main = "end"

(* Who is inside emit, and with what: main between the end of the groups and  *)
(* the first deferred call, with the last event; a group while it works; and  *)
(* no one but main with the last event.                                       *)
Speakers ==
    /\ emitting[MainId] # <<>> => main = "completed"
    /\ \A e \in Emitters \ {MainId} :
           emitting[e] # <<>> => emitting[e][1] \in {"log", "notice"}
    /\ \A g \in Groups : emitting[g] # <<>> => gpc[g] = "work"

(* A group that is not off has begun, and one that has begun and could still  *)
(* grant was itself let in: the grants are a prefix of the groups.            *)
Cascade ==
    \A g \in Groups :
        /\ ready[g] # "off" =>
               gpc[g] # "wait" /\ \A k \in 1..(g - 1) : ready[k] = "closed"
        /\ gpc[g] = "work" => \A k \in 1..(g - 1) : ready[k] = "closed"

Inv == TypeOK /\ WayDown /\ Speakers /\ Cascade /\ PanicOnlyUnjoined

-----------------------------------------------------------------------------
(* The initial state has it. *)
LEMMA InitInv == Init => Inv
<1> SUFFICES ASSUME Init PROVE Inv
    OBVIOUS
<1> USE CoreAssumption DEF Init, Groups, Emitters, MainId, TickerId, ConfId
<1>1. events \in Seq(Kinds) /\ Len(events) <= EventCap
    BY DEF Kinds
<1>2. TypeOK
    BY <1>1 DEF TypeOK, MainPlaces
<1>3. WayDown /\ Speakers /\ Cascade
    BY DEF WayDown, Speakers, Cascade
<1> QED
    BY <1>2, <1>3 DEF Inv, PanicOnlyUnjoined

(* What a send on the event channel does: it panics, or it queues the event,  *)
(* or it takes the other way; the types survive and nobody new is inside emit.*)
LEMMA EmitStepInv ==
    ASSUME Inv, NEW e \in Emitters, EmitStep(e) PROVE Inv'
<1> USE CoreAssumption DEF Emitters, MainId, TickerId, ConfId
<1>1. emitting[e] \in Kinds \X Stages /\ emitting[e] # <<>>
    BY DEF Inv, TypeOK, EmitStep, EmitSend, EmitDrain, EmitResend, Idle
<1>2. /\ emitting' \in [Emitters -> {<<>>} \cup (Kinds \X Stages)]
      /\ \A f \in Emitters : emitting'[f] # <<>> =>
             emitting[f] # <<>> /\ emitting'[f][1] = emitting[f][1]
  <2>1. emitting \in [Emitters -> {<<>>} \cup (Kinds \X Stages)]
      BY DEF Inv, TypeOK
  <2>2. \/ emitting' = emitting
        \/ emitting' = [emitting EXCEPT ![e] = <<>>]
        \/ \E st \in Stages : emitting' = [emitting EXCEPT ![e] = <<emitting[e][1], st>>]
      BY <2>1 DEF EmitStep, EmitSend, EmitDrain, EmitResend, SendEvent, Stage, Return, Stages
  <2>3. CASE emitting' = emitting
      BY <2>1, <2>3
  <2>4. CASE emitting' = [emitting EXCEPT ![e] = <<>>]
      BY <2>1, <2>4
  <2>5. ASSUME NEW st \in Stages, emitting' = [emitting EXCEPT ![e] = <<emitting[e][1], st>>]
        PROVE  <1>2!:
    <3>1. <<emitting[e][1], st>> \in Kinds \X Stages
        BY <1>1
    <3> QED
        BY <1>1, <2>1, <2>5, <3>1
  <2> QED
      BY <2>2, <2>3, <2>4, <2>5
<1>3. events' \in Seq(Kinds) /\ Len(events') <= EventCap
  <2>1. events \in Seq(Kinds) /\ Len(events) \in Nat /\ Len(events) <= EventCap
      BY DEF Inv, TypeOK
  <2>2. CASE events' = events
      BY <2>1, <2>2
  <2>3. CASE Len(events) < EventCap /\ events' = Append(events, emitting[e][1])
      BY <1>1, <2>1, <2>3
  <2>4. CASE events # <<>> /\ events' = Tail(events)
      BY <2>1, <2>4
  <2> QED
      BY <2>2, <2>3, <2>4 DEF EmitStep, EmitSend, EmitDrain, EmitResend, SendEvent, HasRoom
<1>4. UNCHANGED <<flow, work, down, closed, client>>
    BY DEF EmitStep, EmitSend, EmitDrain, EmitResend
<1>5. panicked' \subseteq {TickerId, ConfId}
  <2>1. CASE panicked' = panicked
      BY <2>1 DEF Inv, PanicOnlyUnjoined
  <2>2. CASE closed /\ panicked' = {e}
    <3>1. main = "end" /\ \A g \in Groups : gpc[g] = "done"
        BY <2>2 DEF Inv, WayDown
    <3>2. e # MainId /\ e \notin Groups
        BY <1>1, <3>1 DEF Inv, Speakers
    <3> QED
        BY <2>2, <3>2
  <2> QED
      BY <2>1, <2>2 DEF EmitStep, EmitSend, EmitDrain, EmitResend, SendEvent
<1>6. TypeOK'
    BY <1>2, <1>3, <1>4, <1>5 DEF Inv, TypeOK, flow, work, down
<1>7. WayDown' /\ Cascade'
    BY <1>4 DEF Inv, WayDown, Cascade, flow, work, down
<1>8. Speakers'
    BY <1>2, <1>4 DEF Inv, Speakers, work, down, Groups
<1> QED
    BY <1>5, <1>6, <1>7, <1>8 DEF Inv, PanicOnlyUnjoined

(* The goroutines that call emit: each may, and with an event of its own.     *)
LEMMA EmitInv ==
    ASSUME Inv, NEW e \in Emitters, NEW kind \in Kinds, Emit(e, kind),
           e = MainId => main' = "completed",
           e # MainId => kind \in {"log", "notice"},
           e \in Groups => gpc[e] = "work",
           UNCHANGED <<gpc, main>> \/ (UNCHANGED gpc /\ main = "groups")
    PROVE  /\ emitting' \in [Emitters -> {<<>>} \cup (Kinds \X Stages)]
           /\ Speakers'
<1>1. emitting \in [Emitters -> {<<>>} \cup (Kinds \X Stages)]
    BY DEF Inv, TypeOK
<1>2. emitting' = [emitting EXCEPT ![e] = <<kind, "send">>]
    BY DEF Emit
<1>3. <<kind, "send">> \in Kinds \X Stages /\ <<kind, "send">>[1] = kind
    BY DEF Stages
<1>4. \A f \in Emitters : emitting'[f] = IF f = e THEN <<kind, "send">> ELSE emitting[f]
    BY <1>1, <1>2
<1>5. MainId \in Emitters /\ Groups \subseteq Emitters /\ MainId \notin Groups
    BY CoreAssumption DEF Emitters, MainId, Groups
<1>6. Speakers'
    BY <1>3, <1>4, <1>5 DEF Inv, Speakers
<1> QED
    BY <1>1, <1>2, <1>3, <1>6

LEMMA SpeakInv ==
    ASSUME Inv,
           \/ \E g \in Groups : GroupEmits(g)
           \/ Tick \/ ConfReads \/ ConfSetsUp \/ GroupsDone
    PROVE  Inv'
<1>1. /\ {MainId, TickerId, ConfId} \subseteq Emitters /\ Groups \subseteq Emitters
      /\ {MainId, TickerId, ConfId} \cap Groups = {}
      /\ MainId # TickerId /\ MainId # ConfId /\ TickerId # ConfId
      /\ {"log", "notice", "completed"} = Kinds
    BY CoreAssumption DEF Emitters, MainId, TickerId, ConfId, Groups, Kinds
<1>2. ASSUME NEW g \in Groups, GroupEmits(g)
      PROVE  Inv'
  <2>1. PICK kind \in {"log", "notice"} : Emit(g, kind)
      BY <1>2 DEF GroupEmits
  <2>2. gpc[g] = "work" /\ UNCHANGED <<flow, work, down, events, closed, panicked, client>>
      BY <1>2 DEF GroupEmits
  <2>3. /\ emitting' \in [Emitters -> {<<>>} \cup (Kinds \X Stages)]
        /\ Speakers'
      BY <1>1, <2>1, <2>2, EmitInv DEF work, down
  <2> QED
      BY <2>2, <2>3 DEF Inv, TypeOK, WayDown, Cascade, PanicOnlyUnjoined, flow, work, down
<1>3. CASE Tick
  <2>1. /\ Emit(TickerId, "notice")
        /\ UNCHANGED <<flow, work, down, events, closed, panicked, client>>
      BY <1>3 DEF Tick
  <2>2. /\ emitting' \in [Emitters -> {<<>>} \cup (Kinds \X Stages)]
        /\ Speakers'
      BY <1>1, <2>1, EmitInv DEF work, down
  <2> QED
      BY <2>1, <2>2 DEF Inv, TypeOK, WayDown, Cascade, PanicOnlyUnjoined, flow, work, down
<1>4. CASE ConfReads \/ ConfSetsUp
  <2>1. /\ UNCHANGED <<flow, gpc, ready, answered, ticker, down, events, closed, panicked, client>>
        /\ configCh' \in {configCh, "empty"} /\ conf' \in {"setup", "ready", "end"}
        /\ Emit(ConfId, "notice") \/ UNCHANGED emitting
      BY <1>4 DEF ConfReads, ConfSetsUp
  <2>2. /\ emitting' \in [Emitters -> {<<>>} \cup (Kinds \X Stages)]
        /\ Speakers'
    <3>1. CASE Emit(ConfId, "notice")
        BY <1>1, <2>1, <3>1, EmitInv DEF down
    <3>2. CASE UNCHANGED emitting
        BY <2>1, <3>2 DEF Inv, TypeOK, Speakers, down
    <3> QED
        BY <2>1, <3>1, <3>2
  <2> QED
      BY <2>1, <2>2 DEF Inv, TypeOK, WayDown, Cascade, PanicOnlyUnjoined, flow, down
<1>5. CASE GroupsDone
  <2>1. /\ Emit(MainId, "completed") /\ main = "groups" /\ main' = "completed"
        /\ configCh' \in {"full", "closed"}
        /\ \A g \in Groups : gpc[g] = "done"
        /\ UNCHANGED <<flow, gpc, ready, answered, conf, ticker, ioOpen, loops, events,
                       closed, panicked, client>>
      BY <1>5 DEF GroupsDone, Waited
  <2>2. /\ emitting' \in [Emitters -> {<<>>} \cup (Kinds \X Stages)]
        /\ Speakers'
      BY <1>1, <2>1, EmitInv
  <2> QED
      BY <2>1, <2>2
      DEF Inv, TypeOK, WayDown, Cascade, PanicOnlyUnjoined, flow, MainPlaces
<1> QED
    BY <1>2, <1>3, <1>4, <1>5

(* The groups: they begin along the cascade and end when they emit nothing.   *)
LEMMA GroupInv ==
    ASSUME Inv, NEW g \in Groups,
           GroupStarts(g) \/ GroupHasCreds(g) \/ CheckReady(g) \/ SignalReady(g) \/ GroupEnds(g)
    PROVE  Inv'
<1>1. UNCHANGED <<flow, configCh, answered, conf, ticker, down, chan>>
    BY DEF GroupStarts, GroupHasCreds, CheckReady, SignalReady, GroupEnds
<1>2. g \in Nat \ {0} /\ \A k \in 1..(g - 1) : k \in Groups
    BY CoreAssumption DEF Groups
<1>3. ready \in [Groups -> {"off", "armed", "passing", "closed", "dropped"}]
      /\ gpc \in [Groups -> {"wait", "work", "done"}]
    BY DEF Inv, TypeOK
<1>4. CASE GroupStarts(g)
  <2>1. gpc[g] = "wait" /\ gpc' = [gpc EXCEPT ![g] = "work"] /\ UNCHANGED ready
      BY <1>4 DEF GroupStarts
  <2>2. \A k \in 1..(g - 1) : ready[k] = "closed"
    <3>1. CASE g = 1
        BY <3>1
    <3>2. CASE g # 1
      <4>1. g - 1 \in Groups /\ ready[g - 1] = "closed"
          BY <1>2, <1>4, <3>2 DEF GroupStarts, MayStart
      <4>2. \A k \in 1..(g - 1 - 1) : ready[k] = "closed"
          BY <4>1 DEF Inv, Cascade
      <4> QED
          BY <1>2, <4>1, <4>2
    <3> QED
        BY <3>1, <3>2
  <2>3. Cascade'
      BY <1>3, <2>1, <2>2 DEF Inv, Cascade
  <2>4. main = "groups"
      BY <2>1 DEF Inv, WayDown
  <2> QED
      BY <1>1, <1>3, <2>1, <2>3, <2>4
      DEF Inv, TypeOK, WayDown, Speakers, PanicOnlyUnjoined, flow, down, chan
<1>5. CASE GroupHasCreds(g) \/ CheckReady(g) \/ SignalReady(g)
  <2>1. PICK r \in {"armed", "dropped", "passing", "closed"} : ready' = [ready EXCEPT ![g] = r]
      BY <1>5 DEF GroupHasCreds, CheckReady, SignalReady
  <2>2. UNCHANGED gpc /\ ready[g] # "closed"
        /\ (ready[g] = "off" => gpc[g] = "work")
      BY <1>5 DEF GroupHasCreds, CheckReady, SignalReady
  <2>3. Cascade'
      BY <1>3, <2>1, <2>2 DEF Inv, Cascade
  <2> QED
      BY <1>1, <1>3, <2>1, <2>2, <2>3
      DEF Inv, TypeOK, WayDown, Speakers, PanicOnlyUnjoined, flow, down, chan
<1>6. CASE GroupEnds(g)
  <2>1. gpc' = [gpc EXCEPT ![g] = "done"] /\ UNCHANGED ready
      BY <1>6 DEF GroupEnds
  <2>2. emitting[g] = <<>>
      BY <1>6 DEF GroupEnds, Idle, Inv, Speakers
  <2>3. Cascade'
      BY <1>3, <2>1 DEF Inv, Cascade
  <2> QED
      BY <1>1, <1>3, <2>1, <2>2, <2>3
      DEF Inv, TypeOK, WayDown, Speakers, PanicOnlyUnjoined, flow, down, chan
<1> QED
    BY <1>4, <1>5, <1>6

(* The rest of main, the dispatcher's loops, the other goroutines, the caller.*)
LEMMA DownInv ==
    ASSUME Inv,
           CloseIO \/ Cancel \/ LoopsDone \/ CloseEvents \/ ReadLoopEnds \/ WriteLoopEnds
    PROVE  Inv'
<1>1. CASE CloseIO
  <2>1. /\ main = "completed" /\ main' = "cancel" /\ ioOpen' = FALSE /\ emitting[MainId] = <<>>
        /\ UNCHANGED <<raw, ctxDone, shutdown, work, loops, chan>>
      BY <1>1 DEF CloseIO, Idle, flow
  <2>2. TypeOK'
      BY <2>1 DEF Inv, TypeOK, work, chan, MainPlaces
  <2>3. WayDown'
      BY <2>1 DEF Inv, WayDown, work, chan
  <2> QED
      BY <2>1, <2>2, <2>3 DEF Inv, Speakers, Cascade, PanicOnlyUnjoined, work, chan
<1>2. CASE Cancel
    BY <1>2 DEF Cancel, Inv, TypeOK, WayDown, Speakers, Cascade, PanicOnlyUnjoined,
                MainPlaces, work, chan
<1>3. CASE LoopsDone
    BY <1>3 DEF LoopsDone, Inv, TypeOK, WayDown, Speakers, Cascade, PanicOnlyUnjoined,
                MainPlaces, flow, work, chan
<1>4. CASE CloseEvents
  <2>1. /\ main = "close" /\ main' = "end" /\ closed' = TRUE
        /\ UNCHANGED <<flow, work, ioOpen, loops, events, emitting, panicked, client>>
      BY <1>4 DEF CloseEvents
  <2>2. TypeOK'
      BY <2>1 DEF Inv, TypeOK, flow, work, MainPlaces
  <2>3. WayDown'
      BY <2>1 DEF Inv, WayDown, flow, work
  <2> QED
      BY <2>1, <2>2, <2>3 DEF Inv, Speakers, Cascade, PanicOnlyUnjoined, work
<1>5. CASE ReadLoopEnds \/ WriteLoopEnds
  <2>1. /\ loops' \subseteq loops
        /\ UNCHANGED <<flow, work, main, ioOpen, chan>>
      BY <1>5 DEF ReadLoopEnds, WriteLoopEnds
  <2>2. TypeOK'
      BY <2>1 DEF Inv, TypeOK, flow, work, chan
  <2>3. WayDown'
      BY <2>1 DEF Inv, WayDown, flow, work, chan
  <2> QED
      BY <2>1, <2>2, <2>3 DEF Inv, Speakers, Cascade, PanicOnlyUnjoined, work, chan
<1> QED
    BY <1>1, <1>2, <1>3, <1>4, <1>5

LEMMA RestInv ==
    ASSUME Inv,
           \/ GroupConfig \/ CloseShutdownCh \/ TickerEnds \/ ConfEnds
           \/ ClientReads \/ ClientStops
    PROVE  Inv'
<1>1. CASE GroupConfig \/ TickerEnds \/ ConfEnds
  <2>1. /\ UNCHANGED <<flow, gpc, ready, down, chan>>
        /\ configCh' \in {configCh, "full"} /\ (answered' = answered \/ answered' = TRUE)
        /\ conf' \in {conf, "end"} /\ ticker' \in {ticker, "end"}
      BY <1>1 DEF GroupConfig, TickerEnds, ConfEnds
  <2>2. answered' \in BOOLEAN
      BY <2>1 DEF Inv, TypeOK
  <2>3. TypeOK'
      BY <2>1, <2>2 DEF flow, down, chan, Inv, TypeOK
  <2>4. WayDown'
      BY <2>1 DEF Inv, WayDown, flow, down, chan
  <2> QED
      BY <2>1, <2>3, <2>4 DEF Inv, Speakers, Cascade, PanicOnlyUnjoined, down, chan
<1>2. CASE CloseShutdownCh \/ ClientStops
  <2>1. /\ ctxDone => ctxDone'
        /\ client' \in {client, "gone"}
        /\ UNCHANGED <<raw, work, down, events, closed, emitting, panicked>>
      BY <1>2 DEF CloseShutdownCh, ClientStops, chan
  <2>2. ctxDone' \in BOOLEAN /\ shutdown' \in BOOLEAN
      BY <1>2 DEF CloseShutdownCh, ClientStops, Inv, TypeOK
  <2>3. TypeOK'
      BY <2>1, <2>2 DEF work, down, Inv, TypeOK
  <2>4. WayDown'
      BY <2>1 DEF Inv, WayDown, work, down
  <2> QED
      BY <2>1, <2>3, <2>4 DEF Inv, Speakers, Cascade, PanicOnlyUnjoined, work, down
<1>3. CASE ClientReads
  <2>1. events' \in Seq(Kinds) /\ Len(events') <= EventCap
    <3>1. events \in Seq(Kinds) /\ Len(events) \in Nat /\ Len(events) <= EventCap
        BY DEF Inv, TypeOK
    <3>2. events' = events \/ (events # <<>> /\ events' = Tail(events))
        BY <1>3 DEF ClientReads
    <3> QED
        BY <3>1, <3>2, CoreAssumption
  <2>2. /\ UNCHANGED <<flow, work, down, closed, emitting, panicked>>
        /\ client' \in {"reads", "gone"}
      BY <1>3 DEF ClientReads
  <2> QED
      BY <2>1, <2>2 DEF flow, work, down,
                Inv, TypeOK, WayDown, Speakers, Cascade, PanicOnlyUnjoined
<1> QED
    BY <1>1, <1>2, <1>3

LEMMA NextInv == Inv /\ [Next]_vars => Inv'
<1> SUFFICES ASSUME Inv, [Next]_vars PROVE Inv'
    OBVIOUS
<1>1. CASE UNCHANGED vars
    BY <1>1 DEF vars, flow, work, down, chan,
                Inv, TypeOK, WayDown, Speakers, Cascade, PanicOnlyUnjoined
<1>2. CASE Next
    BY <1>2, EmitStepInv, SpeakInv, GroupInv, DownInv, RestInv DEF Next, Main
<1> QED
    BY <1>1, <1>2

(* The inductive invariant holds throughout. *)
THEOREM Invariance == Spec => []Inv
    BY InitInv, NextInv, PTL DEF Spec

(* Every variable keeps its type; in particular emit never puts more into     *)
(* c.events than its capacity.                                                *)
THEOREM TypeCorrect == Spec => []TypeOK
<1>1. Inv => TypeOK
    BY DEF Inv
<1> QED
    BY <1>1, Invariance, PTL

(* Whatever the number of groups and the size of the channel, a send on the   *)
(* closed channel comes only from the ticker or the config reader.            *)
THEOREM OnlyUnjoinedPanic == Spec => []PanicOnlyUnjoined
<1>1. Inv => PanicOnlyUnjoined
    BY DEF Inv
<1> QED
    BY <1>1, Invariance, PTL

-----------------------------------------------------------------------------
(***************************************************************************)
(* Core implements CoreService.  The mapping reads granted off ready and   *)
(* running off loops and ioOpen; a step that leaves those, gpc, ctxDone,   *)
(* events, closed and panicked alone is a stutter of the service.          *)
(***************************************************************************)
Seen == <<gpc, ready, ctxDone, loops, ioOpen, events, closed, panicked>>

LEMMA StutterMaps == UNCHANGED Seen => UNCHANGED Service!vars
    BY DEF Seen, Service!vars

LEMMA InitMaps == Init => Service!Init
<1> SUFFICES ASSUME Init PROVE Service!Init
    OBVIOUS
<1>1. {g \in Groups : ready[g] \in {"passing", "closed"}} = {}
    BY DEF Init
<1>2. loops \cup (IF ioOpen THEN {"io"} ELSE {}) = {"io", "read", "write"}
    BY DEF Init
<1>3. events \in Seq(Kinds \ {"completed"})
    BY DEF Init, Kinds
<1> QED
    BY <1>1, <1>2, <1>3 DEF Init, Service!Init, Service!Groups, Groups

(* A group begins, grants and ends. *)
LEMMA GroupMaps ==
    ASSUME Inv, NEW g \in Groups,
           GroupStarts(g) \/ GroupHasCreds(g) \/ CheckReady(g) \/ SignalReady(g) \/ GroupEnds(g)
    PROVE  [Service!Next]_Service!vars
<1>1. ready \in [Groups -> {"off", "armed", "passing", "closed", "dropped"}]
    BY DEF Inv, TypeOK
<1>2. /\ UNCHANGED <<ctxDone, loops, ioOpen, events, closed, panicked>>
      /\ Service!Groups = Groups
    BY DEF GroupStarts, GroupHasCreds, CheckReady, SignalReady, GroupEnds, flow, down, chan,
           Service!Groups, Groups
<1>3. CASE GroupStarts(g)
  <2>1. gpc[g] = "wait" /\ gpc' = [gpc EXCEPT ![g] = "work"] /\ UNCHANGED ready
      BY <1>3 DEF GroupStarts
  <2>2. Inv'
      BY <1>3, GroupInv
  <2>3. gpc'[g] = "work"
      BY <2>1 DEF Inv, TypeOK
  <2>4. \A k \in 1..(g - 1) : k \in Groups /\ ready[k] = "closed"
      BY <2>1, <2>2, <2>3, CoreAssumption DEF Inv, Cascade, Groups
  <2>5. Service!Begin(g)
      BY <1>2, <2>1, <2>4 DEF Service!Begin
  <2> QED
      BY <1>2, <2>5 DEF Service!Next
<1>4. CASE GroupHasCreds(g)
  <2>1. {h \in Groups : ready'[h] \in {"passing", "closed"}} = {h \in Groups : ready[h] \in {"passing", "closed"}}
      BY <1>1, <1>4 DEF GroupHasCreds
  <2>2. UNCHANGED gpc
      BY <1>4 DEF GroupHasCreds
  <2> QED
      BY <1>2, <2>1, <2>2 DEF Service!vars
<1>5. CASE CheckReady(g)
  <2>1. UNCHANGED gpc /\ ready[g] = "armed" /\ gpc[g] # "wait"
      BY <1>5 DEF CheckReady, Inv, Cascade
  <2>2. CASE ctxDone
    <3>1. {h \in Groups : ready'[h] \in {"passing", "closed"}}
            = {h \in Groups : ready[h] \in {"passing", "closed"}}
        BY <1>1, <1>5, <2>2 DEF CheckReady
    <3> QED
        BY <1>2, <2>1, <3>1 DEF Service!vars
  <2>3. CASE ~ctxDone
    <3>1. {h \in Groups : ready'[h] \in {"passing", "closed"}}
            = {h \in Groups : ready[h] \in {"passing", "closed"}} \cup {g}
        BY <1>1, <1>5, <2>3 DEF CheckReady
    <3>2. Service!Grant(g)
        BY <1>2, <2>1, <2>3, <3>1 DEF Service!Grant
    <3> QED
        BY <1>2, <3>2 DEF Service!Next
  <2> QED
      BY <2>2, <2>3
<1>7. CASE SignalReady(g)
  <2>1. {h \in Groups : ready'[h] \in {"passing", "closed"}}
          = {h \in Groups : ready[h] \in {"passing", "closed"}}
      BY <1>1, <1>7 DEF SignalReady
  <2>2. UNCHANGED gpc
      BY <1>7 DEF SignalReady
  <2> QED
      BY <1>2, <2>1, <2>2 DEF Service!vars
<1>6. CASE GroupEnds(g)
  <2>1. Service!End(g)
      BY <1>2, <1>6 DEF GroupEnds, Service!End
  <2> QED
      BY <1>2, <2>1 DEF Service!Next
<1> QED
    BY <1>3, <1>4, <1>5, <1>6, <1>7

(* An event is queued, displaced, dropped, or kills the process. *)
LEMMA EmitMaps ==
    ASSUME Inv, Alive, NEW e \in Emitters, EmitStep(e)
    PROVE  [Service!Next]_Service!vars
<1>1. UNCHANGED <<gpc, ready, ctxDone, loops, ioOpen, closed>>
    BY DEF EmitStep, EmitSend, EmitDrain, EmitResend, flow, work, down
<1>2. emitting[e] \in Kinds \X Stages /\ emitting[e] # <<>>
    BY DEF Inv, TypeOK, EmitStep, EmitSend, EmitDrain, EmitResend, Idle
<1>3. \/ UNCHANGED <<events, panicked>>
      \/ closed /\ panicked' = {e} /\ UNCHANGED events
      \/ ~closed /\ events' = Append(events, emitting[e][1]) /\ UNCHANGED panicked
      \/ events # <<>> /\ events' = Tail(events) /\ UNCHANGED panicked
    BY DEF EmitStep, EmitSend, EmitDrain, EmitResend, SendEvent
<1>4. CASE UNCHANGED <<events, panicked>>
    BY <1>1, <1>4, StutterMaps DEF Seen
<1>5. CASE closed /\ panicked' = {e} /\ UNCHANGED events
  <2>1. Service!Crash
      BY <1>1, <1>5 DEF Service!Crash, Alive
  <2> QED
      BY <2>1 DEF Service!Next
<1>6. CASE ~closed /\ events' = Append(events, emitting[e][1]) /\ UNCHANGED panicked
  <2>1. emitting[e][1] = "completed" => \A g \in Groups : gpc[g] = "done"
      BY <1>2 DEF Inv, Speakers, WayDown
  <2>2. Service!Post(emitting[e][1])
      BY <1>1, <1>6, <2>1 DEF Service!Post, Service!Over, Service!Groups, Groups
  <2> QED
      BY <1>2, <2>2 DEF Service!Next
<1>7. CASE events # <<>> /\ events' = Tail(events) /\ UNCHANGED panicked
  <2>1. Service!Take
      BY <1>1, <1>7 DEF Service!Take
  <2> QED
      BY <2>1 DEF Service!Next
<1> QED
    BY <1>3, <1>4, <1>5, <1>6, <1>7

(* The stop, the services and the end of the channel. *)
LEMMA DownMaps ==
    ASSUME Inv,
           \/ CloseIO \/ Cancel \/ LoopsDone \/ CloseEvents
           \/ ReadLoopEnds \/ WriteLoopEnds \/ ClientStops
    PROVE  [Service!Next]_Service!vars
<1>1. /\ UNCHANGED <<gpc, ready, events, panicked>>
      /\ loops \subseteq {"read", "write"}
    BY DEF CloseIO, Cancel, LoopsDone, CloseEvents, ReadLoopEnds, WriteLoopEnds, ClientStops,
           work, chan, Inv, TypeOK
<1>2. CASE CloseIO
  <2>1. ioOpen /\ ~ioOpen' /\ UNCHANGED <<ctxDone, loops, closed>>
        /\ \A g \in Groups : gpc[g] = "done"
      BY <1>2 DEF CloseIO, flow, chan, Inv, WayDown
  <2>2. "io" \in loops \cup (IF ioOpen THEN {"io"} ELSE {})
        /\ loops' \cup (IF ioOpen' THEN {"io"} ELSE {})
               = (loops \cup (IF ioOpen THEN {"io"} ELSE {})) \ {"io"}
      BY <1>1, <2>1
  <2>3. Service!Quit("io")
      BY <1>1, <2>1, <2>2 DEF Service!Quit, Service!Over, Service!Groups, Groups
  <2> QED
      BY <2>3 DEF Service!Next
<1>3. CASE Cancel \/ ClientStops
  <2>1. ctxDone' /\ UNCHANGED <<loops, ioOpen, closed>>
      BY <1>3 DEF Cancel, ClientStops, chan, down
  <2>2. CASE ctxDone
    <3>1. ctxDone' = ctxDone
        BY <1>3, <2>2 DEF Cancel, ClientStops, Inv, TypeOK
    <3> QED
        BY <1>1, <2>1, <3>1, StutterMaps DEF Seen
  <2>3. CASE ~ctxDone
    <3>1. Service!Stop
        BY <1>1, <1>3, <2>1, <2>3 DEF Service!Stop, Cancel, ClientStops
    <3> QED
        BY <3>1 DEF Service!Next
  <2> QED
      BY <2>2, <2>3
<1>4. CASE LoopsDone
    BY <1>1, <1>4, StutterMaps DEF LoopsDone, Seen, flow, chan
<1>5. CASE CloseEvents
  <2>1. /\ closed' = TRUE /\ ~closed /\ ctxDone /\ loops = {} /\ ~ioOpen
        /\ \A g \in Groups : gpc[g] = "done"
        /\ UNCHANGED <<ctxDone, loops, ioOpen>>
      BY <1>5 DEF CloseEvents, Inv, WayDown, flow
  <2>2. loops \cup (IF ioOpen THEN {"io"} ELSE {}) = {}
      BY <2>1
  <2>3. Service!Close
      BY <1>1, <2>1, <2>2 DEF Service!Close, Service!Over, Service!Groups, Groups
  <2> QED
      BY <2>3 DEF Service!Next
<1>6. ASSUME NEW s \in {"read", "write"}, s \in loops, ctxDone, loops' = loops \ {s},
             UNCHANGED <<ctxDone, ioOpen, closed>>
      PROVE  Service!Next
  <2>1. s \in loops \cup (IF ioOpen THEN {"io"} ELSE {})
        /\ loops' \cup (IF ioOpen' THEN {"io"} ELSE {})
               = (loops \cup (IF ioOpen THEN {"io"} ELSE {})) \ {s}
      BY <1>6
  <2>2. Service!Quit(s)
      BY <1>1, <1>6, <2>1 DEF Service!Quit
  <2> QED
      BY <2>2 DEF Service!Next
<1>7. CASE ReadLoopEnds
    BY <1>6, <1>7 DEF ReadLoopEnds, flow, chan
<1>8. CASE WriteLoopEnds
    BY <1>6, <1>8 DEF WriteLoopEnds, flow, chan
<1> QED
    BY <1>2, <1>3, <1>4, <1>5, <1>7, <1>8

(* The other goroutines do nothing the service speaks of; the caller takes.   *)
LEMMA RestMaps ==
    ASSUME Inv,
           \/ \E g \in Groups : GroupEmits(g)
           \/ GroupConfig \/ CloseShutdownCh \/ Tick \/ TickerEnds
           \/ ConfReads \/ ConfSetsUp \/ ConfEnds \/ GroupsDone \/ ClientReads
    PROVE  [Service!Next]_Service!vars
<1>1. CASE ClientReads /\ events # <<>>
  <2>1. Service!Take
      BY <1>1 DEF ClientReads, Service!Take, flow, work, down
  <2> QED
      BY <2>1 DEF Service!Next
<1>2. CASE ClientReads /\ events = <<>>
    BY <1>2, StutterMaps DEF ClientReads, Seen, flow, work, down
<1>3. CASE \/ \E g \in Groups : GroupEmits(g)
           \/ GroupConfig \/ CloseShutdownCh \/ Tick \/ TickerEnds
           \/ ConfReads \/ ConfSetsUp \/ ConfEnds \/ GroupsDone
  <2>1. UNCHANGED Seen
      BY <1>3 DEF GroupEmits, GroupConfig, CloseShutdownCh, Tick, TickerEnds, ConfReads,
                  ConfSetsUp, ConfEnds, GroupsDone, Seen, flow, work, down, chan
  <2> QED
      BY <2>1, StutterMaps
<1> QED
    BY <1>1, <1>2, <1>3

LEMMA NextMaps == Inv /\ [Next]_vars => [Service!Next]_Service!vars
<1> SUFFICES ASSUME Inv, [Next]_vars PROVE [Service!Next]_Service!vars
    OBVIOUS
<1>1. CASE UNCHANGED vars
    BY <1>1, StutterMaps DEF vars, flow, work, down, chan, Seen
<1>2. CASE Next
    BY <1>2, GroupMaps, EmitMaps, DownMaps, RestMaps DEF Next, Main
<1> QED
    BY <1>1, <1>2

(* Core implements CoreService, for any number of groups and any capacity:    *)
(* events is closed only after every group, both loops and the socket have    *)
(* ended and ctx is cancelled; groups begin in order; workers_completed       *)
(* follows all of them; only a send after the close can crash.                *)
THEOREM Implementation == Spec => ImplementsService
    BY InitMaps, NextMaps, Invariance, PTL DEF Spec, ImplementsService, Service!Spec
=============================================================================
