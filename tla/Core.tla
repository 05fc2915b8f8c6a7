-------------------------------- MODULE Core --------------------------------
(***************************************************************************)
(* internal/core/core.go: Core.Start and the goroutines it leaves running, *)
(* the event channel they share, and the way down.                         *)
(*   groups   one WorkerGroup each, started in a cascade (module           *)
(*            WorkerGroup shows one group from inside)                      *)
(*   ticker   a statistics event every 3 s                                 *)
(*   conf     reads one configuration and announces it                     *)
(*   main     waits for the groups, then runs Start's deferred calls       *)
(*   readLoop and writeLoop of the dispatcher                              *)
(*   client   the caller (connect.go), which reads the events              *)
(* emit is not atomic: its three channel operations are steps of their own.*)
(***************************************************************************)
EXTENDS Integers, Sequences

CONSTANTS NumGroups,  \* numGroups
          EventCap    \* capacity of c.events (256 in the code)

ASSUME CoreAssumption == NumGroups \in Nat \ {0} /\ EventCap \in Nat \ {0}

VARIABLES
    raw,       \* cfg.RawMode
    ctxDone,   \* ctx is cancelled
    shutdown,  \* shutdownCh is closed
    gpc,       \* group: "wait" for the previous one, "work", "done"
    ready,     \* its signalReady goroutine: "off", "armed", "passing", "closed", "dropped"
    configCh,  \* "empty", "full" or "closed"
    answered,  \* a session of group 1 got the configuration
    conf,      \* config reader: "select", "setup", "ready" or "end"
    ticker,    \* stats goroutine: "select" or "end"
    main,      \* see MainPlaces
    ioOpen,    \* localConn or the TUN is open
    loops,     \* the dispatcher's loops that still run
    events,    \* c.events
    closed,    \* c.events is closed
    emitting,  \* emitter -> <<>>, or <<event, stage>> inside emit
    panicked,  \* the emitter that sent on the closed channel, if any
    client     \* "reads" or "gone"

flow  == <<raw, ctxDone, shutdown>>
work  == <<gpc, ready, configCh, answered, conf, ticker>>
down  == <<main, ioOpen, loops>>
chan  == <<events, closed, emitting, panicked, client>>
vars  == <<flow, work, down, chan>>

Groups     == 1..NumGroups
MainId     == 0
TickerId   == -1
ConfId     == -2
Emitters   == {MainId, TickerId, ConfId} \cup Groups
Kinds      == {"log", "notice", "completed"}  \* the last is workers_completed
Stages     == {"send", "drain", "resend"}
MainPlaces == {"groups", "completed", "cancel", "loops", "close", "end"}
Idle(e)    == emitting[e] = <<>>

(* The state in which Start returns: its own "connecting" event is queued. *)
Init ==
    /\ raw \in BOOLEAN /\ ctxDone = FALSE /\ shutdown = FALSE
    /\ gpc = [g \in Groups |-> "wait"] /\ ready = [g \in Groups |-> "off"]
    /\ configCh = "empty" /\ answered = FALSE /\ conf = "select" /\ ticker = "select"
    /\ main = "groups" /\ ioOpen = TRUE /\ loops = {"read", "write"}
    /\ events = <<"notice">> /\ closed = FALSE
    /\ emitting = [e \in Emitters |-> <<>>] /\ panicked = {} /\ client = "reads"

(***************************************************************************)
(* emit: a non-blocking send; if the channel is full, anything but a log   *)
(* line takes one entry out and tries once more.                           *)
(***************************************************************************)
Emit(e, kind) == emitting' = [emitting EXCEPT ![e] = <<kind, "send">>]
Stage(e, st)  == emitting' = [emitting EXCEPT ![e] = <<@[1], st>>]
Return(e)     == emitting' = [emitting EXCEPT ![e] = <<>>]

(* mutant: no bound *)
HasRoom_Always == TRUE

HasRoom == Len(events) < EventCap

SendEvent(e, otherwise) ==
    IF closed THEN panicked' = {e} /\ UNCHANGED <<events, emitting>>
    ELSE /\ IF HasRoom
            THEN events' = Append(events, emitting[e][1]) /\ Return(e)
            ELSE otherwise /\ UNCHANGED events
         /\ UNCHANGED panicked

EmitSend(e) ==
    /\ ~Idle(e) /\ emitting[e][2] = "send"
    /\ SendEvent(e, IF emitting[e][1] = "log" THEN Return(e) ELSE Stage(e, "drain"))
    /\ UNCHANGED <<flow, work, down, closed, client>>

EmitDrain(e) ==
    /\ ~Idle(e) /\ emitting[e][2] = "drain"
    /\ events' = IF events = <<>> THEN <<>> ELSE Tail(events)
    /\ Stage(e, "resend")
    /\ UNCHANGED <<flow, work, down, closed, panicked, client>>

EmitResend(e) ==
    /\ ~Idle(e) /\ emitting[e][2] = "resend"
    /\ SendEvent(e, Return(e))
    /\ UNCHANGED <<flow, work, down, closed, client>>

EmitStep(e) == EmitSend(e) \/ EmitDrain(e) \/ EmitResend(e)

(***************************************************************************)
(* The groups.                                                             *)
(***************************************************************************)
(* The first group has nobody to wait for. *)
MayStart(g) == \A h \in Groups : h = g - 1 => ready[h] = "closed"

GroupStarts(g) ==
    /\ gpc[g] = "wait" /\ MayStart(g)
    /\ gpc' = [gpc EXCEPT ![g] = "work"]
    /\ UNCHANGED <<flow, ready, configCh, answered, conf, ticker, down, chan>>

(* Credentials came; the last group has no signalReady. *)
GroupHasCreds(g) ==
    /\ gpc[g] = "work" /\ ready[g] = "off" /\ Idle(g)
    /\ ready' = [ready EXCEPT ![g] = IF g < NumGroups THEN "armed" ELSE "dropped"]
    /\ UNCHANGED <<flow, gpc, configCh, answered, conf, ticker, down, chan>>

CheckReady(g) ==
    /\ ready[g] = "armed"
    /\ ready' = [ready EXCEPT ![g] = IF ctxDone THEN "dropped" ELSE "passing"]
    /\ UNCHANGED <<flow, gpc, configCh, answered, conf, ticker, down, chan>>

(* whatever became of the context since the check *)
SignalReady(g) ==
    /\ ready[g] = "passing"
    /\ ready' = [ready EXCEPT ![g] = "closed"]
    /\ UNCHANGED <<flow, gpc, configCh, answered, conf, ticker, down, chan>>

(* GetCreds logs ("log") and asks for captchas ("notice") through emit. *)
GroupEmits(g) ==
    /\ gpc[g] = "work" /\ Idle(g)
    /\ \E kind \in {"log", "notice"} : Emit(g, kind)
    /\ UNCHANGED <<flow, work, down, events, closed, panicked, client>>

(* A session of the first group gets the configuration. *)
GroupConfig ==
    /\ gpc[1] = "work" /\ ready[1] # "off" /\ ~answered
    /\ answered' = TRUE /\ configCh' = "full"
    /\ UNCHANGED <<flow, gpc, ready, conf, ticker, down, chan>>

(* A group ends when it is cancelled, when its credentials are refused or     *)
(* when all its workers gave up.                                              *)
GroupEnds(g) ==
    /\ \/ gpc[g] = "work" /\ Idle(g)
       \/ gpc[g] = "wait" /\ ctxDone
    /\ gpc' = [gpc EXCEPT ![g] = "done"]
    /\ UNCHANGED <<flow, ready, configCh, answered, conf, ticker, down, chan>>

(***************************************************************************)
(* The other goroutines of Start.                                          *)
(***************************************************************************)
CloseShutdownCh ==
    /\ ctxDone /\ ~shutdown /\ shutdown' = TRUE
    /\ UNCHANGED <<raw, ctxDone, work, down, chan>>

Tick ==
    /\ ticker = "select" /\ Idle(TickerId)
    /\ Emit(TickerId, "notice")
    /\ UNCHANGED <<flow, work, down, events, closed, panicked, client>>

TickerEnds ==
    /\ ticker = "select" /\ Idle(TickerId) /\ shutdown
    /\ ticker' = "end"
    /\ UNCHANGED <<flow, gpc, ready, configCh, answered, conf, down, chan>>

(* one configuration: setupRawTUN and two events, or one event *)
ConfReads ==
    /\ conf = "select" /\ configCh = "full"
    /\ configCh' = "empty"
    /\ IF raw THEN conf' = "setup" /\ UNCHANGED emitting
       ELSE conf' = "end" /\ Emit(ConfId, "notice")
    /\ UNCHANGED <<flow, gpc, ready, answered, ticker, down, events, closed, panicked, client>>

ConfSetsUp ==
    /\ conf \in {"setup", "ready"} /\ Idle(ConfId)
    /\ IF conf = "setup" THEN conf' = "ready" /\ Emit(ConfId, "notice")
       ELSE conf' = "end" /\ Emit(ConfId, "notice")
    /\ UNCHANGED <<flow, gpc, ready, configCh, answered, ticker, down, events, closed, panicked, client>>

ConfEnds ==
    /\ conf = "select" /\ (configCh = "closed" \/ ctxDone)
    /\ conf' = "end"
    /\ UNCHANGED <<flow, gpc, ready, configCh, answered, ticker, down, chan>>

(***************************************************************************)
(* main: wg.Wait, close(configCh), the last event, then the deferred calls,*)
(* last first: the socket or TUN, cancel, disp.Shutdown, close(c.events).  *)
(***************************************************************************)
(* mutant: wg.Add misses the later groups *)
Waited_First == {1}

Waited == Groups

GroupsDone ==
    /\ main = "groups" /\ \A g \in Waited : gpc[g] = "done"
    /\ main' = "completed" /\ configCh' = IF configCh = "full" THEN "full" ELSE "closed"
    /\ Emit(MainId, "completed")
    /\ UNCHANGED <<flow, gpc, ready, answered, conf, ticker, ioOpen, loops, events, closed, panicked, client>>

(* mutant: the socket stays open *)
CloseIO_Leaks ==
    /\ main = "completed" /\ Idle(MainId)
    /\ main' = "cancel"
    /\ UNCHANGED <<flow, work, ioOpen, loops, chan>>

CloseIO ==
    /\ main = "completed" /\ Idle(MainId)
    /\ main' = "cancel" /\ ioOpen' = FALSE
    /\ UNCHANGED <<flow, work, loops, chan>>

Cancel ==
    /\ main = "cancel"
    /\ main' = "loops" /\ ctxDone' = TRUE
    /\ UNCHANGED <<raw, shutdown, work, ioOpen, loops, chan>>

(* mutant: Shutdown only cancels *)
LoopsDone_NoWait ==
    /\ main = "loops" /\ main' = "close"
    /\ UNCHANGED <<flow, work, ioOpen, loops, chan>>

(* disp.Shutdown waits for both loops *)
LoopsDone ==
    /\ main = "loops" /\ loops = {}
    /\ main' = "close"
    /\ UNCHANGED <<flow, work, ioOpen, loops, chan>>

CloseEvents ==
    /\ main = "close"
    /\ main' = "end" /\ closed' = TRUE
    /\ UNCHANGED <<flow, work, ioOpen, loops, events, emitting, panicked, client>>

Main == GroupsDone \/ CloseIO \/ Cancel \/ LoopsDone \/ CloseEvents

(* readLoop is blocked in a read until a packet comes or its source is closed *)
ReadLoopEnds ==
    /\ "read" \in loops /\ ctxDone
    /\ loops' = loops \ {"read"}
    /\ UNCHANGED <<flow, work, main, ioOpen, chan>>

WriteLoopEnds ==
    /\ "write" \in loops /\ ctxDone
    /\ loops' = loops \ {"write"}
    /\ UNCHANGED <<flow, work, main, ioOpen, chan>>

(***************************************************************************)
(* The caller: it reads events until "completed", the end of the channel   *)
(* or a reason of its own to call Stop and leave.                          *)
(***************************************************************************)
ClientReads ==
    /\ client = "reads"
    /\ IF events # <<>>
       THEN /\ events' = Tail(events)
            /\ client' = IF Head(events) = "completed" THEN "gone" ELSE "reads"
       ELSE closed /\ client' = "gone" /\ UNCHANGED events
    /\ UNCHANGED <<flow, work, down, closed, emitting, panicked>>

ClientStops ==
    /\ client = "reads" /\ client' = "gone" /\ ctxDone' = TRUE
    /\ UNCHANGED <<raw, shutdown, work, down, events, closed, emitting, panicked>>

Alive == panicked = {}

Next ==
    /\ Alive
    /\ \/ \E e \in Emitters : EmitStep(e)
       \/ \E g \in Groups : \/ GroupStarts(g) \/ GroupHasCreds(g)
                            \/ CheckReady(g) \/ SignalReady(g) \/ GroupEmits(g) \/ GroupEnds(g)
       \/ GroupConfig \/ CloseShutdownCh \/ Tick \/ TickerEnds
       \/ ConfReads \/ ConfSetsUp \/ ConfEnds
       \/ Main \/ ReadLoopEnds \/ WriteLoopEnds \/ ClientReads \/ ClientStops

Spec == Init /\ [][Next]_vars

(* Goroutines run.  A group ends once its context is cancelled                *)
(* (WorkerGroup!GroupStops); nothing else obliges it to.  The caller keeps    *)
(* reading.  readLoop is sure to wake only when its source is closed.         *)
Fairness ==
    /\ \A e \in Emitters : WF_vars(Alive /\ EmitStep(e))
    /\ \A g \in Groups : SF_vars(Alive /\ ctxDone /\ GroupEnds(g))
    /\ WF_vars(Alive /\ CloseShutdownCh) /\ SF_vars(Alive /\ TickerEnds)
    /\ WF_vars(Alive /\ (ConfReads \/ ConfSetsUp \/ ConfEnds))
    /\ WF_vars(Alive /\ Main) /\ WF_vars(Alive /\ WriteLoopEnds)
    /\ WF_vars(Alive /\ ~ioOpen /\ ReadLoopEnds) /\ WF_vars(Alive /\ ClientReads)

FairSpec == Spec /\ Fairness

-----------------------------------------------------------------------------
TypeOK ==
    /\ raw \in BOOLEAN /\ ctxDone \in BOOLEAN /\ shutdown \in BOOLEAN
    /\ gpc \in [Groups -> {"wait", "work", "done"}]
    /\ ready \in [Groups -> {"off", "armed", "passing", "closed", "dropped"}]
    /\ configCh \in {"empty", "full", "closed"} /\ answered \in BOOLEAN
    /\ conf \in {"select", "setup", "ready", "end"} /\ ticker \in {"select", "end"}
    /\ main \in MainPlaces /\ ioOpen \in BOOLEAN /\ loops \subseteq {"read", "write"}
    /\ events \in Seq(Kinds) /\ Len(events) <= EventCap /\ closed \in BOOLEAN
    /\ emitting \in [Emitters -> {<<>>} \cup (Kinds \X Stages)]
    /\ panicked \subseteq Emitters /\ client \in {"reads", "gone"}

(* The caller's view: which of this is the state that CoreService speaks of.  *)
Service == INSTANCE CoreService WITH
    Services <- {"io", "read", "write"}, Plug <- "io", Last <- "completed",
    phase   <- gpc,
    granted <- {g \in Groups : ready[g] \in {"passing", "closed"}},
    stopped <- ctxDone,
    running <- loops \cup (IF ioOpen THEN {"io"} ELSE {}),
    queue   <- events,
    crashed <- panicked # {}

(* Core does what its caller is told (core.go: the channel "is closed on      *)
(* completion"): events is closed after every group, both loops and the       *)
(* socket, never before ctx is cancelled; groups begin in order, each after   *)
(* the credentials of the ones before it, and never again; workers_completed  *)
(* comes after all of them; the process can die of a late event only after    *)
(* the end.                                                                   *)
ImplementsService == Service!Spec

(* A send on the closed event channel, which crashes the process, can come    *)
(* only from the two goroutines main does not wait for (the statistics ticker *)
(* and the config reader); never from a group or from main itself.            *)
PanicOnlyUnjoined == panicked \subseteq {TickerId, ConfId}

(* Stop, or the end of all groups, brings the core down: sockets closed,      *)
(* loops ended, events closed; and a caller that keeps reading learns of it,  *)
(* even when the "workers_completed" event was displaced from a full channel  *)
(* (or the process crashed as above).                                         *)
ShutdownCompletes ==
    (ctxDone \/ \A g \in Groups : gpc[g] = "done")
        ~> (closed /\ client = "gone") \/ ~Alive
=============================================================================
