------------------------------ MODULE Session ------------------------------
(***************************************************************************)
(* internal/core/session.go: RunSession, the life of one relay session, for *)
(* a set of sessions that run at once under one group context.  Each       *)
(* session is a main goroutine and the goroutines it starts:               *)
(*   bind     TURN binding requests                       (sessionWg)      *)
(*   pumpIn   relay -> pipeA, pumpOut  pipeA -> relay     (relayWg, DTLS)  *)
(*   alive    keepalive ticks, writer, reader             (proxyWg)        *)
(*   bye      the DISCONNECT_RAW message                  (not waited for) *)
(* and two context.AfterFuncs that set deadlines in the past.  They share  *)
(* handshakeSem, stats.ActiveConnections and the dispatcher's ReturnCh.    *)
(* The packets and the writer's channels are in module Dispatcher.         *)
(***************************************************************************)
EXTENDS Integers, FiniteSets

CONSTANTS Sessions,  \* concurrent calls of RunSession
          Modes,     \* a subset of {"dtls", "direct", "raw"}: tp.NoDTLS, tp.RawMode
          SemCap,    \* capacity of handshakeSem (3 in the code)
          ReturnCap  \* capacity of d.ReturnCh (returnChBuf)

ASSUME SessionAssumption ==
    /\ IsFiniteSet(Sessions) /\ Modes \subseteq {"dtls", "direct", "raw"}
    /\ SemCap \in Nat \ {0} /\ ReturnCap \in Nat \ {0}

VARIABLES
    mode,      \* how the sessions are configured
    ctxDone,   \* the group's context is cancelled
    pc,        \* where the main goroutine is, see Places
    ran,       \* history: the session reached the proxy stage
    cancelled, \* sessCancel was called
    task,      \* the state of each goroutine, see TaskStates
    relayFn,   \* AfterFunc stopRelay: "off", "armed", "stopped" or "fired"
    connFn,    \* AfterFunc stopConn
    relayPast, \* relay and pipeA have a deadline in the past
    deadline,  \* activeConn's read deadline: "none", "future" or "past"
    connOpen,  \* activeConn is established and not closed
    pipeOpen,  \* pipeA and pipeB are open
    slotIn,    \* the slot is registered with the dispatcher
    sem,       \* tokens in handshakeSem
    others,    \* those of them that sessions outside Sessions hold
    active,    \* stats.ActiveConnections
    returnLen  \* packets in d.ReturnCh

main   == <<pc, ran, cancelled>>
timers == <<relayFn, connFn, relayPast, deadline>>
conns  == <<connOpen, pipeOpen, slotIn>>
shared == <<sem, others, active, returnLen>>
vars   == <<mode, ctxDone, main, task, timers, conns, shared>>

Places == {"dial", "gate", "alloc", "sem", "handshake", "conf", "run", "join",
           "unwind", "unslot", "uncount", "hangup", "closing", "returned"}
Leaving == {"unwind", "unslot", "uncount", "hangup", "closing", "returned"}
Tasks == {"bind", "pumpIn", "pumpOut", "alive", "writer", "reader", "bye"}
Proxy == {"alive", "writer", "reader"}
Pumps == {"pumpIn", "pumpOut"}
TaskStates == {"off", "run", "read", "got", "sent", "done"}

(* sessCtx is a child of the group's context. *)
Done(s) == cancelled[s] \/ ctxDone
Running(s, t) == task[s][t] \in {"run", "read", "got"}

Init ==
    /\ mode \in Modes /\ ctxDone = FALSE
    /\ pc = [s \in Sessions |-> "dial"] /\ ran = [s \in Sessions |-> FALSE]
    /\ cancelled = [s \in Sessions |-> FALSE]
    /\ task = [s \in Sessions |-> [t \in Tasks |-> "off"]]
    /\ relayFn = [s \in Sessions |-> "off"] /\ connFn = [s \in Sessions |-> "off"]
    /\ relayPast = [s \in Sessions |-> FALSE] /\ deadline = [s \in Sessions |-> "none"]
    /\ connOpen = [s \in Sessions |-> FALSE] /\ pipeOpen = [s \in Sessions |-> FALSE]
    /\ slotIn = [s \in Sessions |-> FALSE]
    /\ sem = 0 /\ others = 0 /\ active = 0 /\ returnLen = 0

(* Core.Stop, or the group's end: the context all sessions descend from. *)
CancelCtx ==
    /\ ~ctxDone /\ ctxDone' = TRUE
    /\ UNCHANGED <<mode, main, task, timers, conns, shared>>

Goto(s, p) == pc' = [pc EXCEPT ![s] = p]
Start(s, ts) == task' = [task EXCEPT ![s] = [t \in Tasks |-> IF t \in ts THEN "run" ELSE @[t]]]

(***************************************************************************)
(* The main goroutine up to the proxy stage.  A return before anything was *)
(* deferred that matters here goes straight to "returned".                 *)
(***************************************************************************)
(* TURN URL, socket, TURN client, Listen *)
Dial(s) ==
    /\ pc[s] = "dial"
    /\ \E p \in {"gate", "returned"} : Goto(s, p)
    /\ UNCHANGED <<mode, ctxDone, ran, cancelled, task, timers, conns, shared>>

(* select on allocateGate (a tick always comes) and ctx.Done() *)
Gate(s) ==
    /\ pc[s] = "gate"
    /\ \/ Goto(s, "alloc")
       \/ ctxDone /\ Goto(s, "returned")
    /\ UNCHANGED <<mode, ctxDone, ran, cancelled, task, timers, conns, shared>>

AllocateFails(s) ==
    /\ pc[s] = "alloc" /\ Goto(s, "returned")
    /\ UNCHANGED <<mode, ctxDone, ran, cancelled, task, timers, conns, shared>>

(* tc.Allocate succeeds, sessCtx and bind start; without DTLS activeConn is   *)
(* the relay itself                                                           *)
AllocateDirect(s) ==
    /\ pc[s] = "alloc" /\ mode # "dtls"
    /\ Start(s, {"bind"})
    /\ \/ /\ Goto(s, "conf")
          /\ connOpen' = [connOpen EXCEPT ![s] = TRUE] /\ active' = active + 1
       \/ /\ Goto(s, "unwind")  \* NewObfsConfig or NewObfsState failed
          /\ UNCHANGED <<connOpen, active>>
    /\ UNCHANGED <<mode, ctxDone, ran, cancelled, timers, pipeOpen, slotIn, sem, others, returnLen>>

(* with DTLS: the pipe, the AfterFunc on the relay and the two pumps *)
AllocateDTLS(s) ==
    /\ pc[s] = "alloc" /\ mode = "dtls"
    /\ pipeOpen' = [pipeOpen EXCEPT ![s] = TRUE]
    /\ relayFn' = [relayFn EXCEPT ![s] = "armed"]
    /\ \/ Goto(s, "sem") /\ Start(s, {"bind"} \cup Pumps)
       \/ Goto(s, "unwind") /\ Start(s, {"bind"} \cup Pumps)  \* no certificate
       \/ Goto(s, "unwind") /\ Start(s, {"bind"})             \* no obfs state
    /\ UNCHANGED <<mode, ctxDone, ran, cancelled, connFn, relayPast, deadline, connOpen, slotIn, shared>>

(* mutant: the semaphore does not limit *)
SemFree_Always == TRUE

SemFree == sem < SemCap

AcquireSem(s) ==
    /\ pc[s] = "sem" /\ SemFree
    /\ sem' = sem + 1 /\ Goto(s, "handshake")
    /\ UNCHANGED <<mode, ctxDone, ran, cancelled, task, timers, conns, others, active, returnLen>>

(* handshakeSem is global: sessions of other groups take and release tokens. *)
OtherAcquires ==
    /\ SemFree /\ sem' = sem + 1 /\ others' = others + 1
    /\ UNCHANGED <<mode, ctxDone, main, task, timers, conns, active, returnLen>>

OtherReleases ==
    /\ others > 0 /\ sem' = sem - 1 /\ others' = others - 1
    /\ UNCHANGED <<mode, ctxDone, main, task, timers, conns, active, returnLen>>

SemCancelled(s) ==
    /\ pc[s] = "sem" /\ Done(s) /\ Goto(s, "unwind")
    /\ UNCHANGED <<mode, ctxDone, ran, cancelled, task, timers, conns, shared>>

Handshake(s) ==
    /\ pc[s] = "handshake" /\ Goto(s, "conf")
    /\ sem' = sem - 1 /\ active' = active + 1
    /\ connOpen' = [connOpen EXCEPT ![s] = TRUE]
    /\ UNCHANGED <<mode, ctxDone, ran, cancelled, task, timers, pipeOpen, slotIn, others, returnLen>>

(* mutant: an error path that forgets <-handshakeSem *)
HandshakeFails_KeepsToken(s) ==
    /\ pc[s] = "handshake" /\ Goto(s, "unwind")
    /\ UNCHANGED <<mode, ctxDone, ran, cancelled, task, timers, conns, shared>>

(* dtls.Client fails, or HandshakeContext does: an error, its 50 s, sessCtx *)
HandshakeFails(s) ==
    /\ pc[s] = "handshake" /\ Goto(s, "unwind")
    /\ sem' = sem - 1
    /\ UNCHANGED <<mode, ctxDone, ran, cancelled, task, timers, conns, others, active, returnLen>>

(* GETCONF, GETCONF_RAW or AUTH; then the slot is registered and the proxy    *)
(* goroutines start.  RequestConfig and RequestRawConfig clear the deadline.  *)
Serve(s) ==
    /\ pc[s] = "conf" /\ Goto(s, "run")
    /\ ran' = [ran EXCEPT ![s] = TRUE]
    /\ slotIn' = [slotIn EXCEPT ![s] = TRUE]
    /\ connFn' = [connFn EXCEPT ![s] = "armed"]
    /\ Start(s, Proxy \cup (IF mode = "raw" THEN {"bye"} ELSE {}))
    /\ UNCHANGED <<mode, ctxDone, cancelled, relayFn, relayPast, deadline, connOpen, pipeOpen, shared>>

(* the server answered DENIED (FATAL_AUTH) *)
Denied(s) ==
    /\ pc[s] = "conf" /\ Goto(s, "unwind")
    /\ UNCHANGED <<mode, ctxDone, ran, cancelled, task, timers, conns, shared>>

(***************************************************************************)
(* The end of the main goroutine.                                          *)
(***************************************************************************)
(* mutant: no relayWg.Wait() *)
JoinWg_NoRelay == {"bind"}

ProxyWg == Proxy
JoinWg  == Pumps \cup {"bind"}

(* proxyWg.Wait(); sessCancel() *)
ProxyDone(s) ==
    /\ pc[s] = "run" /\ \A t \in ProxyWg : ~Running(s, t)
    /\ cancelled' = [cancelled EXCEPT ![s] = TRUE] /\ Goto(s, "join")
    /\ UNCHANGED <<mode, ctxDone, ran, task, timers, conns, shared>>

(* relayWg.Wait(); sessionWg.Wait() *)
Join(s) ==
    /\ pc[s] = "join" /\ \A t \in JoinWg : ~Running(s, t)
    /\ Goto(s, "unwind")
    /\ UNCHANGED <<mode, ctxDone, ran, cancelled, task, timers, conns, shared>>

(* An AfterFunc whose context is done runs, whether stopped or not. *)
Stopped(s, fn) == IF fn[s] = "armed" /\ ~Done(s) THEN [fn EXCEPT ![s] = "stopped"] ELSE fn

(* mutant: d.Unregister(slot) deferred first of all, so that it runs last *)
NextDeferred_SlotLast ==
    [unwind |-> "uncount", uncount |-> "hangup", hangup |-> "unslot", unslot |-> "closing"]

(* The deferred calls run last first, and the other goroutines between them.  *)
(* A call whose defer was not reached has nothing to undo.                    *)
NextDeferred ==
    [unwind |-> "unslot", unslot |-> "uncount", uncount |-> "hangup", hangup |-> "closing"]

(* stopConn() *)
StopConn(s) ==
    /\ pc[s] = "unwind" /\ Goto(s, NextDeferred["unwind"])
    /\ connFn' = Stopped(s, connFn)
    /\ UNCHANGED <<mode, ctxDone, ran, cancelled, task, relayFn, relayPast, deadline, conns, shared>>

(* d.Unregister(slot) *)
DropSlot(s) ==
    /\ pc[s] = "unslot" /\ Goto(s, NextDeferred["unslot"])
    /\ slotIn' = [slotIn EXCEPT ![s] = FALSE]
    /\ UNCHANGED <<mode, ctxDone, ran, cancelled, task, timers, connOpen, pipeOpen, shared>>

(* stats.ActiveConnections.Add(-1) *)
Discount(s) ==
    /\ pc[s] = "uncount" /\ Goto(s, NextDeferred["uncount"])
    /\ active' = IF connOpen[s] THEN active - 1 ELSE active
    /\ UNCHANGED <<mode, ctxDone, ran, cancelled, task, timers, conns, sem, others, returnLen>>

(* activeConn.Close() *)
HangUp(s) ==
    /\ pc[s] = "hangup" /\ Goto(s, NextDeferred["hangup"])
    /\ connOpen' = [connOpen EXCEPT ![s] = FALSE]
    /\ UNCHANGED <<mode, ctxDone, ran, cancelled, task, timers, pipeOpen, slotIn, shared>>

(* stopRelay, pipeB.Close, pipeA.Close, sessCancel, tc.Close and the socket *)
Close(s) ==
    /\ pc[s] = "closing" /\ Goto(s, "returned")
    /\ relayFn' = Stopped(s, relayFn)
    /\ pipeOpen' = [pipeOpen EXCEPT ![s] = FALSE]
    /\ cancelled' = [cancelled EXCEPT ![s] = TRUE]
    /\ UNCHANGED <<mode, ctxDone, ran, task, connFn, relayPast, deadline, connOpen, slotIn, shared>>

Setup(s) == Dial(s) \/ Gate(s) \/ AllocateFails(s) \/ AllocateDirect(s) \/ AllocateDTLS(s)
Shake(s) == SemCancelled(s) \/ Handshake(s) \/ HandshakeFails(s) \/ Serve(s) \/ Denied(s)
Unwind(s) == StopConn(s) \/ DropSlot(s) \/ Discount(s) \/ HangUp(s)
Finish(s) == ProxyDone(s) \/ Join(s) \/ Unwind(s) \/ Close(s)

(***************************************************************************)
(* The goroutines.                                                         *)
(***************************************************************************)
End(s, t) == task' = [task EXCEPT ![s][t] = "done"]

(* defer sessCancel(): all but bind, alive and bye *)
EndCancelling(s, t) == End(s, t) /\ cancelled' = [cancelled EXCEPT ![s] = TRUE]

(* mutant: the keepalive loop does not watch sessCtx *)
TickerEnds_NotAlive(s, t) ==
    /\ task[s][t] = "run" /\ t = "bind" /\ Done(s)
    /\ End(s, t)
    /\ UNCHANGED <<mode, ctxDone, pc, ran, cancelled, timers, conns, shared>>

(* bind and alive: select on a ticker and sessCtx.Done() *)
TickerEnds(s, t) ==
    /\ task[s][t] = "run" /\ t \in {"bind", "alive"} /\ Done(s)
    /\ End(s, t)
    /\ UNCHANGED <<mode, ctxDone, pc, ran, cancelled, timers, conns, shared>>

(* AfterFunc: relay.SetDeadline(now), pipeA.SetDeadline(now) *)
FireRelay(s) ==
    /\ relayFn[s] = "armed" /\ Done(s)
    /\ relayFn' = [relayFn EXCEPT ![s] = "fired"]
    /\ relayPast' = [relayPast EXCEPT ![s] = TRUE]
    /\ UNCHANGED <<mode, ctxDone, main, task, connFn, deadline, conns, shared>>

(* AfterFunc: activeConn.SetDeadline(now) *)
FireConn(s) ==
    /\ connFn[s] = "armed" /\ Done(s)
    /\ connFn' = [connFn EXCEPT ![s] = "fired"]
    /\ deadline' = [deadline EXCEPT ![s] = "past"]
    /\ UNCHANGED <<mode, ctxDone, main, task, relayFn, relayPast, conns, shared>>

(* A pump ends on a deadline in the past; pumpOut also when its pipe is       *)
(* closed.  relay is never closed, so nothing else is sure to end pumpIn.     *)
PumpEnds(s, t) ==
    /\ t \in Pumps /\ task[s][t] = "run"
    /\ relayPast[s] \/ (t = "pumpOut" /\ ~pipeOpen[s])
    /\ EndCancelling(s, t)
    /\ UNCHANGED <<mode, ctxDone, pc, ran, timers, conns, shared>>

(* the relay fails, or a packet cannot be wrapped or passed on *)
PumpFails(s, t) ==
    /\ t \in Pumps /\ task[s][t] = "run" /\ pc[s] # "returned"
    /\ EndCancelling(s, t)
    /\ UNCHANGED <<mode, ctxDone, pc, ran, timers, conns, shared>>

(* writer: sessCtx.Done(), or a failed write (which has a deadline of 3 s) *)
WriterEnds(s) ==
    /\ task[s]["writer"] = "run"
    /\ EndCancelling(s, "writer")
    /\ UNCHANGED <<mode, ctxDone, pc, ran, timers, conns, shared>>

(* reader: SetReadDeadline(now + 30 min), which also undoes FireConn *)
ReaderArms(s) ==
    /\ task[s]["reader"] = "run"
    /\ deadline' = [deadline EXCEPT ![s] = "future"]
    /\ task' = [task EXCEPT ![s]["reader"] = "read"]
    /\ UNCHANGED <<mode, ctxDone, main, relayFn, connFn, relayPast, conns, shared>>

(* Read returns a keepalive of the peer: skipped, sessCtx is not looked at *)
ReaderSkips(s) ==
    /\ task[s]["reader"] = "read"
    /\ task' = [task EXCEPT ![s]["reader"] = "run"]
    /\ UNCHANGED <<mode, ctxDone, main, timers, conns, shared>>

ReaderGets(s) ==
    /\ task[s]["reader"] = "read"
    /\ task' = [task EXCEPT ![s]["reader"] = "got"]
    /\ UNCHANGED <<mode, ctxDone, main, timers, conns, shared>>

(* Data goes to ReturnCh or finds sessCtx done, at random if both are         *)
(* possible, and is dropped if neither is.                                    *)
ReaderPasses(s) ==
    /\ task[s]["reader"] = "got"
    /\ \/ returnLen < ReturnCap /\ returnLen' = returnLen + 1
       \/ returnLen = ReturnCap /\ ~Done(s) /\ UNCHANGED returnLen
    /\ task' = [task EXCEPT ![s]["reader"] = "run"]
    /\ UNCHANGED <<mode, ctxDone, main, timers, conns, sem, others, active>>

ReaderSeesDone(s) ==
    /\ task[s]["reader"] = "got" /\ Done(s)
    /\ EndCancelling(s, "reader")
    /\ UNCHANGED <<mode, ctxDone, pc, ran, timers, conns, shared>>

(* Read times out: the AfterFunc's deadline, or 30 minutes without a packet *)
ReaderTimeout(s) ==
    /\ task[s]["reader"] = "read"
    /\ IF Done(s) THEN EndCancelling(s, "reader")
       ELSE /\ task' = [task EXCEPT ![s]["reader"] = "run"]
            /\ UNCHANGED cancelled
    /\ UNCHANGED <<mode, ctxDone, pc, ran, timers, conns, shared>>

(* Read fails: the connection is broken *)
ReaderFails(s) ==
    /\ task[s]["reader"] = "read"
    /\ EndCancelling(s, "reader")
    /\ UNCHANGED <<mode, ctxDone, pc, ran, timers, conns, shared>>

(* bye: select on ctx.Done(), which writes DISCONNECT_RAW, and sessCtx.Done() *)
ByeWrites(s) ==
    /\ task[s]["bye"] = "run" /\ ctxDone
    /\ task' = [task EXCEPT ![s]["bye"] = IF pc[s] = "returned" THEN "done" ELSE "sent"]
    /\ UNCHANGED <<mode, ctxDone, main, timers, conns, shared>>

ByeQuits(s) ==
    /\ task[s]["bye"] = "run" /\ Done(s)
    /\ End(s, "bye")
    /\ UNCHANGED <<mode, ctxDone, main, timers, conns, shared>>

(* Dispatcher.writeLoop takes a packet from ReturnCh for the local client. *)
WriteLoop ==
    /\ returnLen > 0 /\ returnLen' = returnLen - 1
    /\ UNCHANGED <<mode, ctxDone, main, task, timers, conns, sem, others, active>>

Next ==
    \/ CancelCtx \/ WriteLoop \/ OtherAcquires \/ OtherReleases
    \/ \E s \in Sessions :
          \/ Setup(s) \/ AcquireSem(s) \/ Shake(s) \/ Finish(s)
          \/ FireRelay(s) \/ FireConn(s)
          \/ \E t \in Tasks : TickerEnds(s, t) \/ PumpEnds(s, t) \/ PumpFails(s, t)
          \/ WriterEnds(s)
          \/ ReaderArms(s) \/ ReaderSkips(s) \/ ReaderGets(s) \/ ReaderTimeout(s) \/ ReaderFails(s)
          \/ ReaderPasses(s) \/ ReaderSeesDone(s)
          \/ ByeWrites(s) \/ ByeQuits(s)

Spec == Init /\ [][Next]_vars

(* Goroutines that can run do run; calls with a timeout (dial, Allocate,      *)
(* handshake, the config request, a write) return; blocked senders of a Go    *)
(* channel are served in order, so a free handshakeSem is not withheld.  A    *)
(* read times out unless packets keep coming; under DTLS they cannot once     *)
(* pumpIn has ended.  select chooses at random, so not always against Done.   *)
(* A connection need not break, a context need not be cancelled.  That a      *)
(* writer whose context is done ends is what Dispatcher!CancelledSlotLeaves   *)
(* checks of its channels, under the exception stated there: a flood of small *)
(* packets that always refills PrioCh.                                        *)
Fairness ==
    /\ WF_vars(OtherReleases)
    /\ \A s \in Sessions :
           /\ WF_vars(Setup(s)) /\ SF_vars(AcquireSem(s)) /\ WF_vars(Shake(s)) /\ WF_vars(Finish(s))
           /\ WF_vars(FireRelay(s)) /\ WF_vars(FireConn(s))
           /\ \A t \in Tasks : WF_vars(TickerEnds(s, t)) /\ WF_vars(PumpEnds(s, t))
           /\ WF_vars(Done(s) /\ WriterEnds(s))
           /\ WF_vars(ReaderArms(s)) /\ WF_vars(ReaderTimeout(s))
           /\ SF_vars(mode = "dtls" /\ ReaderTimeout(s))
           /\ WF_vars(ReaderPasses(s)) /\ SF_vars(ReaderSeesDone(s))
           /\ WF_vars(ByeWrites(s) \/ ByeQuits(s))

FairSpec == Spec /\ Fairness

-----------------------------------------------------------------------------
(* Types, with the capacities of the shared channels. *)
TypeOK ==
    /\ mode \in Modes /\ ctxDone \in BOOLEAN
    /\ pc \in [Sessions -> Places] /\ ran \in [Sessions -> BOOLEAN]
    /\ cancelled \in [Sessions -> BOOLEAN]
    /\ task \in [Sessions -> [Tasks -> TaskStates]]
    /\ relayFn \in [Sessions -> {"off", "armed", "stopped", "fired"}]
    /\ connFn \in [Sessions -> {"off", "armed", "stopped", "fired"}]
    /\ relayPast \in [Sessions -> BOOLEAN]
    /\ deadline \in [Sessions -> {"none", "future", "past"}]
    /\ connOpen \in [Sessions -> BOOLEAN] /\ pipeOpen \in [Sessions -> BOOLEAN]
    /\ slotIn \in [Sessions -> BOOLEAN]
    /\ sem \in 0..SemCap /\ others \in 0..SemCap /\ active \in 0..Cardinality(Sessions)
    /\ returnLen \in 0..ReturnCap

(* Tokens and counters are given back on every path out of RunSession:        *)
(* handshakeSem holds one token per session that is in its DTLS handshake, so *)
(* none is lost for the others, and ActiveConnections counts exactly the      *)
(* established connections, but for those about to be closed.                 *)
Balanced ==
    /\ sem = others + Cardinality({s \in Sessions : pc[s] = "handshake"})
    /\ active = Cardinality({s \in Sessions : connOpen[s] /\ pc[s] # "hangup"})

(* The dispatcher never holds the slot of a session whose connection is       *)
(* closed: on every way out of RunSession the deferred Unregister comes       *)
(* before the deferred Close, with the dispatcher's readLoop running between  *)
(* them; and a proxy goroutine runs only while the slot is registered.        *)
SlotUsable ==
    \A s \in Sessions :
        /\ slotIn[s] => connOpen[s]
        /\ (\E t \in Proxy : Running(s, t)) => slotIn[s]

(* A RunSession that reached the proxy stage returns only after all the       *)
(* goroutines it waits for have ended: a retry of the worker never runs       *)
(* beside the old session's goroutines.                                       *)
JoinedOnReturn ==
    \A s \in Sessions :
        ran[s] /\ pc[s] \in Leaving =>
            \A t \in Tasks \ {"bye"} : ~Running(s, t)

(* Without DTLS, the reader has put back the far deadline that stopConn moved *)
(* to the past.                                                               *)
DeadlineLost(s) == mode # "dtls" /\ connFn[s] = "fired" /\ deadline[s] = "future"

(* When the context is cancelled, or one goroutine of a session dies, the     *)
(* whole session ends, whatever stage it is in; the one race that can keep it *)
(* waiting is the reader's SetReadDeadline after the AfterFunc of stopConn.   *)
SessionEnds ==
    \A s \in Sessions : Done(s) ~> pc[s] = "returned" \/ DeadlineLost(s)

(* core.go: "Stop останавливает ядро": cancelling the context ends every      *)
(* session, since Core waits for all of them.                                 *)
StopEnds == \A s \in Sessions : ctxDone ~> pc[s] = "returned"
=============================================================================
