--------------------------- MODULE SessionProofs ---------------------------
(***************************************************************************)
(* What module Session promises, for every finite set of sessions, every   *)
(* capacity of handshakeSem and of ReturnCh: its types and bounds, that    *)
(* tokens and the connection counter balance, that a slot is usable while  *)
(* it is registered, and that RunSession joins its goroutines.             *)
(***************************************************************************)
EXTENDS Session, FiniteSetTheorems, TLAPS

(***************************************************************************)
(* The inductive invariant.                                                *)
(***************************************************************************)
(* Where main is decides what is open: the connection from the end of the     *)
(* handshake to the deferred close, the slot from the start of the proxy to   *)
(* the deferred Unregister, which comes first, and the proxy goroutines only  *)
(* between; once it has joined them, none runs.                               *)
Staged(s) ==
    /\ ran[s] => pc[s] \in {"run", "join"} \cup Leaving
    /\ connOpen[s] => pc[s] \in {"conf", "run", "join", "unwind", "unslot", "uncount", "hangup"}
    /\ pc[s] \in {"conf", "run"} => connOpen[s]
    /\ slotIn[s] => connOpen[s] /\ pc[s] \in {"run", "join", "unwind", "unslot"}
    /\ pc[s] = "run" => slotIn[s]
    /\ \A t \in Proxy : Running(s, t) => pc[s] = "run"
    /\ ran[s] /\ pc[s] \in Leaving =>
           \A t \in JoinWg : ~Running(s, t)

Inv == TypeOK /\ Balanced /\ \A s \in Sessions : Staged(s)

(* The sessions that Balanced counts. *)
Shaking   == {s \in Sessions : pc[s] = "handshake"}
Connected == {s \in Sessions : connOpen[s] /\ pc[s] # "hangup"}

(* What a step of the goroutines may do to them: none starts again. *)
NoneStarts == \A s \in Sessions, t \in Tasks : Running(s, t)' => Running(s, t)

(* The variables that the invariant speaks of besides task. *)
course == <<pc, ran, connOpen, slotIn, sem, others, active>>
-----------------------------------------------------------------------------
LEMMA InitInv == Init => Inv
<1> SUFFICES ASSUME Init PROVE Inv
    OBVIOUS
<1>1. Shaking = {} /\ Connected = {}
    BY DEF Init, Shaking, Connected
<1>2. Cardinality({}) = 0 /\ Cardinality(Sessions) \in Nat
    BY SessionAssumption, FS_EmptySet, FS_CardinalityType
<1>3. Balanced
  <2>1. /\ sem = 0 /\ others = 0 /\ active = 0
        /\ Cardinality(Shaking) = 0 /\ Cardinality(Connected) = 0
      BY <1>1, <1>2 DEF Init
  <2> QED
      BY <2>1 DEF Balanced, Shaking, Connected
<1>4. TypeOK
  <2>1. /\ sem \in 0..SemCap /\ others \in 0..SemCap /\ returnLen \in 0..ReturnCap
        /\ active \in 0..Cardinality(Sessions)
      BY <1>2, SessionAssumption DEF Init
  <2>2. /\ task \in [Sessions -> [Tasks -> TaskStates]]
        /\ pc \in [Sessions -> Places]
      BY DEF Init, TaskStates, Places
  <2> QED
      BY <2>1, <2>2 DEF Init, TypeOK
<1>5. \A s \in Sessions : Staged(s)
    BY DEF Init, Staged, Running, Proxy, JoinWg, Pumps, Tasks
<1> QED
    BY <1>3, <1>4, <1>5 DEF Inv

(* A goroutine that changes its state keeps the type of task. *)
LEMMA TaskTyped ==
    ASSUME NEW s \in Sessions, NEW t \in Tasks, NEW v \in TaskStates,
           task \in [Sessions -> [Tasks -> TaskStates]],
           task' = [task EXCEPT ![s][t] = v]
    PROVE  /\ task' \in [Sessions -> [Tasks -> TaskStates]]
           /\ \A r \in Sessions, u \in Tasks :
                  task'[r][u] = IF r = s /\ u = t THEN v ELSE task[r][u]
    OBVIOUS

LEMMA StartTyped ==
    ASSUME NEW s \in Sessions, NEW ts \in SUBSET Tasks,
           task \in [Sessions -> [Tasks -> TaskStates]], Start(s, ts)
    PROVE  /\ task' \in [Sessions -> [Tasks -> TaskStates]]
           /\ \A r \in Sessions, u \in Tasks :
                  task'[r][u] = IF r = s /\ u \in ts THEN "run" ELSE task[r][u]
    BY DEF Start, TaskStates

(***************************************************************************)
(* Steps that move no main goroutine and start no other one.               *)
(***************************************************************************)
LEMMA QuietInv ==
    ASSUME Inv, TypeOK', NoneStarts, UNCHANGED course
    PROVE  Inv'
<1> USE DEF course
<1>1. Balanced'
    BY DEF Inv, Balanced
<1>2. \A s \in Sessions, t \in Proxy \cup JoinWg : Running(s, t)' => Running(s, t)
    BY DEF NoneStarts, Proxy, JoinWg, Pumps, Tasks
<1>3. (\A s \in Sessions : Staged(s))'
    BY <1>2 DEF Inv, Staged
<1> QED
    BY <1>1, <1>3 DEF Inv

(* The context, the AfterFuncs, ReturnCh: no goroutine of a session moves.    *)
LEMMA TimerInv ==
    ASSUME Inv, CancelCtx \/ WriteLoop \/ \E s \in Sessions : FireRelay(s) \/ FireConn(s)
    PROVE  Inv'
<1>1. UNCHANGED <<mode, main, task, conns, sem, others, active>>
    BY DEF CancelCtx, WriteLoop, FireRelay, FireConn, shared
<1>2. ctxDone' \in BOOLEAN
    BY DEF Inv, TypeOK, CancelCtx, WriteLoop, FireRelay, FireConn
<1>3. returnLen' \in 0..ReturnCap
    BY SessionAssumption DEF Inv, TypeOK, CancelCtx, WriteLoop, FireRelay, FireConn, shared
<1>4. /\ relayFn' \in [Sessions -> {"off", "armed", "stopped", "fired"}]
      /\ connFn' \in [Sessions -> {"off", "armed", "stopped", "fired"}]
      /\ relayPast' \in [Sessions -> BOOLEAN]
      /\ deadline' \in [Sessions -> {"none", "future", "past"}]
    BY DEF Inv, TypeOK, CancelCtx, WriteLoop, FireRelay, FireConn, timers
<1>5. TypeOK'
    BY <1>1, <1>2, <1>3, <1>4 DEF Inv, TypeOK, main, conns
<1>6. NoneStarts /\ UNCHANGED course
    BY <1>1 DEF NoneStarts, Running, course, main, conns
<1> QED
    BY <1>5, <1>6, QuietInv

(* The goroutines of a session. *)
LEMMA TaskInv ==
    ASSUME Inv, NEW s \in Sessions,
           \/ \E t \in Tasks : TickerEnds(s, t) \/ PumpEnds(s, t) \/ PumpFails(s, t)
           \/ WriterEnds(s)
           \/ ReaderArms(s) \/ ReaderSkips(s) \/ ReaderGets(s) \/ ReaderTimeout(s)
           \/ ReaderFails(s) \/ ReaderPasses(s) \/ ReaderSeesDone(s)
           \/ ByeWrites(s) \/ ByeQuits(s)
    PROVE  Inv'
<1> DEFINE Moves(t, v) == /\ task' = [task EXCEPT ![s][t] = v]
                          /\ v \in {"run", "read", "got"} => Running(s, t)
<1>1. task \in [Sessions -> [Tasks -> TaskStates]]
    BY DEF Inv, TypeOK
<1>2. \E t \in Tasks, v \in TaskStates : Moves(t, v)
  <2>1. ASSUME NEW t \in Tasks, TickerEnds(s, t) \/ PumpEnds(s, t) \/ PumpFails(s, t)
        PROVE  Moves(t, "done")
      BY <2>1 DEF TickerEnds, PumpEnds, PumpFails, EndCancelling, End
  <2>2. CASE WriterEnds(s)
      BY <2>2 DEF WriterEnds, EndCancelling, End, Tasks, TaskStates
  <2>3. CASE ReaderArms(s)
    <3>1. Moves("reader", "read")
        BY <2>3 DEF ReaderArms, Running
    <3> QED
        BY <3>1 DEF Tasks, TaskStates
  <2>4. CASE ReaderSkips(s) \/ ReaderPasses(s)
    <3>1. Moves("reader", "run")
        BY <2>4 DEF ReaderSkips, ReaderPasses, Running
    <3> QED
        BY <3>1 DEF Tasks, TaskStates
  <2>5. CASE ReaderGets(s)
    <3>1. Moves("reader", "got")
        BY <2>5 DEF ReaderGets, Running
    <3> QED
        BY <3>1 DEF Tasks, TaskStates
  <2>6. CASE ReaderTimeout(s)
    <3>1. Moves("reader", "done") \/ Moves("reader", "run")
        BY <2>6 DEF ReaderTimeout, EndCancelling, End, Running
    <3> QED
        BY <3>1 DEF Tasks, TaskStates
  <2>7. CASE ReaderFails(s) \/ ReaderSeesDone(s)
    <3>1. Moves("reader", "done")
        BY <2>7 DEF ReaderFails, ReaderSeesDone, EndCancelling, End
    <3> QED
        BY <3>1 DEF Tasks, TaskStates
  <2>8. CASE ByeWrites(s) \/ ByeQuits(s)
    <3>1. Moves("bye", "done") \/ Moves("bye", "sent")
        BY <2>8 DEF ByeWrites, ByeQuits, End
    <3> QED
        BY <3>1 DEF Tasks, TaskStates
  <2>9. "done" \in TaskStates
      BY DEF TaskStates
  <2> HIDE DEF Moves
  <2> QED
      BY <2>1, <2>2, <2>3, <2>4, <2>5, <2>6, <2>7, <2>8, <2>9
<1>3. PICK t \in Tasks, v \in TaskStates : Moves(t, v)
    BY <1>2
<1>4. /\ task' \in [Sessions -> [Tasks -> TaskStates]]
      /\ \A r \in Sessions, u \in Tasks :
             task'[r][u] = IF r = s /\ u = t THEN v ELSE task[r][u]
    BY <1>1, <1>3, TaskTyped
<1>5. NoneStarts
    BY <1>3, <1>4 DEF NoneStarts, Running
<1>6. /\ UNCHANGED <<mode, ctxDone, pc, ran, relayFn, connFn, relayPast, conns,
                     sem, others, active>>
      /\ UNCHANGED deadline \/ deadline' = [deadline EXCEPT ![s] = "future"]
      /\ UNCHANGED cancelled \/ cancelled' = [cancelled EXCEPT ![s] = TRUE]
      /\ UNCHANGED returnLen \/ (returnLen < ReturnCap /\ returnLen' = returnLen + 1)
    BY DEF TickerEnds, PumpEnds, PumpFails, WriterEnds, ReaderArms, ReaderSkips, ReaderGets,
           ReaderTimeout, ReaderFails, ReaderPasses, ReaderSeesDone, ByeWrites, ByeQuits,
           EndCancelling, main, timers, shared
<1>7. /\ deadline' \in [Sessions -> {"none", "future", "past"}]
      /\ cancelled' \in [Sessions -> BOOLEAN]
      /\ returnLen' \in 0..ReturnCap
  <2>1. deadline' \in [Sessions -> {"none", "future", "past"}]
      BY <1>6 DEF Inv, TypeOK
  <2>2. cancelled' \in [Sessions -> BOOLEAN]
      BY <1>6 DEF Inv, TypeOK
  <2>3. returnLen' \in 0..ReturnCap
      BY <1>6, SessionAssumption DEF Inv, TypeOK
  <2> QED
      BY <2>1, <2>2, <2>3
<1>8. TypeOK'
    BY <1>4, <1>6, <1>7 DEF Inv, TypeOK, conns
<1> QED
    BY <1>5, <1>6, <1>8, QuietInv DEF course, conns

(***************************************************************************)
(* Counting.                                                               *)
(***************************************************************************)
LEMMA SetBounds ==
    ASSUME NEW C \in SUBSET Sessions
    PROVE  IsFiniteSet(C) /\ Cardinality(C) \in 0..Cardinality(Sessions)
<1>1. IsFiniteSet(C) /\ Cardinality(C) <= Cardinality(Sessions)
    BY SessionAssumption, FS_Subset
<1>2. Cardinality(C) \in Nat /\ Cardinality(Sessions) \in Nat
    BY <1>1, SessionAssumption, FS_CardinalityType
<1> QED
    BY <1>1, <1>2

(* A main goroutine enters or leaves the handshake. *)
LEMMA ShakingMoves ==
    ASSUME Inv, NEW s \in Sessions, NEW p \in Places, Goto(s, p)
    PROVE  /\ pc[s] # "handshake" /\ p # "handshake" => Shaking' = Shaking
           /\ pc[s] # "handshake" /\ p = "handshake" =>
                  Cardinality(Shaking') = Cardinality(Shaking) + 1
           /\ pc[s] = "handshake" /\ p # "handshake" =>
                  /\ Cardinality(Shaking') = Cardinality(Shaking) - 1
                  /\ Cardinality(Shaking) > 0
<1>1. \A r \in Sessions : pc'[r] = IF r = s THEN p ELSE pc[r]
    BY DEF Goto, Inv, TypeOK
<1>2. Shaking \in SUBSET Sessions /\ IsFiniteSet(Shaking) /\ Cardinality(Shaking) \in Nat
    BY SetBounds, FS_CardinalityType DEF Shaking
<1>3. CASE pc[s] # "handshake" /\ p # "handshake"
    BY <1>1, <1>3 DEF Shaking
<1>4. CASE pc[s] # "handshake" /\ p = "handshake"
  <2>1. Shaking' = Shaking \cup {s} /\ s \notin Shaking
      BY <1>1, <1>4 DEF Shaking
  <2> QED
      BY <1>2, <1>4, <2>1, FS_AddElement
<1>5. CASE pc[s] = "handshake" /\ p # "handshake"
  <2>1. Shaking' = Shaking \ {s} /\ s \in Shaking
      BY <1>1, <1>5 DEF Shaking
  <2>2. Cardinality(Shaking') = Cardinality(Shaking) - 1
      BY <1>2, <2>1, FS_RemoveElement
  <2>3. Cardinality(Shaking) > 0
      BY <1>2, <2>1, FS_EmptySet
  <2> QED
      BY <1>5, <2>2, <2>3
<1>6. CASE pc[s] = "handshake" /\ p = "handshake"
    BY <1>6
<1> QED
    BY <1>3, <1>4, <1>5, <1>6

(* A connection is established, or taken out of the count. *)
LEMMA ConnectedMoves ==
    ASSUME Inv, NEW s \in Sessions, NEW p \in Places, Goto(s, p), pc[s] # "hangup"
    PROVE  /\ UNCHANGED connOpen /\ p # "hangup" => Connected' = Connected
           /\ connOpen' = [connOpen EXCEPT ![s] = TRUE] /\ ~connOpen[s] /\ p # "hangup" =>
                  Cardinality(Connected') = Cardinality(Connected) + 1
           /\ UNCHANGED connOpen /\ p = "hangup" =>
                  Cardinality(Connected') = IF connOpen[s] THEN Cardinality(Connected) - 1
                                            ELSE Cardinality(Connected)
<1>1. /\ connOpen \in [Sessions -> BOOLEAN]
      /\ \A r \in Sessions : pc'[r] = IF r = s THEN p ELSE pc[r]
    BY DEF Inv, TypeOK, Goto
<1>2. Connected \in SUBSET Sessions /\ IsFiniteSet(Connected)
    BY SetBounds DEF Connected
<1>3. ASSUME UNCHANGED connOpen, p # "hangup"
      PROVE  Connected' = Connected
    BY <1>1, <1>3 DEF Connected
<1>4. ASSUME connOpen' = [connOpen EXCEPT ![s] = TRUE], ~connOpen[s], p # "hangup"
      PROVE  Cardinality(Connected') = Cardinality(Connected) + 1
  <2>1. Connected' = Connected \cup {s} /\ s \notin Connected
      BY <1>1, <1>4 DEF Connected
  <2> QED
      BY <1>2, <2>1, FS_AddElement
<1>5. ASSUME UNCHANGED connOpen, p = "hangup"
      PROVE  Cardinality(Connected') = IF connOpen[s] THEN Cardinality(Connected) - 1
                                       ELSE Cardinality(Connected)
  <2>1. Connected' = Connected \ {s} /\ (s \in Connected <=> connOpen[s])
      BY <1>1, <1>5 DEF Connected
  <2> QED
      BY <1>2, <2>1, FS_RemoveElement
<1> QED
    BY <1>3, <1>4, <1>5

(***************************************************************************)
(* Steps of a main goroutine.                                              *)
(***************************************************************************)
(* The other sessions stay as they were. *)
OthersStay(s) ==
    \A r \in Sessions \ {s} :
        /\ ran'[r] = ran[r] /\ connOpen'[r] = connOpen[r] /\ slotIn'[r] = slotIn[r]
        /\ \A t \in Tasks : task'[r][t] = task[r][t]

LEMMA MoveStaged ==
    ASSUME Inv, NEW s \in Sessions, NEW p \in Places, Goto(s, p), OthersStay(s), Staged(s)'
    PROVE  (\A r \in Sessions : Staged(r))'
<1> SUFFICES ASSUME NEW r \in Sessions PROVE Staged(r)'
    OBVIOUS
<1>1. CASE r = s
    BY <1>1
<1>2. CASE r # s
  <2>1. /\ pc'[r] = pc[r]
        /\ ran'[r] = ran[r] /\ connOpen'[r] = connOpen[r] /\ slotIn'[r] = slotIn[r]
      BY <1>2 DEF Goto, Inv, TypeOK, OthersStay
  <2>2. \A t \in Proxy \cup JoinWg : task'[r][t] = task[r][t]
      BY <1>2 DEF OthersStay, Proxy, JoinWg, Pumps, Tasks
  <2>3. Staged(r)
      BY DEF Inv
  <2> QED
      BY <2>1, <2>2, <2>3 DEF Staged, Running
<1> QED
    BY <1>1, <1>2

(* A step that moves main where neither the tokens nor the count are at stake. *)
LEMMA PlainMove ==
    ASSUME Inv, NEW s \in Sessions, NEW p \in Places \ {"handshake", "hangup"}, Goto(s, p),
           pc[s] \notin {"handshake", "hangup"},
           UNCHANGED <<mode, ctxDone, ran, task, relayPast, deadline, connOpen, shared>>,
           cancelled' \in [Sessions -> BOOLEAN], pipeOpen' \in [Sessions -> BOOLEAN],
           relayFn' \in [Sessions -> {"off", "armed", "stopped", "fired"}],
           connFn' \in [Sessions -> {"off", "armed", "stopped", "fired"}],
           slotIn' \in [Sessions -> BOOLEAN],
           \A r \in Sessions \ {s} : slotIn'[r] = slotIn[r],
           Staged(s)'
    PROVE  Inv'
<1>1. OthersStay(s)
    BY DEF OthersStay
<1>2. (\A r \in Sessions : Staged(r))'
    BY <1>1, MoveStaged
<1>3. Shaking' = Shaking /\ Connected' = Connected
    BY ShakingMoves, ConnectedMoves
<1>4. Balanced'
    BY <1>3 DEF Inv, Balanced, Shaking, Connected, shared
<1>5. pc' \in [Sessions -> Places]
    BY DEF Inv, TypeOK, Goto
<1>6. TypeOK'
    BY <1>5 DEF Inv, TypeOK, shared
<1> QED
    BY <1>2, <1>4, <1>6 DEF Inv

LEMMA PlainInv ==
    ASSUME Inv, NEW s \in Sessions,
           \/ Dial(s) \/ Gate(s) \/ AllocateFails(s) \/ SemCancelled(s) \/ Denied(s)
           \/ ProxyDone(s) \/ Join(s) \/ Close(s)
    PROVE  Inv'
<1>1. Staged(s)
    BY DEF Inv
<1>2. /\ pc \in [Sessions -> Places]
      /\ cancelled \in [Sessions -> BOOLEAN] /\ pipeOpen \in [Sessions -> BOOLEAN]
      /\ relayFn \in [Sessions -> {"off", "armed", "stopped", "fired"}]
    BY DEF Inv, TypeOK
<1>3. UNCHANGED <<mode, ctxDone, ran, task, connFn, relayPast, deadline,
                  connOpen, slotIn, shared>>
    BY DEF Dial, Gate, AllocateFails, SemCancelled, Denied, ProxyDone, Join, Close,
           timers, conns
<1>4. /\ cancelled' \in [Sessions -> BOOLEAN] /\ pipeOpen' \in [Sessions -> BOOLEAN]
      /\ relayFn' \in [Sessions -> {"off", "armed", "stopped", "fired"}]
  <2>1. /\ UNCHANGED cancelled \/ cancelled' = [cancelled EXCEPT ![s] = TRUE]
        /\ UNCHANGED pipeOpen \/ pipeOpen' = [pipeOpen EXCEPT ![s] = FALSE]
        /\ UNCHANGED relayFn \/ relayFn' = Stopped(s, relayFn)
      BY DEF Dial, Gate, AllocateFails, SemCancelled, Denied, ProxyDone, Join, Close,
             timers, conns
  <2>2. cancelled' \in [Sessions -> BOOLEAN]
      BY <1>2, <2>1
  <2>3. pipeOpen' \in [Sessions -> BOOLEAN]
      BY <1>2, <2>1
  <2>4. relayFn' \in [Sessions -> {"off", "armed", "stopped", "fired"}]
      BY <1>2, <2>1 DEF Stopped
  <2> QED
      BY <2>2, <2>3, <2>4
<1>5. ASSUME NEW p \in Places \ {"handshake", "hangup"}, Goto(s, p),
             pc[s] \notin {"handshake", "hangup"}, Staged(s)'
      PROVE  Inv'
  <2>1. /\ connFn' \in [Sessions -> {"off", "armed", "stopped", "fired"}]
        /\ slotIn' \in [Sessions -> BOOLEAN]
        /\ \A r \in Sessions \ {s} : slotIn'[r] = slotIn[r]
      BY <1>3 DEF Inv, TypeOK
  <2> QED
      BY <1>3, <1>4, <1>5, <2>1, PlainMove
<1>6. CASE Dial(s) \/ Gate(s) \/ AllocateFails(s)
  <2>1. pc[s] \in {"dial", "gate", "alloc"}
        /\ \E p \in {"gate", "alloc", "returned"} : Goto(s, p)
      BY <1>6 DEF Dial, Gate, AllocateFails
  <2>2. PICK p \in {"gate", "alloc", "returned"} : Goto(s, p)
      BY <2>1
  <2>3. pc'[s] = p
      BY <1>2, <2>2 DEF Goto
  <2>4. Staged(s)'
      BY <1>1, <1>3, <2>1, <2>3 DEF Staged, Running, Leaving
  <2> QED
      BY <1>5, <2>1, <2>2, <2>4 DEF Places
<1>7. CASE SemCancelled(s) \/ Denied(s)
  <2>1. pc[s] \in {"sem", "conf"} /\ Goto(s, "unwind")
      BY <1>7 DEF SemCancelled, Denied
  <2>2. pc'[s] = "unwind"
      BY <1>2, <2>1 DEF Goto
  <2>3. Staged(s)'
      BY <1>1, <1>3, <2>1, <2>2 DEF Staged, Running, Leaving
  <2> QED
      BY <1>5, <2>1, <2>3 DEF Places
<1>8. CASE ProxyDone(s)
  <2>1. pc[s] = "run" /\ Goto(s, "join") /\ \A t \in Proxy : ~Running(s, t)
      BY <1>8 DEF ProxyDone, ProxyWg
  <2>2. pc'[s] = "join"
      BY <1>2, <2>1 DEF Goto
  <2>3. Staged(s)'
      BY <1>1, <1>3, <2>1, <2>2 DEF Staged, Running, Leaving
  <2> QED
      BY <1>5, <2>1, <2>3 DEF Places
<1>9. CASE Join(s)
  <2>1. pc[s] = "join" /\ Goto(s, "unwind") /\ \A t \in JoinWg : ~Running(s, t)
      BY <1>9 DEF Join
  <2>2. pc'[s] = "unwind"
      BY <1>2, <2>1 DEF Goto
  <2>3. Staged(s)'
      BY <1>1, <1>3, <2>1, <2>2 DEF Staged, Running, Leaving
  <2> QED
      BY <1>5, <2>1, <2>3 DEF Places
<1>10. CASE Close(s)
  <2>1. pc[s] = "closing" /\ Goto(s, "returned")
      BY <1>10 DEF Close
  <2>2. pc'[s] = "returned"
      BY <1>2, <2>1 DEF Goto
  <2>3. Staged(s)'
      BY <1>1, <1>3, <2>1, <2>2 DEF Staged, Running, Leaving
  <2> QED
      BY <1>5, <2>1, <2>3 DEF Places
<1> QED
    BY <1>6, <1>7, <1>8, <1>9, <1>10

(* tc.Allocate succeeded: bind starts, and the pumps with DTLS; a connection  *)
(* is counted at once without it.                                             *)
LEMMA AllocateInv ==
    ASSUME Inv, NEW s \in Sessions, AllocateDirect(s) \/ AllocateDTLS(s)
    PROVE  Inv'
<1>1. Staged(s) /\ pc[s] = "alloc"
    BY DEF Inv, AllocateDirect, AllocateDTLS
<1>2. /\ pc \in [Sessions -> Places]
      /\ connOpen \in [Sessions -> BOOLEAN] /\ pipeOpen \in [Sessions -> BOOLEAN]
      /\ relayFn \in [Sessions -> {"off", "armed", "stopped", "fired"}]
      /\ task \in [Sessions -> [Tasks -> TaskStates]]
    BY DEF Inv, TypeOK
<1>3. UNCHANGED <<mode, ctxDone, ran, cancelled, connFn, relayPast, deadline, slotIn,
                  sem, others, returnLen>>
    BY DEF AllocateDirect, AllocateDTLS, timers, shared
<1>4. PICK p \in {"conf", "unwind", "sem"}, ts \in SUBSET JoinWg :
          /\ Goto(s, p) /\ Start(s, ts)
          /\ \/ /\ p = "conf"
                /\ connOpen' = [connOpen EXCEPT ![s] = TRUE] /\ active' = active + 1
             \/ p # "conf" /\ UNCHANGED <<connOpen, active>>
  <2>1. CASE AllocateDirect(s)
      BY <2>1 DEF AllocateDirect, JoinWg
  <2>2. CASE AllocateDTLS(s)
      BY <2>2 DEF AllocateDTLS, JoinWg, shared
  <2> QED
      BY <2>1, <2>2
<1>5. /\ pc'[s] = p /\ pc' \in [Sessions -> Places]
    BY <1>2, <1>4 DEF Goto, Places
<1>6. /\ task' \in [Sessions -> [Tasks -> TaskStates]]
      /\ \A r \in Sessions, u \in Tasks :
             task'[r][u] = IF r = s /\ u \in ts THEN "run" ELSE task[r][u]
    BY <1>2, <1>4, StartTyped DEF JoinWg, Pumps, Tasks
<1>7. /\ connOpen' \in [Sessions -> BOOLEAN] /\ (connOpen'[s] <=> p = "conf")
      /\ \A r \in Sessions \ {s} : connOpen'[r] = connOpen[r]
  <2>1. ~connOpen[s]
      BY <1>1 DEF Staged
  <2> QED
      BY <1>2, <1>4, <2>1
<1>8. OthersStay(s)
    BY <1>3, <1>6, <1>7 DEF OthersStay
<1>9. Staged(s)'
  <2>1. \A t \in Proxy : Running(s, t)' => Running(s, t)
      BY <1>6 DEF Running, JoinWg, Pumps, Proxy, Tasks
  <2>2. ~ran[s] /\ ~slotIn[s] /\ \A t \in Proxy : ~Running(s, t)
      BY <1>1 DEF Staged, Leaving
  <2> QED
      BY <1>3, <1>4, <1>5, <1>7, <2>1, <2>2 DEF Staged, Leaving
<1>10. (\A r \in Sessions : Staged(r))'
    BY <1>4, <1>8, <1>9, MoveStaged DEF Places
<1>11. Balanced'
  <2>1. Shaking' = Shaking
      BY <1>1, <1>4, ShakingMoves DEF Places
  <2>2. active' = Cardinality(Connected')
    <3>1. active = Cardinality(Connected)
        BY DEF Inv, Balanced, Connected
    <3>2. CASE connOpen' = [connOpen EXCEPT ![s] = TRUE] /\ active' = active + 1
        BY <1>1, <1>4, <3>1, <3>2, ConnectedMoves DEF Staged, Places
    <3>3. CASE UNCHANGED <<connOpen, active>>
        BY <1>1, <1>4, <3>1, <3>3, ConnectedMoves DEF Places
    <3> QED
        BY <1>4, <3>2, <3>3
  <2> QED
      BY <1>3, <2>1, <2>2 DEF Inv, Balanced, Shaking, Connected
<1>12. TypeOK'
  <2>1. active' \in 0..Cardinality(Sessions)
      BY <1>11, SetBounds DEF Balanced
  <2>2. pipeOpen' \in [Sessions -> BOOLEAN]
      BY <1>2 DEF AllocateDirect, AllocateDTLS
  <2>3. relayFn' \in [Sessions -> {"off", "armed", "stopped", "fired"}]
      BY <1>2 DEF AllocateDirect, AllocateDTLS, timers
  <2> QED
      BY <1>3, <1>5, <1>6, <1>7, <2>1, <2>2, <2>3 DEF Inv, TypeOK
<1> QED
    BY <1>10, <1>11, <1>12 DEF Inv

(* The handshake: its token is taken before it and given back on both ways    *)
(* out of it.                                                                 *)
LEMMA HandshakeInv ==
    ASSUME Inv, NEW s \in Sessions, AcquireSem(s) \/ Handshake(s) \/ HandshakeFails(s)
    PROVE  Inv'
<1>1. Staged(s)
    BY DEF Inv
<1>2. /\ pc \in [Sessions -> Places] /\ connOpen \in [Sessions -> BOOLEAN]
      /\ sem \in 0..SemCap /\ others \in 0..SemCap /\ SemCap \in Nat
    BY SessionAssumption DEF Inv, TypeOK
<1>3. /\ UNCHANGED <<mode, ctxDone, ran, cancelled, task, timers, pipeOpen, slotIn,
                     others, returnLen>>
    BY DEF AcquireSem, Handshake, HandshakeFails, conns
<1>4. /\ sem = others + Cardinality(Shaking) /\ active = Cardinality(Connected)
      /\ Cardinality(Shaking) \in Nat
    BY SetBounds, FS_CardinalityType DEF Inv, Balanced, Shaking, Connected
<1>5. CASE AcquireSem(s)
  <2>1. /\ pc[s] = "sem" /\ Goto(s, "handshake") /\ sem < SemCap /\ sem' = sem + 1
        /\ UNCHANGED <<connOpen, active>>
      BY <1>5 DEF AcquireSem, SemFree, conns
  <2>2. pc'[s] = "handshake" /\ pc' \in [Sessions -> Places]
      BY <1>2, <2>1 DEF Goto, Places
  <2>3. Cardinality(Shaking') = Cardinality(Shaking) + 1
      BY <2>1, ShakingMoves DEF Places
  <2>4. Balanced'
    <3>1. sem' = others' + Cardinality(Shaking') /\ active' = Cardinality(Connected')
        BY <1>2, <1>3, <1>4, <2>1, <2>3, ConnectedMoves DEF Places
    <3> QED
        BY <3>1 DEF Balanced, Shaking, Connected
  <2>5. sem' \in 0..SemCap
      BY <1>2, <2>1
  <2>6. TypeOK'
      BY <1>3, <2>1, <2>2, <2>5 DEF Inv, TypeOK, timers
  <2>7. OthersStay(s) /\ Staged(s)'
      BY <1>1, <1>3, <2>1, <2>2 DEF OthersStay, Staged, Running, Leaving
  <2>8. (\A r \in Sessions : Staged(r))'
      BY <2>1, <2>7, MoveStaged DEF Places
  <2> QED
      BY <2>4, <2>6, <2>8 DEF Inv
<1>6. CASE Handshake(s)
  <2>1. /\ pc[s] = "handshake" /\ Goto(s, "conf") /\ sem' = sem - 1 /\ active' = active + 1
        /\ connOpen' = [connOpen EXCEPT ![s] = TRUE]
      BY <1>6 DEF Handshake
  <2>2. pc'[s] = "conf" /\ pc' \in [Sessions -> Places]
      BY <1>2, <2>1 DEF Goto, Places
  <2>3. Cardinality(Shaking') = Cardinality(Shaking) - 1 /\ Cardinality(Shaking) > 0
      BY <2>1, ShakingMoves DEF Places
  <2>4. Cardinality(Connected') = Cardinality(Connected) + 1
      BY <1>1, <2>1, ConnectedMoves DEF Staged, Places
  <2>5. Balanced'
    <3>1. sem' = others' + Cardinality(Shaking')
        BY <1>2, <1>3, <1>4, <2>1, <2>3
    <3>2. active' = Cardinality(Connected')
        BY <1>4, <2>1, <2>4
    <3> QED
        BY <3>1, <3>2 DEF Balanced, Shaking, Connected
  <2>6. sem' \in 0..SemCap
      BY <1>2, <1>4, <2>1, <2>3
  <2>7. active' \in 0..Cardinality(Sessions)
      BY <2>5, SetBounds DEF Balanced
  <2>8. /\ connOpen' \in [Sessions -> BOOLEAN] /\ connOpen'[s]
        /\ \A r \in Sessions \ {s} : connOpen'[r] = connOpen[r]
      BY <1>2, <2>1
  <2>9. TypeOK'
      BY <1>3, <2>2, <2>6, <2>7, <2>8 DEF Inv, TypeOK, timers
  <2>10. OthersStay(s) /\ Staged(s)'
      BY <1>1, <1>3, <2>1, <2>2, <2>8 DEF OthersStay, Staged, Running, Leaving
  <2>11. (\A r \in Sessions : Staged(r))'
      BY <2>1, <2>10, MoveStaged DEF Places
  <2> QED
      BY <2>5, <2>9, <2>11 DEF Inv
<1>7. CASE HandshakeFails(s)
  <2>1. /\ pc[s] = "handshake" /\ Goto(s, "unwind") /\ sem' = sem - 1
        /\ UNCHANGED <<connOpen, active>>
      BY <1>7 DEF HandshakeFails, conns
  <2>2. pc'[s] = "unwind" /\ pc' \in [Sessions -> Places]
      BY <1>2, <2>1 DEF Goto, Places
  <2>3. Cardinality(Shaking') = Cardinality(Shaking) - 1 /\ Cardinality(Shaking) > 0
      BY <2>1, ShakingMoves DEF Places
  <2>4. Balanced'
    <3>1. sem' = others' + Cardinality(Shaking') /\ active' = Cardinality(Connected')
        BY <1>2, <1>3, <1>4, <2>1, <2>3, ConnectedMoves DEF Places
    <3> QED
        BY <3>1 DEF Balanced, Shaking, Connected
  <2>5. sem' \in 0..SemCap
      BY <1>2, <1>4, <2>1, <2>3
  <2>6. TypeOK'
      BY <1>3, <2>1, <2>2, <2>5 DEF Inv, TypeOK, timers
  <2>7. OthersStay(s) /\ Staged(s)'
      BY <1>1, <1>3, <2>1, <2>2 DEF OthersStay, Staged, Running, Leaving
  <2>8. (\A r \in Sessions : Staged(r))'
      BY <2>1, <2>7, MoveStaged DEF Places
  <2> QED
      BY <2>4, <2>6, <2>8 DEF Inv
<1> QED
    BY <1>5, <1>6, <1>7

(* Sessions outside Sessions take and give back tokens of their own. *)
LEMMA OtherInv ==
    ASSUME Inv, OtherAcquires \/ OtherReleases
    PROVE  Inv'
<1>1. UNCHANGED <<mode, ctxDone, main, task, timers, conns, active, returnLen>>
    BY DEF OtherAcquires, OtherReleases
<1>2. /\ sem \in 0..SemCap /\ others \in 0..SemCap /\ SemCap \in Nat
      /\ sem = others + Cardinality(Shaking) /\ active = Cardinality(Connected)
      /\ Cardinality(Shaking) \in Nat
    BY SessionAssumption, SetBounds, FS_CardinalityType
    DEF Inv, TypeOK, Balanced, Shaking, Connected
<1>3. /\ sem' \in 0..SemCap /\ others' \in 0..SemCap
      /\ sem' = others' + Cardinality(Shaking)
    BY <1>2 DEF OtherAcquires, OtherReleases, SemFree
<1>4. Balanced'
    BY <1>1, <1>2, <1>3 DEF Balanced, Shaking, Connected, main, conns
<1>5. TypeOK'
    BY <1>1, <1>3 DEF Inv, TypeOK, main, timers, conns
<1>6. (\A s \in Sessions : Staged(s))'
    BY <1>1 DEF Inv, Staged, Running, main, conns
<1> QED
    BY <1>4, <1>5, <1>6 DEF Inv

(* The slot is registered with a connection that is open. *)
LEMMA ServeInv ==
    ASSUME Inv, NEW s \in Sessions, Serve(s)
    PROVE  Inv'
<1>1. Staged(s) /\ pc[s] = "conf" /\ Goto(s, "run") /\ connOpen[s]
    BY DEF Inv, Serve, Staged
<1>2. /\ ran' = [ran EXCEPT ![s] = TRUE] /\ slotIn' = [slotIn EXCEPT ![s] = TRUE]
      /\ connFn' = [connFn EXCEPT ![s] = "armed"]
      /\ UNCHANGED <<mode, ctxDone, cancelled, relayFn, relayPast, deadline, connOpen,
                     pipeOpen, shared>>
    BY DEF Serve
<1>3. PICK ts \in SUBSET (Proxy \cup {"bye"}) : Start(s, ts)
    BY DEF Serve
<1>4. /\ task' \in [Sessions -> [Tasks -> TaskStates]]
      /\ \A r \in Sessions, u \in Tasks :
             task'[r][u] = IF r = s /\ u \in ts THEN "run" ELSE task[r][u]
    BY <1>3, StartTyped DEF Inv, TypeOK, Proxy, Tasks
<1>5. pc'[s] = "run" /\ pc' \in [Sessions -> Places]
    BY <1>1 DEF Inv, TypeOK, Goto, Places
<1>6. /\ ran' \in [Sessions -> BOOLEAN] /\ slotIn' \in [Sessions -> BOOLEAN]
      /\ connFn' \in [Sessions -> {"off", "armed", "stopped", "fired"}]
      /\ slotIn'[s]
      /\ \A r \in Sessions \ {s} : ran'[r] = ran[r] /\ slotIn'[r] = slotIn[r]
    BY <1>2 DEF Inv, TypeOK
<1>7. OthersStay(s)
    BY <1>2, <1>4, <1>6 DEF OthersStay
<1>8. Staged(s)'
    BY <1>1, <1>2, <1>5, <1>6 DEF Staged, Leaving
<1>9. (\A r \in Sessions : Staged(r))'
    BY <1>1, <1>7, <1>8, MoveStaged DEF Places
<1>10. Shaking' = Shaking /\ Connected' = Connected
    BY <1>1, <1>2, ShakingMoves, ConnectedMoves DEF Places
<1>11. Balanced'
    BY <1>2, <1>10 DEF Inv, Balanced, Shaking, Connected, shared
<1>12. TypeOK'
    BY <1>2, <1>4, <1>5, <1>6 DEF Inv, TypeOK, shared
<1> QED
    BY <1>9, <1>11, <1>12 DEF Inv

(* The deferred calls, each a step of its own. *)
LEMMA StopConnInv ==
    ASSUME Inv, NEW s \in Sessions, StopConn(s)
    PROVE  Inv'
<1>1. /\ Staged(s) /\ pc[s] = "unwind" /\ Goto(s, "unslot")
      /\ connFn' = Stopped(s, connFn)
      /\ UNCHANGED <<mode, ctxDone, ran, cancelled, task, relayFn, relayPast, deadline,
                     conns, shared>>
    BY DEF Inv, StopConn, NextDeferred
<1>2. /\ cancelled' \in [Sessions -> BOOLEAN] /\ pipeOpen' \in [Sessions -> BOOLEAN]
      /\ relayFn' \in [Sessions -> {"off", "armed", "stopped", "fired"}]
      /\ slotIn' \in [Sessions -> BOOLEAN]
    BY <1>1 DEF Inv, TypeOK, conns
<1>3. connFn' \in [Sessions -> {"off", "armed", "stopped", "fired"}]
    BY <1>1 DEF Inv, TypeOK, Stopped
<1>4. pc'[s] = "unslot"
    BY <1>1 DEF Inv, TypeOK, Goto
<1>5. Staged(s)'
    BY <1>1, <1>4 DEF Staged, Running, Leaving, conns
<1> QED
    BY <1>1, <1>2, <1>3, <1>5, PlainMove DEF Places, conns

LEMMA DropSlotInv ==
    ASSUME Inv, NEW s \in Sessions, DropSlot(s)
    PROVE  Inv'
<1>1. /\ Staged(s) /\ pc[s] = "unslot" /\ Goto(s, "uncount")
      /\ slotIn' = [slotIn EXCEPT ![s] = FALSE]
      /\ UNCHANGED <<mode, ctxDone, ran, cancelled, task, timers, connOpen, pipeOpen, shared>>
    BY DEF Inv, DropSlot, NextDeferred
<1>2. /\ cancelled' \in [Sessions -> BOOLEAN] /\ pipeOpen' \in [Sessions -> BOOLEAN]
      /\ relayFn' \in [Sessions -> {"off", "armed", "stopped", "fired"}]
      /\ connFn' \in [Sessions -> {"off", "armed", "stopped", "fired"}]
    BY <1>1 DEF Inv, TypeOK, timers
<1>3. /\ slotIn' \in [Sessions -> BOOLEAN] /\ ~slotIn'[s]
      /\ \A r \in Sessions \ {s} : slotIn'[r] = slotIn[r]
    BY <1>1 DEF Inv, TypeOK
<1>4. pc'[s] = "uncount"
    BY <1>1 DEF Inv, TypeOK, Goto
<1>5. Staged(s)'
    BY <1>1, <1>3, <1>4 DEF Staged, Running, Leaving
<1> QED
    BY <1>1, <1>2, <1>3, <1>5, PlainMove DEF Places, timers

LEMMA DiscountInv ==
    ASSUME Inv, NEW s \in Sessions, Discount(s)
    PROVE  Inv'
<1>1. /\ Staged(s) /\ pc[s] = "uncount" /\ Goto(s, "hangup")
      /\ active' = IF connOpen[s] THEN active - 1 ELSE active
      /\ UNCHANGED <<mode, ctxDone, ran, cancelled, task, timers, conns, sem, others, returnLen>>
    BY DEF Inv, Discount, NextDeferred
<1>2. pc'[s] = "hangup" /\ pc' \in [Sessions -> Places]
    BY <1>1 DEF Inv, TypeOK, Goto, Places
<1>3. OthersStay(s) /\ Staged(s)'
    BY <1>1, <1>2 DEF OthersStay, Staged, Running, Leaving, conns
<1>4. (\A r \in Sessions : Staged(r))'
    BY <1>1, <1>3, MoveStaged DEF Places
<1>5. Balanced'
  <2>1. Shaking' = Shaking
      BY <1>1, ShakingMoves DEF Places
  <2>2. active = Cardinality(Connected)
      BY DEF Inv, Balanced, Connected
  <2>3. active' = Cardinality(Connected')
      BY <1>1, <2>2, ConnectedMoves DEF Places, conns
  <2> QED
      BY <1>1, <2>1, <2>3 DEF Inv, Balanced, Shaking, Connected
<1>6. active' \in 0..Cardinality(Sessions)
    BY <1>5, SetBounds DEF Balanced
<1>7. TypeOK'
    BY <1>1, <1>2, <1>6 DEF Inv, TypeOK, timers, conns
<1> QED
    BY <1>4, <1>5, <1>7 DEF Inv

(* The connection is closed after it left the count and the slot has gone.    *)
LEMMA HangUpInv ==
    ASSUME Inv, NEW s \in Sessions, HangUp(s)
    PROVE  Inv'
<1>1. /\ Staged(s) /\ pc[s] = "hangup" /\ Goto(s, "closing")
      /\ connOpen' = [connOpen EXCEPT ![s] = FALSE]
      /\ UNCHANGED <<mode, ctxDone, ran, cancelled, task, timers, pipeOpen, slotIn, shared>>
    BY DEF Inv, HangUp, NextDeferred
<1>2. /\ pc'[s] = "closing" /\ pc' \in [Sessions -> Places]
      /\ \A r \in Sessions \ {s} : pc'[r] = pc[r]
    BY <1>1 DEF Inv, TypeOK, Goto, Places
<1>3. /\ connOpen' \in [Sessions -> BOOLEAN] /\ ~connOpen'[s]
      /\ \A r \in Sessions \ {s} : connOpen'[r] = connOpen[r]
    BY <1>1 DEF Inv, TypeOK
<1>4. OthersStay(s) /\ Staged(s)'
    BY <1>1, <1>2, <1>3 DEF OthersStay, Staged, Running, Leaving
<1>5. (\A r \in Sessions : Staged(r))'
    BY <1>1, <1>4, MoveStaged DEF Places
<1>6. Balanced'
  <2>1. Shaking' = Shaking
      BY <1>1, ShakingMoves DEF Places
  <2>2. Connected' = Connected
      BY <1>1, <1>2, <1>3 DEF Connected
  <2> QED
      BY <1>1, <2>1, <2>2 DEF Inv, Balanced, Shaking, Connected, shared
<1>7. TypeOK'
    BY <1>1, <1>2, <1>3 DEF Inv, TypeOK, timers, shared
<1> QED
    BY <1>5, <1>6, <1>7 DEF Inv

LEMMA NextInv == Inv /\ [Next]_vars => Inv'
<1> SUFFICES ASSUME Inv, [Next]_vars PROVE Inv'
    OBVIOUS
<1>1. CASE UNCHANGED vars
  <2>1. TypeOK'
      BY <1>1 DEF vars, main, timers, conns, shared, Inv, TypeOK
  <2>2. NoneStarts /\ UNCHANGED course
      BY <1>1 DEF vars, main, conns, shared, course, NoneStarts, Running
  <2> QED
      BY <2>1, <2>2, QuietInv
<1>2. CASE CancelCtx \/ WriteLoop \/ OtherAcquires \/ OtherReleases
    BY <1>2, TimerInv, OtherInv
<1>3. ASSUME NEW s \in Sessions,
             \/ Setup(s) \/ AcquireSem(s) \/ Shake(s) \/ Finish(s)
             \/ FireRelay(s) \/ FireConn(s)
      PROVE  Inv'
    BY <1>3, PlainInv, AllocateInv, HandshakeInv, ServeInv, TimerInv,
       StopConnInv, DropSlotInv, DiscountInv, HangUpInv
    DEF Setup, Shake, Finish, Unwind
<1> QED
    BY <1>1, <1>2, <1>3, TaskInv DEF Next

(* The inductive invariant holds throughout. *)
THEOREM Invariance == Spec => []Inv
    BY InitInv, NextInv, PTL DEF Spec

(* Every variable keeps its type, handshakeSem and ReturnCh keep within their *)
(* capacities, and ActiveConnections between zero and the number of sessions. *)
THEOREM TypeCorrect == Spec => []TypeOK
<1>1. Inv => TypeOK
    BY DEF Inv
<1> QED
    BY <1>1, Invariance, PTL

(* No way out of RunSession loses a handshake token or a count: for any       *)
(* number of sessions the tokens in the semaphore are those of the handshakes *)
(* that go on, and ActiveConnections is the number of open connections.       *)
THEOREM BalancedAlways == Spec => []Balanced
<1>1. Inv => Balanced
    BY DEF Inv
<1> QED
    BY <1>1, Invariance, PTL

(* Between any two of the deferred calls, on every way out of RunSession, a   *)
(* registered slot has an open connection, and a proxy goroutine that runs    *)
(* has a registered slot.                                                     *)
THEOREM SlotUsableAlways == Spec => []SlotUsable
<1>1. Inv => SlotUsable
    BY DEF Inv, Staged, SlotUsable
<1> QED
    BY <1>1, Invariance, PTL

(* When RunSession has come past its waits, none of its goroutines but the    *)
(* farewell still runs.                                                       *)
THEOREM JoinedAlways == Spec => []JoinedOnReturn
<1>1. Tasks \ {"bye"} = Proxy \cup JoinWg
    BY DEF Tasks, Proxy, JoinWg, Pumps
<1>2. Inv => JoinedOnReturn
    BY <1>1 DEF Inv, Staged, JoinedOnReturn, Leaving
<1> QED
    BY <1>2, Invariance, PTL
=============================================================================
