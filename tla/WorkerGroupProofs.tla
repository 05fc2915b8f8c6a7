------------------------- MODULE WorkerGroupProofs -------------------------
(***************************************************************************)
(* Theorems about module WorkerGroup, for any finite set of workers.       *)
(***************************************************************************)
EXTENDS WorkerGroup, FiniteSetTheorems, TLAPS

Places == {"asking", "session", "result"}

(* Who holds configRequestInFlight: a worker with getConf is in RunSession or *)
(* just after it, there is one at most, and once a configuration came only    *)
(* the session that got it can still have getConf, so nobody puts the flag    *)
(* down again.                                                                *)
ConfigInv ==
    /\ received \in 0..1
    /\ \A w \in Workers :
          /\ getConf[w] => wpc[w] \in Places
          /\ wpc[w] = "asking" => getConf[w] /\ ~delivered[w]
          /\ delivered[w] => getConf[w] /\ received = 1
          /\ getConf[w] /\ received = 1 => delivered[w]
    /\ \A w \in Workers : \A v \in Workers : getConf[w] /\ getConf[v] => w = v
    /\ inFlight <=> (\E w \in Workers : getConf[w]) \/ received = 1

(* Who holds refreshMu: a worker that fetches, alone, after it saw that the   *)
(* last renewal is old.                                                       *)
RefreshInv ==
    /\ \A w \in Workers : wpc[w] = "fetch" => refreshMu /\ ~recent
    /\ \A w \in Workers : \A v \in Workers : wpc[w] = "fetch" /\ wpc[v] = "fetch" => w = v

(* Workers are started once the credentials came. *)
StartInv == gpc \notin {"running", "returned"} => \A w \in Workers : wpc[w] = "off"

(* The inductive invariant. *)
Inv == TypeOK /\ ConfigInv /\ RefreshInv /\ StartInv

-----------------------------------------------------------------------------
(* Before the group starts. *)
LEMMA InitInv == Init => Inv
<1> SUFFICES ASSUME Init PROVE Inv
    OBVIOUS
<1>1. TypeOK
    <2>1. /\ ctxDone \in BOOLEAN /\ configSent \in BOOLEAN /\ inFlight \in BOOLEAN
          /\ recent \in BOOLEAN /\ refreshMu \in BOOLEAN
        BY DEF Init
    <2>2. /\ signal \in Signals /\ gpc \in GroupPlaces /\ configCh \in 0..1 /\ received \in 0..1
        BY DEF Init, Signals, GroupPlaces
    <2>3. /\ wpc \in [Workers -> WorkerPlaces] /\ sessErr \in [Workers -> SessErrs]
        BY DEF Init, WorkerPlaces, SessErrs
    <2>4. getConf \in [Workers -> BOOLEAN] /\ delivered \in [Workers -> BOOLEAN]
        BY DEF Init
    <2> QED
        BY <2>1, <2>2, <2>3, <2>4 DEF Init, TypeOK
<1>2. ConfigInv
    BY DEF Init, ConfigInv
<1>3. RefreshInv /\ StartInv
    BY DEF Init, RefreshInv, StartInv
<1> QED
    BY <1>1, <1>2, <1>3 DEF Inv

(* A step of the group or of its surroundings that moves no worker. *)
LEMMA NoWorkerMoves ==
    ASSUME Inv, UNCHANGED <<configSent, inFlight, received, refreshMu, worker>>,
           recent' => recent, TypeOK',
           gpc' = gpc \/ gpc \notin {"running", "returned"} \/ gpc' = "returned"
    PROVE  Inv'
<1> USE DEF worker
<1>1. ConfigInv'
    BY DEF Inv, ConfigInv
<1>2. RefreshInv'
    BY DEF Inv, RefreshInv
<1>3. StartInv'
    BY DEF Inv, StartInv
<1> QED
    BY <1>1, <1>2, <1>3 DEF Inv

(* A step of one worker that keeps out of the configuration's way. *)
LEMMA WorkerMoves ==
    ASSUME Inv, NEW w \in Workers, NEW p \in WorkerPlaces, wpc' = [wpc EXCEPT ![w] = p],
           UNCHANGED <<gpc, configSent, inFlight, received, getConf, delivered>>,
           wpc[w] # "off", p # "asking",
           wpc[w] \in Places => p \in Places,
           TypeOK', RefreshInv'
    PROVE  Inv'
<1>1. wpc \in [Workers -> WorkerPlaces]
    BY DEF Inv, TypeOK
<1>2. \A v \in Workers : wpc'[v] = IF v = w THEN p ELSE wpc[v]
    BY <1>1
<1>3. ConfigInv'
    BY <1>2 DEF Inv, ConfigInv
<1>4. StartInv'
    BY <1>2 DEF Inv, StartInv
<1> QED
    BY <1>3, <1>4 DEF Inv

(* A step of one worker that has nothing to do with renewals. *)
LEMMA KeepsRefresh ==
    ASSUME Inv, NEW w \in Workers, NEW p \in WorkerPlaces, wpc' = [wpc EXCEPT ![w] = p],
           p # "fetch", UNCHANGED <<recent, refreshMu>>
    PROVE  RefreshInv'
<1>1. wpc \in [Workers -> WorkerPlaces]
    BY DEF Inv, TypeOK
<1>2. \A v \in Workers : wpc'[v] = IF v = w THEN p ELSE wpc[v]
    BY <1>1
<1> QED
    BY <1>2 DEF Inv, RefreshInv

(* Core.Stop, Pause and Resume, the previous group, the clock and the reader  *)
(* of configCh; the group's own goroutine; the ready signal.                  *)
LEMMA GroupSteps ==
    ASSUME Inv, \/ CancelCtx \/ PauseResume \/ PrevSignals \/ RefreshAges \/ TakeConfig
                \/ Main \/ SignalReady
    PROVE  Inv'
<1> USE DEF group, config, renew, worker
<1>1. CASE CancelCtx
    <2>1. TypeOK'
        BY <1>1 DEF CancelCtx, Inv, TypeOK
    <2> QED
        BY <1>1, <2>1, NoWorkerMoves DEF CancelCtx
<1>2. CASE PauseResume
    <2>1. TypeOK'
        BY <1>2 DEF PauseResume, Inv, TypeOK
    <2> QED
        BY <1>2, <2>1, NoWorkerMoves DEF PauseResume
<1>3. CASE PrevSignals
    <2>1. TypeOK'
        BY <1>3 DEF PrevSignals, Inv, TypeOK
    <2> QED
        BY <1>3, <2>1, NoWorkerMoves DEF PrevSignals
<1>4. CASE RefreshAges
    <2>1. TypeOK'
        BY <1>4 DEF RefreshAges, Inv, TypeOK
    <2> QED
        BY <1>4, <2>1, NoWorkerMoves DEF RefreshAges
<1>5. CASE TakeConfig
    <2>1. TypeOK'
        BY <1>5 DEF TakeConfig, Inv, TypeOK
    <2> QED
        BY <1>5, <2>1, NoWorkerMoves DEF TakeConfig
<1>6. CASE SignalReady
    <2>1. TypeOK'
        BY <1>6 DEF SignalReady, Inv, TypeOK, Signals
    <2> QED
        BY <1>6, <2>1, NoWorkerMoves DEF SignalReady
<1>7. CASE CredsOK
    <2>1. \A w \in Workers : wpc[w] = "off" /\ wpc'[w] = "delay"
        BY <1>7 DEF CredsOK, Inv, StartInv
    <2>2. TypeOK'
        BY <1>7 DEF CredsOK, GoGroup, Inv, TypeOK, GroupPlaces, Signals, WorkerPlaces
    <2>3. ConfigInv'
        BY <1>7, <2>1 DEF CredsOK, GoGroup, Inv, ConfigInv, Places
    <2>4. RefreshInv' /\ StartInv'
        BY <1>7, <2>1 DEF CredsOK, GoGroup, Inv, RefreshInv, StartInv
    <2> QED
        BY <2>2, <2>3, <2>4 DEF Inv
<1>8. CASE WaitReady \/ PauseLoop \/ CredsTop \/ CredsFail \/ Backoff \/ AllDone
    <2>1. \E p \in GroupPlaces : GoGroup(p) /\ (p = "returned" \/ gpc \notin {"running", "returned"})
          /\ UNCHANGED <<signal, worker>>
        BY <1>8 DEF WaitReady, PauseLoop, CredsTop, CredsFail, Backoff, AllDone, GroupPlaces
    <2>2. TypeOK'
        BY <2>1 DEF GoGroup, Inv, TypeOK
    <2> QED
        BY <2>1, <2>2, NoWorkerMoves DEF GoGroup
<1> QED
    BY <1>1, <1>2, <1>3, <1>4, <1>5, <1>6, <1>7, <1>8 DEF Main

(* Delays, the look at configSent and the pauses between sessions. *)
LEMMA PauseSteps ==
    ASSUME Inv, NEW w \in Workers, Delay(w) \/ TopExit(w) \/ LoadSent(w) \/ Sleep(w)
    PROVE  Inv'
<1> USE DEF group, config, renew
<1>1. PICK p \in {"top", "exit", "swap", "session"} :
          /\ wpc' = [wpc EXCEPT ![w] = p] /\ wpc[w] \in {"delay", "top", "sleep"}
          /\ UNCHANGED <<getConfig, ctxDone, paused, prevReady, signal, gpc, configSent, inFlight,
                         configCh, received, recent, refreshMu, getConf, delivered, sessErr>>
    BY DEF Delay, TopExit, LoadSent, Sleep, GoWorker
<1>2. p \in WorkerPlaces
    BY DEF WorkerPlaces
<1>3. TypeOK'
    BY <1>1, <1>2 DEF Inv, TypeOK
<1>4. RefreshInv'
    BY <1>1, <1>2, KeepsRefresh
<1> QED
    BY <1>1, <1>2, <1>3, <1>4, WorkerMoves DEF Places

(* The compare-and-swap: only a worker that finds the flag down asks. *)
LEMMA SwapStep ==
    ASSUME Inv, NEW w \in Workers, SwapFlag(w)
    PROVE  Inv'
<1> USE DEF group, renew
<1> DEFINE p == IF inFlight THEN "session" ELSE "asking"
<1>1. /\ wpc[w] = "swap" /\ wpc' = [wpc EXCEPT ![w] = p] /\ inFlight' = TRUE
      /\ getConf' = [getConf EXCEPT ![w] = ~inFlight]
      /\ UNCHANGED <<getConfig, ctxDone, paused, prevReady, signal, gpc, configSent,
                     configCh, received, recent, refreshMu, delivered, sessErr>>
    BY DEF SwapFlag, GoWorker
<1>2. p \in WorkerPlaces /\ p # "fetch" /\ p \in Places
    BY DEF WorkerPlaces, Places
<1>3. wpc \in [Workers -> WorkerPlaces] /\ getConf \in [Workers -> BOOLEAN]
    BY DEF Inv, TypeOK
<1>4. TypeOK'
    <2>1. getConf' \in [Workers -> BOOLEAN]
        BY <1>1, <1>3
    <2>2. wpc' \in [Workers -> WorkerPlaces]
        BY <1>1, <1>2, <1>3
    <2>3. inFlight' \in BOOLEAN
        BY <1>1
    <2> QED
        BY <1>1, <2>1, <2>2, <2>3 DEF Inv, TypeOK
<1>5. RefreshInv'
    BY <1>1, <1>2, KeepsRefresh
<1>6. \A v \in Workers : wpc'[v] = IF v = w THEN p ELSE wpc[v]
    BY <1>1, <1>3
<1>7. \A v \in Workers : getConf'[v] = IF v = w THEN ~inFlight ELSE getConf[v]
    BY <1>1, <1>3
<1>8. StartInv'
    BY <1>1, <1>6 DEF Inv, StartInv
<1>9. ~getConf[w] /\ ~delivered[w]
    BY <1>1 DEF Inv, ConfigInv, Places
<1>10. CASE inFlight
    <2>1. p = "session" /\ \A v \in Workers : getConf'[v] <=> getConf[v]
        BY <1>7, <1>9, <1>10
    <2> HIDE DEF p
    <2>2. ConfigInv'
        BY <1>1, <1>2, <1>6, <1>9, <1>10, <2>1 DEF Inv, ConfigInv
    <2> QED
        BY <1>4, <1>5, <1>8, <2>2 DEF Inv
<1>11. CASE ~inFlight
    <2>1. received = 0 /\ \A v \in Workers : ~getConf[v] /\ ~delivered[v]
        BY <1>11 DEF Inv, ConfigInv
    <2>2. p = "asking"
        BY <1>11
    <2> HIDE DEF p
    <2>3. ConfigInv'
        BY <1>1, <1>2, <1>6, <1>7, <1>11, <2>1, <2>2 DEF Inv, ConfigInv
    <2> QED
        BY <1>4, <1>5, <1>8, <2>3 DEF Inv
<1> QED
    BY <1>4, <1>5, <1>8, <1>10, <1>11 DEF Inv

(* The server answers, once at most: the asking session is the only one. *)
LEMMA AnswerStep ==
    ASSUME Inv, NEW w \in Workers, ConfigAnswer(w)
    PROVE  Inv'
<1> USE DEF group, renew
<1>1. /\ wpc[w] = "asking" /\ wpc' = [wpc EXCEPT ![w] = "session"]
      /\ UNCHANGED <<getConfig, ctxDone, paused, prevReady, signal, gpc, configSent, inFlight,
                     recent, refreshMu, getConf, sessErr>>
      /\ \/ /\ delivered' = [delivered EXCEPT ![w] = TRUE]
            /\ received' = received + 1
            /\ configCh' = 1
         \/ UNCHANGED <<delivered, received, configCh>>
    BY DEF ConfigAnswer, GoWorker
<1>2. "session" \in WorkerPlaces /\ "session" \in Places
    BY DEF WorkerPlaces, Places
<1>3. wpc \in [Workers -> WorkerPlaces] /\ delivered \in [Workers -> BOOLEAN]
    BY DEF Inv, TypeOK
<1>4. getConf[w] /\ ~delivered[w] /\ received = 0
    BY <1>1 DEF Inv, ConfigInv
<1>5. TypeOK'
    <2>1. wpc' \in [Workers -> WorkerPlaces]
        BY <1>1, <1>2, <1>3
    <2>2. delivered' \in [Workers -> BOOLEAN]
        BY <1>1, <1>3
    <2>3. received' \in 0..1 /\ configCh' \in 0..1
        BY <1>1, <1>4 DEF Inv, TypeOK
    <2> QED
        BY <1>1, <2>1, <2>2, <2>3 DEF Inv, TypeOK
<1>6. RefreshInv'
    BY <1>1, <1>2, KeepsRefresh
<1>7. \A v \in Workers : wpc'[v] = IF v = w THEN "session" ELSE wpc[v]
    BY <1>1, <1>3
<1>8. StartInv'
    BY <1>1, <1>7 DEF Inv, StartInv
<1>9. CASE UNCHANGED <<delivered, received, configCh>>
    BY <1>1, <1>2, <1>5, <1>6, <1>9, WorkerMoves
<1>10. CASE delivered' = [delivered EXCEPT ![w] = TRUE] /\ received' = received + 1
    <2>1. \A v \in Workers : delivered'[v] = IF v = w THEN TRUE ELSE delivered[v]
        BY <1>3, <1>10
    <2>2. received' = 1
        BY <1>4, <1>10
    <2>3. \A v \in Workers : v # w => ~getConf[v] /\ ~delivered[v] /\ wpc[v] # "asking"
        BY <1>4 DEF Inv, ConfigInv
    <2>4. inFlight
        BY <1>4 DEF Inv, ConfigInv
    <2>5. ConfigInv'
        <3>1. \A v \in Workers : getConf'[v] <=> v = w
            BY <1>1, <1>4, <2>3
        <3>2. ASSUME NEW v \in Workers
              PROVE  /\ getConf'[v] => wpc'[v] \in Places
                     /\ wpc'[v] = "asking" => getConf'[v] /\ ~delivered'[v]
                     /\ delivered'[v] => getConf'[v] /\ received' = 1
                     /\ getConf'[v] /\ received' = 1 => delivered'[v]
            BY <1>2, <1>7, <2>1, <2>2, <2>3, <3>1
        <3>3. \A x \in Workers : \A y \in Workers : getConf'[x] /\ getConf'[y] => x = y
            BY <3>1
        <3>4. inFlight' <=> (\E v \in Workers : getConf'[v]) \/ received' = 1
            BY <1>1, <2>2, <2>4
        <3>5. received' \in 0..1
            BY <2>2
        <3> QED
            BY <3>2, <3>3, <3>4, <3>5 DEF ConfigInv
    <2> QED
        BY <1>5, <1>6, <1>8, <2>5 DEF Inv
<1> QED
    BY <1>1, <1>9, <1>10

(* RunSession returns with some error. *)
LEMMA EndStep ==
    ASSUME Inv, NEW w \in Workers, EndSession(w)
    PROVE  Inv'
<1> USE DEF group, config, renew
<1>1. /\ wpc[w] \in {"asking", "session"} /\ wpc' = [wpc EXCEPT ![w] = "result"]
      /\ \E e \in SessErrs : sessErr' = [sessErr EXCEPT ![w] = e]
      /\ UNCHANGED <<getConfig, ctxDone, paused, prevReady, signal, gpc, configSent, inFlight,
                     configCh, received, recent, refreshMu, getConf, delivered>>
    BY DEF EndSession, GoWorker
<1>2. "result" \in WorkerPlaces /\ "result" \in Places
    BY DEF WorkerPlaces, Places
<1>3. TypeOK'
    BY <1>1, <1>2 DEF Inv, TypeOK
<1>4. RefreshInv'
    BY <1>1, <1>2, KeepsRefresh
<1> QED
    BY <1>1, <1>2, <1>3, <1>4, WorkerMoves

(* The worker settles the flag: it stays up after a delivery, and goes down   *)
(* when the session that asked brought nothing.                               *)
LEMMA ResultStep ==
    ASSUME Inv, NEW w \in Workers, Result(w)
    PROVE  Inv'
<1> USE DEF group, renew
<1> DEFINE p == AfterError(w)
<1>1. /\ wpc[w] = "result" /\ wpc' = [wpc EXCEPT ![w] = p]
      /\ configSent' = (configSent \/ (getConf[w] /\ delivered[w]))
      /\ inFlight' = (inFlight /\ ~(getConf[w] /\ ~delivered[w]))
      /\ getConf' = [getConf EXCEPT ![w] = FALSE]
      /\ delivered' = [delivered EXCEPT ![w] = FALSE]
      /\ sessErr' = [sessErr EXCEPT ![w] = "nil"]
      /\ UNCHANGED <<getConfig, ctxDone, paused, prevReady, signal, gpc,
                     configCh, received, recent, refreshMu>>
    BY DEF Result, GoWorker, ReleaseFlag
<1>2. p \in {"exit", "lock", "sleep"}
    BY DEF AfterError
<1> HIDE DEF p
<1>3. p \in WorkerPlaces /\ p # "fetch" /\ p # "asking" /\ "nil" \in SessErrs
    BY <1>2 DEF WorkerPlaces, SessErrs
<1>4. /\ wpc \in [Workers -> WorkerPlaces] /\ getConf \in [Workers -> BOOLEAN]
      /\ delivered \in [Workers -> BOOLEAN] /\ inFlight \in BOOLEAN /\ configSent \in BOOLEAN
    BY DEF Inv, TypeOK
<1>5. TypeOK'
    <2>1. wpc' \in [Workers -> WorkerPlaces] /\ sessErr' \in [Workers -> SessErrs]
        BY <1>1, <1>3, <1>4 DEF Inv, TypeOK
    <2>2. getConf' \in [Workers -> BOOLEAN] /\ delivered' \in [Workers -> BOOLEAN]
        BY <1>1, <1>4
    <2>3. inFlight' \in BOOLEAN /\ configSent' \in BOOLEAN
        BY <1>1
    <2> QED
        BY <1>1, <2>1, <2>2, <2>3 DEF Inv, TypeOK
<1>6. RefreshInv'
    BY <1>1, <1>3, KeepsRefresh
<1>7. \A v \in Workers : wpc'[v] = IF v = w THEN p ELSE wpc[v]
    BY <1>1, <1>4
<1>8. StartInv'
    BY <1>1, <1>7 DEF Inv, StartInv
<1>9. \A v \in Workers : /\ getConf'[v] = IF v = w THEN FALSE ELSE getConf[v]
                         /\ delivered'[v] = IF v = w THEN FALSE ELSE delivered[v]
    BY <1>1, <1>4
<1>10. inFlight' <=> (\E v \in Workers : getConf'[v]) \/ received' = 1
    <2>1. CASE getConf[w]
        <3>1. \A v \in Workers : ~getConf'[v]
            BY <1>9, <2>1 DEF Inv, ConfigInv
        <3>2. inFlight /\ (delivered[w] <=> received = 1)
            BY <2>1 DEF Inv, ConfigInv
        <3> QED
            BY <1>1, <2>1, <3>1, <3>2
    <2>2. CASE ~getConf[w]
        <3>1. \A v \in Workers : getConf'[v] <=> getConf[v]
            BY <1>9, <2>2
        <3> QED
            BY <1>1, <2>2, <3>1 DEF Inv, ConfigInv
    <2> QED
        BY <2>1, <2>2
<1>11. ConfigInv'
    <2>1. ASSUME NEW v \in Workers
          PROVE  /\ getConf'[v] => wpc'[v] \in Places
                 /\ wpc'[v] = "asking" => getConf'[v] /\ ~delivered'[v]
                 /\ delivered'[v] => getConf'[v] /\ received' = 1
                 /\ getConf'[v] /\ received' = 1 => delivered'[v]
        <3>1. CASE v = w
            BY <1>3, <1>7, <1>9, <3>1
        <3>2. CASE v # w
            BY <1>1, <1>7, <1>9, <3>2 DEF Inv, ConfigInv
        <3> QED
            BY <3>1, <3>2
    <2>2. \A x \in Workers : \A y \in Workers : getConf'[x] /\ getConf'[y] => x = y
        BY <1>9 DEF Inv, ConfigInv
    <2>3. received' \in 0..1
        BY <1>1 DEF Inv, ConfigInv
    <2> QED
        BY <1>10, <2>1, <2>2, <2>3 DEF ConfigInv
<1> QED
    BY <1>5, <1>6, <1>8, <1>11 DEF Inv

(* refreshCreds: the mutex lets one worker fetch, and only if the last        *)
(* renewal is old.                                                            *)
LEMMA RefreshSteps ==
    ASSUME Inv, NEW w \in Workers, Refresh(w) \/ Fetched(w)
    PROVE  Inv'
<1> USE DEF group, config
<1>1. wpc \in [Workers -> WorkerPlaces]
    BY DEF Inv, TypeOK
<1>2. /\ "fetch" \in WorkerPlaces /\ "sleep" \in WorkerPlaces /\ "exit" \in WorkerPlaces
      /\ Places \cap {"fetch", "sleep", "exit", "lock"} = {}
    BY DEF WorkerPlaces, Places
<1>3. CASE Refresh(w)
    <2>1. PICK p \in {"fetch", "sleep", "exit"} :
              /\ wpc' = [wpc EXCEPT ![w] = p] /\ wpc[w] = "lock" /\ ~refreshMu
              /\ \/ p # "fetch" /\ UNCHANGED refreshMu
                 \/ p = "fetch" /\ ~recent /\ refreshMu' = TRUE
              /\ UNCHANGED <<getConfig, ctxDone, paused, prevReady, signal, gpc, configSent, inFlight,
                             configCh, received, recent, getConf, delivered, sessErr>>
        BY <1>3 DEF Refresh, GoWorker, RefreshThrottled, AfterRefresh
    <2>2. \A v \in Workers : wpc'[v] = IF v = w THEN p ELSE wpc[v]
        BY <1>1, <2>1
    <2>3. \A v \in Workers : wpc[v] # "fetch"
        BY <2>1 DEF Inv, RefreshInv
    <2>4. RefreshInv'
        BY <2>1, <2>2, <2>3 DEF RefreshInv
    <2>5. refreshMu' \in BOOLEAN
        BY <2>1 DEF Inv, TypeOK
    <2>6. TypeOK'
        BY <1>2, <2>1, <2>5 DEF Inv, TypeOK
    <2> QED
        BY <1>2, <2>1, <2>4, <2>6, WorkerMoves
<1>4. CASE Fetched(w)
    <2>1. PICK p \in {"sleep", "exit"} :
              /\ wpc' = [wpc EXCEPT ![w] = p] /\ wpc[w] = "fetch" /\ refreshMu' = FALSE
              /\ recent' \in {recent, TRUE}
              /\ UNCHANGED <<getConfig, ctxDone, paused, prevReady, signal, gpc, configSent, inFlight,
                             configCh, received, getConf, delivered, sessErr>>
        BY <1>4 DEF Fetched, GoWorker, AfterRefresh
    <2>2. \A v \in Workers : wpc'[v] = IF v = w THEN p ELSE wpc[v]
        BY <1>1, <2>1
    <2>3. \A v \in Workers : v # w => wpc[v] # "fetch"
        BY <2>1 DEF Inv, RefreshInv
    <2>4. RefreshInv'
        BY <2>1, <2>2, <2>3 DEF RefreshInv
    <2>5. refreshMu' \in BOOLEAN /\ recent' \in BOOLEAN
        BY <2>1 DEF Inv, TypeOK
    <2>6. TypeOK'
        BY <1>2, <2>1, <2>5 DEF Inv, TypeOK
    <2> QED
        BY <1>2, <2>1, <2>4, <2>6, WorkerMoves
<1> QED
    BY <1>3, <1>4

(* Every step keeps the invariant. *)
LEMMA NextInv == Inv /\ [Next]_vars => Inv'
<1> SUFFICES ASSUME Inv, [Next]_vars PROVE Inv'
    OBVIOUS
<1>1. CASE UNCHANGED vars
    BY <1>1 DEF vars, group, config, renew, worker, Inv, TypeOK, ConfigInv, RefreshInv, StartInv
<1>2. CASE CancelCtx \/ PauseResume \/ PrevSignals \/ RefreshAges \/ TakeConfig \/ Main \/ SignalReady
    BY <1>2, GroupSteps
<1>3. ASSUME NEW w \in Workers, Step(w) PROVE Inv'
    BY <1>3, PauseSteps, SwapStep, ResultStep, RefreshSteps DEF Step
<1>4. ASSUME NEW w \in Workers, ConfigAnswer(w) \/ EndSession(w) PROVE Inv'
    BY <1>4, AnswerStep, EndStep
<1> QED
    BY <1>1, <1>2, <1>3, <1>4 DEF Next

(* The group keeps Inv for ever. *)
THEOREM Invariance == Spec => []Inv
BY InitInv, NextInv, PTL DEF Spec

(* All state keeps its type; in particular one configuration is received at   *)
(* most, so the send to configCh, of capacity one, never finds it full.       *)
THEOREM TypeCorrect == Spec => []TypeOK
<1>1. Inv => TypeOK
    BY DEF Inv
<1> QED
    BY <1>1, Invariance, PTL

(* A set whose elements are all equal has at most one. *)
LEMMA AtMostOne ==
    ASSUME NEW S, \A x \in S : \A y \in S : x = y
    PROVE  Cardinality(S) <= 1
<1>1. CASE S = {}
    BY <1>1, FS_EmptySet
<1>2. CASE S # {}
    <2>1. PICK x \in S : S = {x}
        BY <1>2
    <2> QED
        BY <2>1, FS_Singleton
<1> QED
    BY <1>1, <1>2

(* One session at a time asks for the configuration, it is delivered once,    *)
(* and the flag is never left up with nobody to ask.                          *)
THEOREM SingleFlight == Spec => []ConfigSingleFlight
<1>1. Inv => ConfigSingleFlight
    <2> SUFFICES ASSUME Inv PROVE ConfigSingleFlight
        OBVIOUS
    <2>1. received <= 1
        BY DEF Inv, ConfigInv
    <2>2. Cardinality({w \in Workers : getConf[w]}) <= 1
        BY AtMostOne DEF Inv, ConfigInv
    <2>3. inFlight <=> (\E w \in Workers : getConf[w]) \/ received = 1
        BY DEF Inv, ConfigInv
    <2> QED
        BY <2>1, <2>2, <2>3 DEF ConfigSingleFlight
<1> QED
    BY <1>1, Invariance, PTL

(* Waiters for refreshMu never renew what was renewed while they waited.      *)
THEOREM OneRenewal == Spec => []RefreshOnce
<1>1. Inv => RefreshOnce
    <2> SUFFICES ASSUME Inv PROVE RefreshOnce
        OBVIOUS
    <2>1. \A w \in Workers : wpc[w] = "fetch" => ~recent
        BY DEF Inv, RefreshInv
    <2>2. Cardinality({w \in Workers : wpc[w] = "fetch"}) <= 1
        BY AtMostOne DEF Inv, RefreshInv
    <2> QED
        BY <2>1, <2>2 DEF RefreshOnce
<1> QED
    BY <1>1, Invariance, PTL
=============================================================================
