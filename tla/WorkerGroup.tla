---------------------------- MODULE WorkerGroup ----------------------------
(***************************************************************************)
(* internal/core/group.go: WorkerGroup, the goroutine of one group and the *)
(* workers it starts.  Every worker calls RunSession again and again; the  *)
(* group fetches the TURN credentials once, its workers renew them, and    *)
(* exactly one session at a time asks the server for the tunnel's          *)
(* configuration.  RunSession is its contract with the group: it may get a *)
(* configuration answer and it ends with a class of error (module Session  *)
(* shows that it ends).  Times are reduced to their order; delays just end.*)
(***************************************************************************)
EXTENDS Integers, FiniteSets

CONSTANT Workers   \* the group's workers (9 in the code)

ASSUME GroupAssumption == IsFiniteSet(Workers)

VARIABLES
    getConfig,     \* parameter: this is the first group
    ctxDone,       \* ctx is cancelled
    paused,        \* *pauseFlag
    prevReady,     \* waitReady is closed
    signal,        \* the goroutine that closes signalReady, see Signals
    gpc,           \* where the group's goroutine is, see GroupPlaces
    configSent,    \* configSent
    inFlight,      \* configRequestInFlight
    configCh,      \* packets in configCh, of capacity 1
    received,      \* history: configurations sessions got from the server
    recent,        \* lastCredRefresh is less than 15 s ago
    refreshMu,     \* refreshMu is held
    wpc,           \* where each worker is, see WorkerPlaces
    getConf,       \* worker's getConf
    delivered,     \* configDelivered of its session
    sessErr        \* class of the error its session ended with

group  == <<getConfig, ctxDone, paused, prevReady, signal, gpc>>
config == <<configSent, inFlight, configCh, received>>
renew  == <<recent, refreshMu>>
worker == <<wpc, getConf, delivered, sessErr>>
vars   == <<group, config, renew, worker>>

Signals      == {"off", "armed", "closed", "dropped"}
GroupPlaces  == {"wait", "pause", "credsTop", "creds", "backoff", "running", "returned"}
WorkerPlaces == {"off", "delay", "top", "swap", "asking", "session", "result",
                 "lock", "fetch", "sleep", "exit"}
SessErrs     == {"nil", "fatal", "death", "quota", "renew", "other"}

Init ==
    /\ getConfig \in BOOLEAN /\ ctxDone = FALSE /\ paused \in BOOLEAN
    /\ prevReady \in BOOLEAN /\ signal = "off" /\ gpc = "wait"
    /\ configSent = ~getConfig /\ inFlight = FALSE /\ configCh = 0 /\ received = 0
    /\ recent = FALSE /\ refreshMu = FALSE
    /\ wpc = [w \in Workers |-> "off"] /\ getConf = [w \in Workers |-> FALSE]
    /\ delivered = [w \in Workers |-> FALSE] /\ sessErr = [w \in Workers |-> "nil"]

(***************************************************************************)
(* Around the group: Core.Stop, Core.Pause and Resume, the previous group, *)
(* the clock, and Core's goroutine that reads one configuration.           *)
(***************************************************************************)
CancelCtx ==
    /\ ~ctxDone /\ ctxDone' = TRUE
    /\ UNCHANGED <<getConfig, paused, prevReady, signal, gpc, config, renew, worker>>

PauseResume ==
    /\ paused' = ~paused
    /\ UNCHANGED <<getConfig, ctxDone, prevReady, signal, gpc, config, renew, worker>>

PrevSignals ==
    /\ ~prevReady /\ prevReady' = TRUE
    /\ UNCHANGED <<getConfig, ctxDone, paused, signal, gpc, config, renew, worker>>

RefreshAges ==
    /\ recent /\ recent' = FALSE
    /\ UNCHANGED <<group, config, refreshMu, worker>>

(* The reader of configCh takes one configuration and ends. *)
TakeConfig ==
    /\ configCh = 1 /\ received = 1 /\ configCh' = 0
    /\ UNCHANGED <<group, configSent, inFlight, received, renew, worker>>

(***************************************************************************)
(* The group's goroutine.                                                  *)
(***************************************************************************)
GoGroup(p) ==
    /\ gpc' = p
    /\ UNCHANGED <<getConfig, ctxDone, paused, prevReady, config, renew>>

(* The first group has no waitReady. *)
WaitReady ==
    /\ gpc = "wait"
    /\ \/ (getConfig \/ prevReady) /\ GoGroup("pause")
       \/ ~getConfig /\ ctxDone /\ GoGroup("returned")
    /\ UNCHANGED <<signal, worker>>

(* mutant: the pause loop does not look at ctx *)
PauseLoop_NoCtx ==
    /\ gpc = "pause" /\ ~paused /\ GoGroup("credsTop")
    /\ UNCHANGED <<signal, worker>>

PauseLoop ==
    /\ gpc = "pause"
    /\ \/ ~paused /\ GoGroup("credsTop")
       \/ paused /\ ctxDone /\ GoGroup("returned")
    /\ UNCHANGED <<signal, worker>>

CredsTop ==
    /\ gpc = "credsTop"
    /\ GoGroup(IF ctxDone THEN "returned" ELSE "creds")
    /\ UNCHANGED <<signal, worker>>

(* GetCreds succeeds: the ready goroutine and the workers start *)
CredsOK ==
    /\ gpc = "creds" /\ GoGroup("running")
    /\ signal' = "armed"
    /\ wpc' = [w \in Workers |-> "delay"]
    /\ UNCHANGED <<getConf, delivered, sessErr>>

(* it fails: with FATAL_AUTH or a cancelled context the group ends *)
CredsFail ==
    /\ gpc = "creds"
    /\ \E p \in {"returned", "backoff"} : GoGroup(p)
    /\ UNCHANGED <<signal, worker>>

Backoff ==
    /\ gpc = "backoff"
    /\ \/ GoGroup("credsTop")
       \/ ctxDone /\ GoGroup("returned")
    /\ UNCHANGED <<signal, worker>>

(* wg.Wait() *)
AllDone ==
    /\ gpc = "running" /\ \A w \in Workers : wpc[w] = "exit"
    /\ GoGroup("returned")
    /\ UNCHANGED <<signal, worker>>

Main == WaitReady \/ PauseLoop \/ CredsTop \/ CredsOK \/ CredsFail \/ Backoff \/ AllDone

(* close(signalReady) half a second after the credentials came *)
SignalReady ==
    /\ signal = "armed"
    /\ signal' = IF ctxDone THEN "dropped" ELSE "closed"
    /\ UNCHANGED <<getConfig, ctxDone, paused, prevReady, gpc, config, renew, worker>>

(***************************************************************************)
(* The workers.                                                            *)
(***************************************************************************)
GoWorker(w, p) == wpc' = [wpc EXCEPT ![w] = p]

Delay(w) ==
    /\ wpc[w] = "delay"
    /\ \/ GoWorker(w, "top")
       \/ ctxDone /\ GoWorker(w, "exit")
    /\ UNCHANGED <<group, config, renew, getConf, delivered, sessErr>>

TopExit(w) ==
    /\ wpc[w] = "top" /\ ctxDone /\ GoWorker(w, "exit")
    /\ UNCHANGED <<group, config, renew, getConf, delivered, sessErr>>

(* atomic.LoadInt32(&configSent) decides whether the worker tries to ask ... *)
LoadSent(w) ==
    /\ wpc[w] = "top" /\ ~ctxDone
    /\ GoWorker(w, IF getConfig /\ ~configSent THEN "swap" ELSE "session")
    /\ UNCHANGED <<group, config, renew, getConf, delivered, sessErr>>

(* mutant: a plain store instead of the compare-and-swap *)
SwapFlag_Store(w) ==
    /\ wpc[w] = "swap"
    /\ getConf' = [getConf EXCEPT ![w] = TRUE]
    /\ inFlight' = TRUE
    /\ GoWorker(w, "asking")
    /\ UNCHANGED <<group, configSent, configCh, received, renew, delivered, sessErr>>

(* ... which it does if the compare-and-swap of the flag succeeds; then the    *)
(* credentials are copied under credsMu and RunSession starts.                *)
SwapFlag(w) ==
    /\ wpc[w] = "swap"
    /\ getConf' = [getConf EXCEPT ![w] = ~inFlight]
    /\ inFlight' = TRUE
    /\ GoWorker(w, IF inFlight THEN "session" ELSE "asking")
    /\ UNCHANGED <<group, configSent, configCh, received, renew, delivered, sessErr>>

(* The server answers the request for a configuration: with one, which is     *)
(* sent to configCh if that has room, with NOCONF or an error.                *)
ConfigAnswer(w) ==
    /\ wpc[w] = "asking" /\ GoWorker(w, "session")
    /\ \/ /\ delivered' = [delivered EXCEPT ![w] = TRUE]
          /\ received' = received + 1
          /\ configCh' = 1
       \/ UNCHANGED <<delivered, received, configCh>>
    /\ UNCHANGED <<group, configSent, inFlight, renew, getConf, sessErr>>

(* RunSession returns; FATAL_AUTH is an answer to the request. *)
EndSession(w) ==
    /\ wpc[w] \in {"asking", "session"} /\ GoWorker(w, "result")
    /\ \E e \in SessErrs :
          /\ e = "fatal" => wpc[w] = "asking"
          /\ sessErr' = [sessErr EXCEPT ![w] = e]
    /\ UNCHANGED <<group, config, renew, getConf, delivered>>

(* What the worker does about the error: FATAL_AUTH and socket errors end it, *)
(* credential errors renew the credentials, the others just wait.             *)
AfterError(w) ==
    IF ctxDone \/ sessErr[w] \in {"fatal", "death"} THEN "exit"
    ELSE IF sessErr[w] = "renew" THEN "lock"
    ELSE "sleep"

(* mutant: the flag is put down also after a delivery *)
ReleaseFlag_Always(w) == getConf[w]

ReleaseFlag(w) == getConf[w] /\ ~delivered[w]

Result(w) ==
    /\ wpc[w] = "result"
    /\ configSent' = (configSent \/ (getConf[w] /\ delivered[w]))
    /\ inFlight' = (inFlight /\ ~ReleaseFlag(w))
    /\ getConf' = [getConf EXCEPT ![w] = FALSE]
    /\ delivered' = [delivered EXCEPT ![w] = FALSE]
    /\ sessErr' = [sessErr EXCEPT ![w] = "nil"]
    /\ GoWorker(w, AfterError(w))
    /\ UNCHANGED <<group, configCh, received, renew>>

(* mutant: every waiter renews *)
RefreshThrottled_Never == FALSE

(* refreshCreds, under refreshMu: nothing to do within 15 s of the last one *)
RefreshThrottled == recent

(* A socket error that also was a credential error ends the worker, but only  *)
(* after it renewed the credentials.                                          *)
AfterRefresh == IF ctxDone THEN {"exit"} ELSE {"exit", "sleep"}

Refresh(w) ==
    /\ wpc[w] = "lock" /\ ~refreshMu
    /\ IF RefreshThrottled
       THEN (\E p \in AfterRefresh : GoWorker(w, p)) /\ UNCHANGED refreshMu
       ELSE GoWorker(w, "fetch") /\ refreshMu' = TRUE
    /\ UNCHANGED <<group, config, recent, getConf, delivered, sessErr>>

(* GetCreds, with 20 s of its own: ctx does not stop it *)
Fetched(w) ==
    /\ wpc[w] = "fetch" /\ refreshMu' = FALSE
    /\ recent' \in {recent, TRUE}  \* it may fail
    /\ \E p \in AfterRefresh : GoWorker(w, p)
    /\ UNCHANGED <<group, config, getConf, delivered, sessErr>>

Sleep(w) ==
    /\ wpc[w] = "sleep"
    /\ \/ GoWorker(w, "top")
       \/ ctxDone /\ GoWorker(w, "exit")
    /\ UNCHANGED <<group, config, renew, getConf, delivered, sessErr>>

Step(w) ==
    \/ Delay(w) \/ TopExit(w) \/ LoadSent(w) \/ SwapFlag(w)
    \/ Result(w) \/ Refresh(w) \/ Fetched(w) \/ Sleep(w)

Next ==
    \/ CancelCtx \/ PauseResume \/ PrevSignals \/ RefreshAges \/ TakeConfig
    \/ Main \/ SignalReady
    \/ \E w \in Workers : Step(w) \/ ConfigAnswer(w) \/ EndSession(w)

Spec == Init /\ [][Next]_vars

(* Goroutines run, delays and calls with a timeout end, waiters of a Go mutex *)
(* do not starve.  A session lasts as long as its connection; it ends when    *)
(* the context is cancelled (Session!SessionEnds).                            *)
Fairness ==
    /\ WF_vars(Main) /\ WF_vars(SignalReady) /\ WF_vars(TakeConfig)
    /\ \A w \in Workers :
          /\ WF_vars(Step(w)) /\ SF_vars(Refresh(w))
          /\ WF_vars(ConfigAnswer(w)) /\ WF_vars(ctxDone /\ EndSession(w))

FairSpec == Spec /\ Fairness

-----------------------------------------------------------------------------
TypeOK ==
    /\ getConfig \in BOOLEAN /\ ctxDone \in BOOLEAN /\ paused \in BOOLEAN
    /\ prevReady \in BOOLEAN /\ signal \in Signals /\ gpc \in GroupPlaces
    /\ configSent \in BOOLEAN /\ inFlight \in BOOLEAN
    /\ configCh \in 0..1 /\ received \in 0..1
    /\ recent \in BOOLEAN /\ refreshMu \in BOOLEAN
    /\ wpc \in [Workers -> WorkerPlaces] /\ getConf \in [Workers -> BOOLEAN]
    /\ delivered \in [Workers -> BOOLEAN] /\ sessErr \in [Workers -> SessErrs]

(* The configuration is delivered at most once in the life of a group, and    *)
(* the flag configRequestInFlight is never lost: it is up exactly while one   *)
(* worker's session is the asking one, or for good once it was delivered.  No *)
(* way out of RunSession leaves it up with nobody to ask.                     *)
ConfigSingleFlight ==
    /\ received <= 1
    /\ Cardinality({w \in Workers : getConf[w]}) <= 1
    /\ inFlight <=> (\E w \in Workers : getConf[w]) \/ received = 1

(* Workers whose sessions failed on the same old credentials queue up for     *)
(* refreshMu; the first renews them and none of the others asks VK again      *)
(* within the next 15 seconds.                                                *)
RefreshOnce ==
    /\ \A w \in Workers : wpc[w] = "fetch" => ~recent
    /\ Cardinality({w \in Workers : wpc[w] = "fetch"}) <= 1

(* A cancelled context ends the group and all its workers, from whatever they *)
(* do: waiting for the previous group, paused, fetching credentials, queued   *)
(* for refreshMu, in a session or asleep.                                     *)
GroupStops == ctxDone ~> gpc = "returned" /\ \A w \in Workers : wpc[w] \in {"off", "exit"}

Asked(w) == wpc[w] = "session" /\ getConf[w] /\ ~delivered[w]

(* session.go, when the server has no configuration yet: "we will repeat it   *)
(* later".                                                                    *)
ConfigRetried ==
    \A w \in Workers :
        Asked(w) ~> (\E v \in Workers : wpc[v] = "asking") \/ ctxDone
                        \/ (\A v \in Workers : wpc[v] = "exit")
=============================================================================
