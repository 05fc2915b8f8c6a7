------------------------------- MODULE Creds -------------------------------
(***************************************************************************)
(* internal/core/creds.go: how TURN credentials are fetched from VK, kept  *)
(* in a cache and thrown away.  The cache, the mutex around the requests   *)
(* to VK and the captcha lockout are package variables: the goroutines of  *)
(* a Core that is shutting down and of the Core that replaces it meet      *)
(* here, with different links when the profile was switched.  A caller is  *)
(* one group of one Core (its goroutine first, then its workers under      *)
(* refreshMu: one call at a time); a session is a worker whose TURN        *)
(* Allocate fails with an authentication error.  VK's answers, the         *)
(* solver's and the user's are inputs; a duration is over when its flag    *)
(* falls.                                                                  *)
(***************************************************************************)
EXTENDS Integers

CONSTANTS
    Callers,        \* groups of the running and of the stopping Core
    Sessions,       \* workers that report authentication errors
    Caches,         \* the ids of credentialsStore.caches
    Links,          \* call links (VK hashes)
    Cores,          \* Core values, each with its own CaptchaResultChan
    Setups,         \* the casts considered: see CredsAssumption
    AttemptLimit,   \* vkCredentialAttemptLimit, 4 in the code
    CaptchaLimit,   \* captchas solved in one token chain, 3 in the code
    MaxCacheErrors, \* maxCacheErrors, 3 in the code
    None            \* no credentials, nobody

ASSUME CredsAssumption ==
    /\ Callers \cap Sessions = {} /\ None \notin Callers
    /\ Setups \subseteq [present : SUBSET (Callers \cup Sessions),   \* who takes part
                         cacheOf : [Callers \cup Sessions -> Caches], \* getCacheID of its stream
                         coreOf : [Callers -> Cores], linkOf : [Callers -> Links],
                         current : Cores]  \* the Core of the daemon's event loop
    /\ AttemptLimit \in Nat \ {0} /\ CaptchaLimit \in Nat /\ MaxCacheErrors \in Nat \ {0}

VARIABLES
    setup,          \* parameter: an element of Setups
    cache,          \* creds of each StreamCredentialsCache, or None
    errorCount,     \* its errorCount
    recent,         \* its lastErrorTime is less than errorWindow ago
    mutex,          \* the caller that holds its mutex, or None
    vkRequestMu,    \* the caller that holds vkRequestMu, or None
    throttled,      \* globalLastVkFetchTime is less than minInterval ago
    lockout,        \* globalCaptchaLockout lies in the future
    pc,             \* where each caller is, see Places
    ctxDone,        \* the caller's context is cancelled or timed out
    attempt,        \* fetchVkCreds: attempt, of the holder of vkRequestMu
    captchas,       \* getTokenChain: attempt, of the same caller
    stage,          \* which WebView request it makes, see Stages
    result,         \* what is in CaptchaResultChan of each Core, see Results
    solving,        \* Core.SolveCaptcha of each Core is between its drain and its send
    tookLeftover,   \* history: a request took a result from before its drain
    report          \* where each session is in handleAuthError, see Reports

caches  == <<setup, cache, errorCount, recent, mutex>>
requests == <<vkRequestMu, throttled, lockout>>
calls   == <<pc, ctxDone, attempt, captchas, stage>>
answers == <<result, solving, tookLeftover>>
vars    == <<caches, requests, calls, answers, report>>

cacheOf(x) == setup.cacheOf[x]
coreOf(c) == setup.coreOf[c]
linkOf(c) == setup.linkOf[c]

TurnCredentials == [Link : Links, live : BOOLEAN]
Requesting == {"vkcalls", "chain", "anon", "v2", "final", "ask", "emit", "wait", "nap", "join", "pair"}
Places == {"idle", "invalidate", "rlock", "lock", "vklock", "throttle"} \cup Requesting
Results == {"empty", "sent", "leftover"}  \* of capacity 1; leftover: from before the last drain
Reports == {"idle", "zero", "add", "stamp", "last", "wipe"}
Stages == {"none", "selected", "rjs", "auto1", "auto2", "manual"}

Init ==
    /\ setup \in Setups
    /\ cache = [k \in Caches |-> None] /\ errorCount = [k \in Caches |-> 0]
    /\ recent = [k \in Caches |-> FALSE]
    /\ mutex = [k \in Caches |-> None] /\ vkRequestMu = None
    /\ throttled = FALSE /\ lockout = FALSE
    /\ pc = [c \in Callers |-> "idle"] /\ ctxDone = [c \in Callers |-> FALSE]
    /\ attempt = 0 /\ captchas = 0 /\ stage = "none"
    /\ result = [o \in Cores |-> IF o = setup.current THEN "empty" ELSE "leftover"]
    /\ solving = [o \in Cores |-> FALSE]
    /\ tookLeftover = FALSE /\ report = [s \in Sessions |-> "idle"]

(***************************************************************************)
(* The clock and the contexts: credentials expire, the error window, the   *)
(* throttle interval and the lockout end, a call's context is cancelled or times out.        *)
(***************************************************************************)
Expire(k) ==
    /\ cache[k] # None /\ cache[k].live
    /\ cache' = [cache EXCEPT ![k].live = FALSE]
    /\ UNCHANGED <<setup, errorCount, recent, mutex, requests, calls, answers, report>>

(* errorWindow has passed since lastErrorTime *)
WindowEnds(k) ==
    /\ recent[k] /\ recent' = [recent EXCEPT ![k] = FALSE]
    /\ UNCHANGED <<setup, cache, errorCount, mutex, requests, calls, answers, report>>

ThrottleEnds ==
    /\ throttled /\ throttled' = FALSE
    /\ UNCHANGED <<caches, vkRequestMu, lockout, calls, answers, report>>

LockoutEnds ==
    /\ lockout /\ lockout' = FALSE
    /\ UNCHANGED <<caches, vkRequestMu, throttled, calls, answers, report>>

CtxEnds(c) ==
    /\ pc[c] # "idle" /\ ~ctxDone[c]
    /\ ctxDone' = [ctxDone EXCEPT ![c] = TRUE]
    /\ UNCHANGED <<caches, requests, pc, attempt, captchas, stage, answers, report>>

(***************************************************************************)
(* The cache: getVkCredsCached and, before it, refreshCreds' invalidate.   *)
(***************************************************************************)
Go(c, place) == pc' = [pc EXCEPT ![c] = place]

(* a group asks for credentials, or a worker renews them *)
Call(c) ==
    /\ pc[c] = "idle" /\ c \in setup.present
    /\ \E place \in {"rlock", "invalidate"} : Go(c, place)
    /\ ctxDone' = [ctxDone EXCEPT ![c] = FALSE]
    /\ UNCHANGED <<caches, requests, attempt, captchas, stage, answers, report>>

(* invalidate: no credentials, no errors, lastErrorTime 0 *)
Wipe(k) ==
    /\ mutex[k] = None
    /\ cache' = [cache EXCEPT ![k] = None]
    /\ errorCount' = [errorCount EXCEPT ![k] = 0] /\ recent' = [recent EXCEPT ![k] = FALSE]
    /\ UNCHANGED <<setup, mutex>>

Invalidate(c) ==
    /\ pc[c] = "invalidate" /\ Wipe(cacheOf(c)) /\ Go(c, "rlock")
    /\ UNCHANGED <<requests, ctxDone, attempt, captchas, stage, answers, report>>

Hit(c) ==
    LET creds == cache[cacheOf(c)] IN creds # None /\ creds.Link = linkOf(c) /\ creds.live

UseCached(c) == Hit(c) /\ Go(c, "idle") /\ UNCHANGED mutex

ReadCache(c) ==
    /\ pc[c] = "rlock" /\ mutex[cacheOf(c)] = None
    /\ \/ UseCached(c)
       \/ ~Hit(c) /\ Go(c, "lock") /\ UNCHANGED mutex
    /\ UNCHANGED <<setup, cache, errorCount, recent, requests, ctxDone, attempt, captchas, stage, answers, report>>

(* mutant: no double check inside the lock *)
LockCache_NoCheck(c) ==
    /\ pc[c] = "lock" /\ mutex[cacheOf(c)] = None
    /\ Go(c, "vklock") /\ mutex' = [mutex EXCEPT ![cacheOf(c)] = c]
    /\ UNCHANGED <<setup, cache, errorCount, recent, requests, ctxDone, attempt, captchas, stage, answers, report>>

(* the double check is made as soon as the lock is taken *)
LockCache(c) ==
    /\ pc[c] = "lock" /\ mutex[cacheOf(c)] = None
    /\ \/ UseCached(c)
       \/ ~Hit(c) /\ Go(c, "vklock") /\ mutex' = [mutex EXCEPT ![cacheOf(c)] = c]
    /\ UNCHANGED <<setup, cache, errorCount, recent, requests, ctxDone, attempt, captchas, stage, answers, report>>

(***************************************************************************)
(* How a fetch ends.  fetchVkCredsSerialized stamps the time (unless it    *)
(* was cancelled in the throttle) and unlocks, getVkCredsCached stores     *)
(* what it fetched and unlocks the cache.                                  *)
(***************************************************************************)
Leave(c, stamp) ==
    /\ vkRequestMu' = None /\ throttled' = (throttled \/ stamp)
    /\ mutex' = [mutex EXCEPT ![cacheOf(c)] = None]
    /\ Go(c, "idle") /\ attempt' = 0 /\ captchas' = 0 /\ stage' = "none"
    /\ UNCHANGED <<setup, errorCount, recent, ctxDone, report>>

(* mutant: an error returns without unlocking the cache *)
Fail_Locked(c) ==
    /\ vkRequestMu' = None /\ throttled' = TRUE
    /\ Go(c, "idle") /\ attempt' = 0 /\ captchas' = 0 /\ stage' = "none"
    /\ UNCHANGED <<caches, ctxDone, report>>

Fail(c) == Leave(c, TRUE) /\ UNCHANGED cache

Succeed(c) ==
    /\ Leave(c, TRUE)
    /\ cache' = [cache EXCEPT ![cacheOf(c)] = [Link |-> linkOf(c), live |-> TRUE]]

Step(c, place) ==
    /\ Go(c, place)
    /\ UNCHANGED <<caches, vkRequestMu, throttled, ctxDone, report>>

(***************************************************************************)
(* fetchVkCredsSerialized: one fetch at a time, throttled, and then the    *)
(* lockout check that opens fetchVkCreds.  The legacy path skips VK Calls. *)
(***************************************************************************)
LockVk(c) ==
    /\ pc[c] = "vklock" /\ vkRequestMu = None
    /\ vkRequestMu' = c /\ Go(c, "throttle")
    /\ UNCHANGED <<caches, throttled, lockout, ctxDone, attempt, captchas, stage, answers, report>>

Throttle(c) ==
    /\ pc[c] = "throttle"
    /\ \/ throttled /\ ctxDone[c] /\ Leave(c, FALSE) /\ UNCHANGED cache
       \/ ~throttled /\ lockout /\ Fail(c)
       \/ /\ ~throttled /\ ~lockout
          /\ \E place \in {"vkcalls", "chain"} : Step(c, place)
          /\ UNCHANGED <<attempt, captchas, stage>>
    /\ UNCHANGED <<lockout, answers>>

(***************************************************************************)
(* VK's answers.  A request under a finished context only fails.           *)
(***************************************************************************)
VkCalls(c) ==
    /\ pc[c] = "vkcalls"
    /\ \/ ~ctxDone[c] /\ Succeed(c)
       \/ ~ctxDone[c] /\ Fail(c)     \* the call is unavailable: not retried
       \/ Step(c, "chain") /\ UNCHANGED <<attempt, captchas, stage>>
    /\ UNCHANGED <<lockout, answers>>

(* mutant: one attempt too many *)
NextSet_TooMany(c) ==
    \/ attempt = AttemptLimit /\ Fail(c)
    \/ /\ attempt < AttemptLimit
       /\ attempt' = attempt + 1 /\ captchas' = 0 /\ stage' = "none"
       /\ Step(c, IF attempt % 2 = 1 THEN "pair" ELSE "chain")

(* the next credential set, after a pause when both of the pair failed *)
NextSet(c) ==
    \/ attempt + 1 = AttemptLimit /\ Fail(c)
    \/ /\ attempt + 1 < AttemptLimit
       /\ attempt' = attempt + 1 /\ captchas' = 0 /\ stage' = "none"
       /\ Step(c, IF attempt % 2 = 1 THEN "pair" ELSE "chain")

PairPause(c) ==
    /\ pc[c] = "pair"
    /\ \/ ctxDone[c] /\ Fail(c)
       \/ Step(c, "chain") /\ UNCHANGED <<attempt, captchas, stage>>
    /\ UNCHANGED <<lockout, answers>>

(* get_anonym_token and getCallPreview *)
Chain(c) ==
    /\ pc[c] = "chain"
    /\ \/ ~ctxDone[c] /\ Step(c, "anon") /\ UNCHANGED <<attempt, captchas, stage>>
       \/ ~ctxDone[c] /\ Fail(c)     \* the call is unavailable
       \/ NextSet(c)
    /\ UNCHANGED <<lockout, answers>>

(* mutant: the lockout is set but the next credential set is tried *)
CaptchaWait_Retries(c) == lockout' = TRUE /\ NextSet(c) /\ UNCHANGED answers

(* CAPTCHA_WAIT_REQUIRED: fetchVkCreds gives up at once *)
CaptchaWait(c) == lockout' = TRUE /\ Fail(c) /\ UNCHANGED answers

(* the captcha mode comes from the settings: wv, rjs or auto *)
Solve(c) ==
    \E s \in {"selected", "rjs", "auto1"} :
        /\ stage' = s /\ Step(c, IF s = "selected" THEN "ask" ELSE "v2")
        /\ UNCHANGED <<attempt, captchas, lockout, answers>>

(* getAnonymousToken; its captcha may come again after every solution *)
AnonToken(c) ==
    /\ pc[c] = "anon"
    /\ \/ ~ctxDone[c] /\ Step(c, "join") /\ UNCHANGED <<attempt, captchas, stage, lockout, answers>>
       \/ ~ctxDone[c] /\ Fail(c) /\ UNCHANGED <<lockout, answers>>   \* the call is unavailable
       \/ ~ctxDone[c] /\ captchas >= CaptchaLimit /\ CaptchaWait(c)
       \/ ~ctxDone[c] /\ captchas < CaptchaLimit /\ Solve(c)
       \/ NextSet(c) /\ UNCHANGED <<lockout, answers>>

(* anonymLogin and joinConversationByLink *)
Join(c) ==
    /\ pc[c] = "join"
    /\ \/ ~ctxDone[c] /\ Succeed(c)
       \/ NextSet(c)
    /\ UNCHANGED <<lockout, answers>>

(***************************************************************************)
(* solveCaptchaBySelectedMode: the automatic solver, the WebView requests  *)
(* of the stages, and what follows each one's failure.                     *)
(***************************************************************************)
Solved(c) ==
    /\ captchas' = captchas + 1 /\ stage' = "none" /\ Step(c, "anon")
    /\ UNCHANGED <<attempt, lockout>>

(* solveVkCaptchaV2Attempts; it may go on until the context is done *)
SolverV2(c) ==
    /\ pc[c] = "v2"
    /\ \/ ~ctxDone[c] /\ Solved(c) /\ UNCHANGED answers
       \/ ctxDone[c] /\ CaptchaWait(c)
       \/ /\ ~ctxDone[c] /\ Step(c, "ask")
          /\ UNCHANGED <<attempt, captchas, stage, lockout, answers>>

(* the last automatic attempt, between the two WebViews and the manual one *)
FinalV2(c) ==
    /\ pc[c] = "final"
    /\ \/ ~ctxDone[c] /\ Solved(c) /\ UNCHANGED answers
       \/ ctxDone[c] /\ CaptchaWait(c)
       \/ /\ ~ctxDone[c] /\ Step(c, "ask") /\ stage' = "manual"
          /\ UNCHANGED <<attempt, captchas, lockout, answers>>

(* mutant: what was in the channel stays there *)
Drain_Nothing(c) ==
    /\ pc[c] = "ask" /\ Step(c, "emit")
    /\ UNCHANGED <<attempt, captchas, stage, lockout, answers>>

(* requestWebViewCaptcha: drain the channel, ... *)
Drain(c) ==
    /\ pc[c] = "ask" /\ Step(c, "emit")
    /\ result' = [result EXCEPT ![coreOf(c)] = "empty"]
    /\ UNCHANGED <<attempt, captchas, stage, lockout, solving, tookLeftover>>

(* ... emit the request, and only then wait *)
Emit(c) ==
    /\ pc[c] = "emit" /\ Step(c, "wait")
    /\ UNCHANGED <<attempt, captchas, stage, lockout, answers>>

(* the mode's next move when a WebView request fails; wv and rjs have none *)
AskFails(c) ==
    \/ /\ stage \in {"auto1", "auto2"} /\ ~ctxDone[c]
       /\ Step(c, "nap") /\ UNCHANGED <<attempt, captchas, stage, lockout>>
    \/ /\ stage \in {"selected", "rjs", "manual"} \/ ctxDone[c]
       /\ lockout' = TRUE /\ Fail(c)

(* a result: the token, or an error the user or the solver reports *)
TakeResult(c) ==
    LET o == coreOf(c)
    IN  /\ pc[c] = "wait" /\ result[o] # "empty"
        /\ tookLeftover' = (tookLeftover \/ result[o] = "leftover")
        /\ result' = [result EXCEPT ![o] = "empty"]
        /\ Solved(c) \/ AskFails(c)
        /\ UNCHANGED solving

(* a result that comes in now is too late; one that is there stays *)
WaitTimeout(c) ==
    LET o == coreOf(c)
    IN  /\ pc[c] = "wait" /\ AskFails(c)
        /\ result' = [result EXCEPT ![o] = IF @ = "empty" THEN @ ELSE "leftover"]
        /\ UNCHANGED <<solving, tookLeftover>>

Nap(c) ==
    /\ pc[c] = "nap"
    /\ \/ ctxDone[c] /\ CaptchaWait(c)
       \/ /\ stage = "auto1" /\ stage' = "auto2" /\ Step(c, "ask")
          /\ UNCHANGED <<attempt, captchas, lockout, answers>>
       \/ /\ stage = "auto2" /\ Step(c, "final")
          /\ UNCHANGED <<attempt, captchas, stage, lockout, answers>>

(***************************************************************************)
(* Core.SolveCaptcha, called by the daemon's event loop, its only caller,  *)
(* for every result the user sends, asked for or not, in time or not, on   *)
(* the Core it runs now: it drains the channel, and the send after it      *)
(* finds room.  The requests go on in between.                             *)
(***************************************************************************)
SolveDrains(o) ==
    /\ ~solving[o] /\ o = setup.current
    /\ solving' = [solving EXCEPT ![o] = TRUE] /\ result' = [result EXCEPT ![o] = "empty"]
    /\ UNCHANGED <<caches, requests, calls, tookLeftover, report>>

SolveSends(o) ==
    /\ solving[o] /\ result[o] = "empty"
    /\ solving' = [solving EXCEPT ![o] = FALSE]
    /\ result' = [result EXCEPT ![o] =
           IF \E c \in Callers : coreOf(c) = o /\ pc[c] \in {"emit", "wait"} THEN "sent" ELSE "leftover"]
    /\ UNCHANGED <<caches, requests, calls, tookLeftover, report>>

(***************************************************************************)
(* handleAuthError, a chain of atomic operations without a lock: look at   *)
(* the window, start over with zero if it is past, add one, store the      *)
(* time; the third error throws the cached credentials away, which waits   *)
(* for a running fetch.  A successful Allocate resets the count.           *)
(***************************************************************************)
Report(s, place) == report' = [report EXCEPT ![s] = place]

AuthError(s) ==
    /\ report[s] = "idle" /\ s \in setup.present
    /\ Report(s, IF recent[cacheOf(s)] THEN "add" ELSE "zero")
    /\ UNCHANGED <<caches, requests, calls, answers>>

StartOver(s) ==
    /\ report[s] = "zero" /\ Report(s, "add")
    /\ errorCount' = [errorCount EXCEPT ![cacheOf(s)] = 0]
    /\ UNCHANGED <<setup, cache, recent, mutex, requests, calls, answers>>

CountError(s) ==
    LET count == errorCount[cacheOf(s)] + 1
    IN  /\ report[s] = "add" /\ Report(s, IF count >= MaxCacheErrors THEN "last" ELSE "stamp")
        /\ errorCount' = [errorCount EXCEPT ![cacheOf(s)] = count]
        /\ UNCHANGED <<setup, cache, recent, mutex, requests, calls, answers>>

(* mutant: the time of the error is not stored, every window is past *)
StampError_Never(s) ==
    /\ report[s] \in {"stamp", "last"}
    /\ Report(s, IF report[s] = "last" THEN "wipe" ELSE "idle")
    /\ UNCHANGED <<caches, requests, calls, answers>>

StampError(s) ==
    /\ report[s] \in {"stamp", "last"}
    /\ Report(s, IF report[s] = "last" THEN "wipe" ELSE "idle")
    /\ recent' = [recent EXCEPT ![cacheOf(s)] = TRUE]
    /\ UNCHANGED <<setup, cache, errorCount, mutex, requests, calls, answers>>

AuthWipe(s) ==
    /\ report[s] = "wipe" /\ Report(s, "idle")
    /\ Wipe(cacheOf(s))
    /\ UNCHANGED <<requests, calls, answers>>

AllocateOK(s) ==
    /\ report[s] = "idle" /\ s \in setup.present
    /\ errorCount' = [errorCount EXCEPT ![cacheOf(s)] = 0]
    /\ UNCHANGED <<setup, cache, recent, mutex, requests, calls, answers, report>>

AuthStep(s) == StartOver(s) \/ CountError(s) \/ StampError(s) \/ AuthWipe(s)

CallStep(c) ==
    \/ Invalidate(c) \/ ReadCache(c) \/ LockCache(c) \/ LockVk(c) \/ Throttle(c)
    \/ VkCalls(c) \/ Chain(c) \/ AnonToken(c) \/ Join(c) \/ PairPause(c)
    \/ SolverV2(c) \/ FinalV2(c) \/ Drain(c) \/ Emit(c) \/ TakeResult(c) \/ WaitTimeout(c) \/ Nap(c)

Next ==
    \/ \E k \in Caches : Expire(k) \/ WindowEnds(k)
    \/ ThrottleEnds \/ LockoutEnds
    \/ \E c \in Callers : CtxEnds(c) \/ Call(c) \/ CallStep(c)
    \/ \E o \in Cores : SolveDrains(o) \/ SolveSends(o)
    \/ \E s \in Sessions : AuthError(s) \/ AuthStep(s) \/ AllocateOK(s)

(***************************************************************************)
(* VK and the solver may never answer: nothing is assumed of them.  Every  *)
(* call has a context with a timeout (20 s or 30 s), under which requests  *)
(* fail, and the WebView waits have their own; a goroutine goes on when it *)
(* can, and sync.Mutex hands over to a waiter (its starvation mode), hence *)
(* the strong fairness.                                                    *)
(***************************************************************************)
Fairness ==
    /\ \A c \in Callers : WF_vars(CtxEnds(c)) /\ SF_vars(ctxDone[c] /\ CallStep(c))
    /\ \A s \in Sessions : WF_vars(AuthStep(s)) /\ SF_vars(AuthWipe(s))

Spec == Init /\ [][Next]_vars
FairSpec == Spec /\ Fairness

(***************************************************************************)
(* Properties.                                                             *)
(***************************************************************************)

(* Every variable keeps the values its Go type and its mutex allow. *)
TypeOK ==
    /\ setup \in Setups
    /\ cache \in [Caches -> TurnCredentials \cup {None}] /\ errorCount \in [Caches -> Nat]
    /\ recent \in [Caches -> BOOLEAN]
    /\ mutex \in [Caches -> Callers \cup {None}] /\ vkRequestMu \in Callers \cup {None}
    /\ throttled \in BOOLEAN /\ lockout \in BOOLEAN
    /\ pc \in [Callers -> Places] /\ ctxDone \in [Callers -> BOOLEAN]
    /\ attempt \in 0..(AttemptLimit - 1) /\ captchas \in 0..CaptchaLimit
    /\ stage \in Stages /\ tookLeftover \in BOOLEAN
    /\ result \in [Cores -> Results] /\ solving \in [Cores -> BOOLEAN]
    /\ report \in [Sessions -> Reports]

(* While globalCaptchaLockout is in force no goroutine of any Core is at   *)
(* VK or at a captcha (creds.go:457, 942, 956): the check is made under    *)
(* vkRequestMu and whoever sets the lockout leaves at once.                *)
LockoutQuiet == lockout => \A c \in Callers : pc[c] \notin Requesting

(* VK is asked only for what the cache does not have: from the moment a    *)
(* call has locked the cache to the end of its fetch, minutes later, there *)
(* are no live credentials for its link in it (creds.go:396-404), although *)
(* calls of two Cores passed the first look together, and renewals and     *)
(* sessions' errors empty the cache.                                       *)
FetchNeeded ==
    \A c \in Callers : pc[c] \in {"vklock", "throttle"} \cup Requesting => ~Hit(c)

(* A WebView request never takes a result that was sent before it emptied  *)
(* the channel (drainCaptchaResult, creds.go:1218), be it one sent unasked *)
(* or one left over by a request that timed out.  A late answer that is    *)
(* sent after the drain is taken: results do not name their captcha.       *)
NoLeftover == ~tookLeftover

(* Authentication errors invalidate in the end (creds.go:341-362): if the  *)
(* sessions of a cache go on failing, with none of them succeeding and no  *)
(* pause of errorWindow, its credentials are thrown away again and again,  *)
(* whatever errors a Store(0) after a stale look at the window swallows.   *)
ErrorsInvalidate ==
    \A k \in Caches :
        (/\ []<><<\E s \in Sessions : cacheOf(s) = k /\ CountError(s)>>_vars
         /\ <>[][~WindowEnds(k) /\ ~\E s \in Sessions : cacheOf(s) = k /\ AllocateOK(s)]_vars)
        => []<><<\/ \E s \in Sessions : cacheOf(s) = k /\ AuthWipe(s)
                 \/ \E c \in Callers : cacheOf(c) = k /\ Invalidate(c)>>_vars

(* Every call of GetCreds returns, whatever VK and the user do: once the   *)
(* context is done the captcha loop, the credential sets and the WebView   *)
(* stages run out, and every lock is given back (creds.go:397, 431).       *)
CallsReturn == \A c \in Callers : pc[c] # "idle" ~> pc[c] = "idle"
=============================================================================
