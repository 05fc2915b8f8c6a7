---------------------------- MODULE CredsProofs ----------------------------
(***************************************************************************)
(* The safety properties of module Creds, for every number of groups,      *)
(* sessions, caches and Cores and every limit.  The inductive invariant    *)
(* adds to them that whoever is past vkRequestMu.Lock holds that mutex     *)
(* (Serialized), which is why the lockout is quiet and why only one        *)
(* WebView request waits, that whoever is past cache.mutex.Lock holds that *)
(* one (Held), which is why nobody fetches what is there, and what a       *)
(* request can find in its channel (WaitsFresh).  The steps of a fetch are first reduced to three shapes:  *)
(* it goes on, it asks the user, or it ends.                               *)
(***************************************************************************)
EXTENDS Creds, TLAPS

Fetching == Requesting \cup {"throttle"}

(* fetchVkCredsSerialized holds vkRequestMu until it returns *)
Serialized == \A c \in Callers : pc[c] \in Fetching => vkRequestMu = c

(* getVkCredsCached holds its cache's mutex until it returns *)
Held == \A c \in Callers : pc[c] \in Fetching \cup {"vklock"} => mutex[cacheOf(c)] = c

(* from its drain on, a request's channel holds nothing from before it *)
WaitsFresh ==
    \A c \in Callers : pc[c] \in {"emit", "wait"} => result[coreOf(c)] \in {"empty", "sent"}

(* the attempts and captchas counted stay below their limits *)
Limits == attempt \in 0..(AttemptLimit - 1) /\ captchas \in 0..CaptchaLimit /\ stage \in Stages

(* a captcha is only solved while another one is allowed *)
Solving == {"v2", "final", "ask", "emit", "wait", "nap"}
RoomLeft == \A c \in Callers : pc[c] \in Solving => captchas < CaptchaLimit

CredsInv ==
    /\ TypeOK /\ Serialized /\ RoomLeft /\ LockoutQuiet
    /\ Held /\ FetchNeeded /\ WaitsFresh /\ NoLeftover

(* what a step of a fetch may do to the channel of its Core *)
Channel(c) ==
    \/ UNCHANGED answers
    \/ /\ pc[c] = "wait"
       /\ tookLeftover' = (tookLeftover \/ result[coreOf(c)] = "leftover") \/ tookLeftover' = tookLeftover
       /\ \E r \in Results : result' = [result EXCEPT ![coreOf(c)] = r]
       /\ UNCHANGED solving

(* the fetch goes on, at VK or at a captcha *)
GoesOn(c) ==
    /\ pc[c] \in Fetching /\ (pc[c] = "throttle" => ~lockout) /\ Channel(c)
    /\ \E place \in Requesting \ {"emit", "wait"} : Go(c, place)
    /\ UNCHANGED <<caches, requests, ctxDone, report>>

(* it empties the channel, and begins to wait for a WebView *)
Asks(c) ==
    /\ \/ /\ pc[c] = "ask" /\ Go(c, "emit")
          /\ result' = [result EXCEPT ![coreOf(c)] = "empty"]
       \/ pc[c] = "emit" /\ Go(c, "wait") /\ UNCHANGED result
    /\ UNCHANGED <<solving, tookLeftover>>
    /\ UNCHANGED <<caches, requests, ctxDone, report>>

(* it ends, with an error or with credentials for its own link *)
Ends(c) ==
    /\ pc[c] \in Fetching /\ Channel(c) /\ Go(c, "idle")
    /\ vkRequestMu' = None /\ throttled' \in BOOLEAN /\ lockout' \in BOOLEAN
    /\ mutex' = [mutex EXCEPT ![cacheOf(c)] = None]
    /\ \/ UNCHANGED cache
       \/ cache' = [cache EXCEPT ![cacheOf(c)] = [Link |-> linkOf(c), live |-> TRUE]]
    /\ UNCHANGED <<setup, errorCount, recent, ctxDone, report>>

FetchStep(c) ==
    \/ Throttle(c) \/ VkCalls(c) \/ Chain(c) \/ AnonToken(c) \/ Join(c) \/ PairPause(c)
    \/ SolverV2(c) \/ FinalV2(c) \/ Drain(c) \/ Emit(c) \/ TakeResult(c) \/ WaitTimeout(c) \/ Nap(c)

(* What a caller's setup names exists. *)
LEMMA SetupTyped ==
  ASSUME setup \in Setups
  PROVE  /\ \A x \in Callers \cup Sessions : cacheOf(x) \in Caches
         /\ \A c \in Callers : coreOf(c) \in Cores /\ linkOf(c) \in Links
<1>1. setup \in [present : SUBSET (Callers \cup Sessions),
                 cacheOf : [Callers \cup Sessions -> Caches],
                 coreOf : [Callers -> Cores], linkOf : [Callers -> Links], current : Cores]
  BY CredsAssumption
<1> QED
  BY <1>1 DEF cacheOf, coreOf, linkOf

LEMMA InitInv == Init => CredsInv
<1> SUFFICES ASSUME Init PROVE CredsInv
  OBVIOUS
<1>1. TypeOK
  <2>1. throttled \in BOOLEAN /\ lockout \in BOOLEAN /\ tookLeftover \in BOOLEAN
    BY DEF Init
  <2>2. ctxDone \in [Callers -> BOOLEAN]
    BY DEF Init
  <2>3. Limits
    BY CredsAssumption DEF Init, Limits, Stages
  <2>4. /\ pc \in [Callers -> Places] /\ result \in [Cores -> Results]
        /\ report \in [Sessions -> Reports]
    BY DEF Init, Places, Results, Reports
  <2>6. recent \in [Caches -> BOOLEAN] /\ solving \in [Cores -> BOOLEAN]
    BY DEF Init
  <2>5. /\ cache \in [Caches -> TurnCredentials \cup {None}] /\ errorCount \in [Caches -> Nat]
        /\ mutex \in [Caches -> Callers \cup {None}] /\ vkRequestMu \in Callers \cup {None}
    BY DEF Init
  <2> QED
    BY <2>1, <2>2, <2>3, <2>4, <2>5, <2>6 DEF Init, TypeOK, Limits
<1>2. /\ Serialized /\ RoomLeft /\ WaitsFresh /\ LockoutQuiet
      /\ Held /\ FetchNeeded /\ NoLeftover
  BY DEF Init, Serialized, RoomLeft, Solving, WaitsFresh, LockoutQuiet, Held, FetchNeeded,
         NoLeftover, Fetching, Requesting
<1> QED
  BY <1>1, <1>2 DEF CredsInv

(* Every step of a fetch has one of the three shapes. *)
LEMMA Shapes ==
  ASSUME CredsInv, NEW c \in Callers, FetchStep(c)
  PROVE  GoesOn(c) \/ Asks(c) \/ Ends(c)
<1>t. throttled \in BOOLEAN /\ lockout \in BOOLEAN /\ TRUE \in BOOLEAN /\ FALSE \in BOOLEAN
  BY DEF CredsInv, TypeOK
<1>f. ASSUME Fail(c), pc[c] \in Fetching, UNCHANGED lockout \/ lockout' = TRUE, Channel(c)  PROVE Ends(c)
  BY <1>f, <1>t DEF Fail, Leave, Ends, Go
<1>s. ASSUME Succeed(c), pc[c] \in Fetching, UNCHANGED lockout, Channel(c)  PROVE Ends(c)
  BY <1>s, <1>t DEF Succeed, Leave, Ends, Go
<1>g. ASSUME NEW p \in Requesting \ {"emit", "wait"}, Step(c, p), pc[c] \in Requesting, UNCHANGED lockout, Channel(c)
      PROVE  GoesOn(c)
  BY <1>g DEF Step, GoesOn, Fetching, Requesting, requests
<1>n. ASSUME NextSet(c), pc[c] \in Requesting, UNCHANGED lockout, Channel(c)
      PROVE  GoesOn(c) \/ Ends(c)
  <2>1. pc[c] \in Fetching
    BY <1>n DEF Fetching
  <2>2. CASE Fail(c)
    BY <1>f, <1>n, <2>1, <2>2
  <2>3. CASE Step(c, "pair") \/ Step(c, "chain")
    BY <1>g, <1>n, <2>3 DEF Requesting
  <2> QED
    BY <1>n, <2>2, <2>3 DEF NextSet
<1>a. ASSUME UNCHANGED answers PROVE Channel(c)
  BY <1>a DEF Channel
<1>w. ASSUME CaptchaWait(c), pc[c] \in Fetching PROVE Ends(c)
  BY <1>w, <1>f, <1>a DEF CaptchaWait
<1>1. CASE Throttle(c)
  <2>1. pc[c] = "throttle" /\ pc[c] \in Fetching /\ UNCHANGED lockout /\ Channel(c)
    BY <1>1, <1>a DEF Throttle, Fetching
  <2>2. CASE Leave(c, FALSE) /\ UNCHANGED cache
    BY <2>1, <2>2, <1>t DEF Leave, Ends, Go
  <2>3. CASE Fail(c)
    BY <2>1, <2>3, <1>f
  <2>4. ASSUME NEW p \in {"vkcalls", "chain"}, Step(c, p), ~lockout PROVE GoesOn(c)
    BY <2>1, <2>4 DEF Step, GoesOn, Requesting, requests
  <2> QED
    BY <1>1, <2>2, <2>3, <2>4 DEF Throttle
<1>2. CASE VkCalls(c)
  <2>1. pc[c] \in Fetching /\ pc[c] \in Requesting /\ UNCHANGED lockout /\ Channel(c)
    BY <1>2, <1>a DEF VkCalls, Fetching, Requesting
  <2> QED
    BY <1>2, <2>1, <1>f, <1>s, <1>g DEF VkCalls, Requesting
<1>3. CASE Chain(c) \/ Join(c)
  <2>1. pc[c] \in Fetching /\ pc[c] \in Requesting /\ UNCHANGED lockout /\ Channel(c)
    BY <1>3, <1>a DEF Chain, Join, Fetching, Requesting
  <2> QED
    BY <1>3, <2>1, <1>f, <1>s, <1>g, <1>n DEF Chain, Join, Requesting
<1>4. CASE AnonToken(c)
  <2>1. pc[c] \in Fetching /\ pc[c] \in Requesting
    BY <1>4 DEF AnonToken, Fetching, Requesting
  <2>2. ASSUME Solve(c) PROVE GoesOn(c)
    <3>1. UNCHANGED lockout /\ Channel(c) /\ (Step(c, "ask") \/ Step(c, "v2"))
      BY <2>2, <1>a DEF Solve
    <3> QED
      BY <2>1, <3>1, <1>g DEF Requesting
  <2> QED
    BY <1>4, <2>1, <2>2, <1>a, <1>f, <1>g, <1>n, <1>w DEF AnonToken, Requesting
<1>5. CASE PairPause(c)
  <2>1. pc[c] \in Fetching /\ pc[c] \in Requesting /\ UNCHANGED lockout /\ Channel(c)
    BY <1>5, <1>a DEF PairPause, Fetching, Requesting
  <2> QED
    BY <1>5, <2>1, <1>f, <1>g DEF PairPause, Requesting
<1>6. CASE SolverV2(c) \/ FinalV2(c) \/ Nap(c)
  <2>1. pc[c] \in Fetching /\ pc[c] \in Requesting
    BY <1>6 DEF SolverV2, FinalV2, Nap, Fetching, Requesting
  <2> QED
    BY <1>6, <2>1, <1>a, <1>g, <1>w DEF SolverV2, FinalV2, Nap, Solved, Requesting
<1>7. CASE Drain(c) \/ Emit(c)
  BY <1>7 DEF Drain, Emit, Asks, Step, requests, answers
<1>8. CASE TakeResult(c) \/ WaitTimeout(c)
  <2>1. pc[c] \in Fetching /\ pc[c] \in Requesting
    BY <1>8 DEF TakeResult, WaitTimeout, Fetching, Requesting
  <2>2. Channel(c)
    <3>1. result \in [Cores -> Results] /\ coreOf(c) \in Cores
      BY SetupTyped DEF CredsInv, TypeOK
    <3> QED
      BY <1>8, <3>1 DEF TakeResult, WaitTimeout, Channel, Results
  <2>3. Solved(c) \/ AskFails(c)
    BY <1>8 DEF TakeResult, WaitTimeout
  <2> QED
    BY <2>1, <2>2, <2>3, <1>f, <1>g DEF Solved, AskFails, Requesting
<1> QED
  BY <1>1, <1>2, <1>3, <1>4, <1>5, <1>6, <1>7, <1>8 DEF FetchStep

-----------------------------------------------------------------------------
(* The counters of a fetch stay inside their limits. *)
LEMMA FetchLimits ==
  ASSUME CredsInv, NEW c \in Callers, FetchStep(c)
  PROVE  Limits' /\ (pc'[c] \in Solving => captchas' < CaptchaLimit)
<1> DEFINE Good == Limits' /\ (pc'[c] \in Solving => captchas' < CaptchaLimit)
<1>1. Limits /\ AttemptLimit \in Nat \ {0} /\ CaptchaLimit \in Nat
  BY CredsAssumption DEF CredsInv, TypeOK, Limits
<1>p. \A p : Go(c, p) => pc'[c] = p
  BY DEF CredsInv, TypeOK, Go
<1>2. ASSUME Fail(c) \/ Succeed(c) \/ Leave(c, FALSE) PROVE Good
  <2>1. attempt' = 0 /\ captchas' = 0 /\ stage' = "none" /\ Go(c, "idle")
    BY <1>2 DEF Fail, Succeed, Leave
  <2> QED
    BY <1>1, <1>p, <2>1 DEF Limits, Stages, Solving
<1>3. ASSUME NextSet(c) PROVE Good
  <2>1. CASE Fail(c)
    BY <1>2, <2>1
  <2>2. CASE /\ attempt + 1 < AttemptLimit /\ attempt' = attempt + 1 /\ captchas' = 0
             /\ stage' = "none" /\ (Go(c, "pair") \/ Go(c, "chain"))
    BY <1>1, <1>p, <2>2 DEF Limits, Stages, Solving
  <2> QED
    BY <1>3, <2>1, <2>2 DEF NextSet, Step
<1>4. ASSUME UNCHANGED <<attempt, captchas>>, stage' \in Stages,
             NEW p, Go(c, p), p \in Solving => captchas < CaptchaLimit
      PROVE  Good
  BY <1>1, <1>4, <1>p DEF Limits
<1>5. CASE Throttle(c) \/ VkCalls(c) \/ PairPause(c)
  <2>1. CASE Fail(c) \/ Succeed(c) \/ Leave(c, FALSE)
    BY <1>2, <2>1
  <2>2. CASE (Go(c, "vkcalls") \/ Go(c, "chain")) /\ UNCHANGED <<attempt, captchas, stage>>
    BY <1>1, <2>2, <1>4 DEF Limits, Solving
  <2> QED
    BY <1>5, <2>1, <2>2 DEF Throttle, VkCalls, PairPause, Step
<1>6. CASE Chain(c) \/ Join(c)
  <2>1. CASE Fail(c) \/ Succeed(c) \/ NextSet(c)
    BY <1>2, <1>3, <2>1
  <2>2. CASE Go(c, "anon") /\ UNCHANGED <<attempt, captchas, stage>>
    BY <1>1, <2>2, <1>4 DEF Limits, Solving
  <2> QED
    BY <1>6, <2>1, <2>2 DEF Chain, Join, Step
<1>7. CASE AnonToken(c)
  <2>1. CASE Fail(c) \/ NextSet(c)
    BY <1>2, <1>3, <2>1
  <2>2. CASE Go(c, "join") /\ UNCHANGED <<attempt, captchas, stage>>
    BY <1>1, <2>2, <1>4 DEF Limits, Solving
  <2>3. CASE captchas < CaptchaLimit /\ Solve(c)
    <3>1. (Go(c, "ask") \/ Go(c, "v2")) /\ stage' \in Stages /\ UNCHANGED <<attempt, captchas>>
      BY <2>3 DEF Solve, Step, Stages
    <3> QED
      BY <2>3, <3>1, <1>4
  <2> QED
    BY <1>7, <2>1, <2>2, <2>3 DEF AnonToken, CaptchaWait, Step
<1>8. ASSUME Solved(c), pc[c] \in Solving PROVE Good
  <2>1. captchas < CaptchaLimit
    BY <1>8 DEF CredsInv, RoomLeft
  <2>2. captchas' = captchas + 1 /\ stage' = "none" /\ Go(c, "anon") /\ UNCHANGED attempt
    BY <1>8 DEF Solved, Step
  <2> QED
    BY <1>1, <1>p, <2>1, <2>2 DEF Limits, Stages, Solving
<1>9. CASE SolverV2(c) \/ FinalV2(c) \/ Nap(c) \/ Drain(c) \/ Emit(c) \/ TakeResult(c) \/ WaitTimeout(c)
  <2>1. pc[c] \in Solving
    BY <1>9 DEF SolverV2, FinalV2, Nap, Drain, Emit, TakeResult, WaitTimeout, Solving
  <2>2. captchas < CaptchaLimit
    BY <2>1 DEF CredsInv, RoomLeft
  <2>3. CASE Solved(c)
    BY <1>8, <2>1, <2>3
  <2>4. CASE Fail(c)
    BY <1>2, <2>4
  <2>5. CASE \E p \in Solving, st \in Stages : Go(c, p) /\ stage' = st /\ UNCHANGED <<attempt, captchas>>
    BY <1>4, <2>2, <2>5
  <2>6. stage \in Stages
    BY <1>1 DEF Limits
  <2> QED
    BY <1>9, <2>3, <2>4, <2>5, <2>6
    DEF SolverV2, FinalV2, Nap, Drain, Emit, TakeResult, WaitTimeout, CaptchaWait, AskFails, Step, Solving, Stages
<1> QED
  BY <1>5, <1>6, <1>7, <1>9 DEF FetchStep

-----------------------------------------------------------------------------
(* A step of a fetch preserves the invariant. *)
LEMMA FetchInv ==
  ASSUME CredsInv, NEW c \in Callers, FetchStep(c)
  PROVE  CredsInv'
<1>1. /\ cacheOf(c) \in Caches /\ coreOf(c) \in Cores /\ linkOf(c) \in Links
      /\ pc \in [Callers -> Places] /\ result \in [Cores -> Results] /\ pc[c] \in Fetching
      /\ mutex \in [Caches -> Callers \cup {None}] /\ cache \in [Caches -> TurnCredentials \cup {None}]
  <2>1. pc[c] \in Fetching
    BY Shapes DEF GoesOn, Asks, Ends, Fetching, Requesting
  <2> QED
    BY <2>1, SetupTyped DEF CredsInv, TypeOK
<1>u. UNCHANGED setup
  BY Shapes DEF GoesOn, Asks, Ends, caches
<1>2. \A d \in Callers : pc[d] \in Fetching => d = c
  BY <1>1 DEF CredsInv, Serialized
<1>3. \E place \in Requesting \cup {"idle"} : Go(c, place)
  BY Shapes DEF GoesOn, Asks, Ends, Requesting
<1>4. pc' \in [Callers -> Places] /\ \A d \in Callers : d # c => pc'[d] = pc[d]
  BY <1>1, <1>3 DEF Go, Places
<1>5. TypeOK'
  <2>1. Limits'
    BY FetchLimits
  <2>2. (throttled \in BOOLEAN /\ lockout \in BOOLEAN)'
    BY Shapes DEF CredsInv, TypeOK, GoesOn, Asks, Ends, requests
  <2>3. (ctxDone \in [Callers -> BOOLEAN])'
    BY Shapes DEF CredsInv, TypeOK, GoesOn, Asks, Ends
  <2>4. (recent \in [Caches -> BOOLEAN] /\ solving \in [Cores -> BOOLEAN])'
    BY Shapes DEF CredsInv, TypeOK, GoesOn, Asks, Ends, Channel, caches, answers
  <2>5. (tookLeftover \in BOOLEAN)'
    BY Shapes DEF CredsInv, TypeOK, GoesOn, Asks, Ends, Channel, answers
  <2>6. (result \in [Cores -> Results])'
    BY Shapes, <1>1 DEF GoesOn, Asks, Ends, Channel, answers, Results
  <2>7. (/\ setup \in Setups /\ errorCount \in [Caches -> Nat]
         /\ report \in [Sessions -> Reports])'
    BY Shapes DEF CredsInv, TypeOK, GoesOn, Asks, Ends, caches
  <2>8. (/\ mutex \in [Caches -> Callers \cup {None}] /\ vkRequestMu \in Callers \cup {None})'
    BY Shapes, <1>1 DEF CredsInv, TypeOK, GoesOn, Asks, Ends, caches, requests
  <2>9. (cache \in [Caches -> TurnCredentials \cup {None}])'
    <3>1. [Link |-> linkOf(c), live |-> TRUE] \in TurnCredentials
      BY <1>1 DEF TurnCredentials
    <3> QED
      BY Shapes, <1>1, <3>1 DEF GoesOn, Asks, Ends, caches
  <2> QED
    BY <1>4, <2>1, <2>2, <2>3, <2>4, <2>5, <2>6, <2>7, <2>8, <2>9 DEF TypeOK, Limits
<1>6. Serialized' /\ LockoutQuiet'
  <2>1. CASE GoesOn(c) \/ Asks(c)
    <3>1. vkRequestMu' = vkRequestMu /\ lockout' = lockout
      BY <2>1 DEF GoesOn, Asks, requests
    <3>2. ~lockout
      BY <2>1 DEF CredsInv, LockoutQuiet, GoesOn, Asks, Fetching, Requesting
    <3> QED
      BY <1>1, <1>4, <3>1, <3>2 DEF CredsInv, Serialized, LockoutQuiet
  <2>2. CASE Ends(c)
    <3>1. \A d \in Callers : pc'[d] \notin Fetching
      BY <1>1, <1>2, <1>4, <2>2 DEF Ends, Go, Fetching, Requesting
    <3> QED
      BY <3>1 DEF Serialized, LockoutQuiet, Fetching
  <2> QED
    BY Shapes, <2>1, <2>2
<1>7. RoomLeft'
  <2>1. \A d \in Callers : pc'[d] \in Solving => d = c
    BY <1>2, <1>4 DEF Solving, Fetching, Requesting
  <2> QED
    BY FetchLimits, <2>1 DEF RoomLeft
<1>8. Held' /\ FetchNeeded'
  <2>1. mutex[cacheOf(c)] = c
    BY <1>1 DEF CredsInv, Held
  <2>2. ASSUME NEW d \in Callers, d # c, pc[d] \in Fetching \cup {"vklock"}
        PROVE  /\ mutex'[cacheOf(d)] = d /\ cache'[cacheOf(d)] = cache[cacheOf(d)]
    <3>1. mutex[cacheOf(d)] = d /\ cacheOf(d) # cacheOf(c)
      BY <2>1, <2>2 DEF CredsInv, Held
    <3>2. cacheOf(d) \in Caches
      BY SetupTyped DEF CredsInv, TypeOK
    <3> QED
      BY Shapes, <1>1, <3>1, <3>2 DEF GoesOn, Asks, Ends, caches
  <2>3. CASE GoesOn(c) \/ Asks(c)
    <3>1. UNCHANGED <<mutex, cache>>
      BY <2>3 DEF GoesOn, Asks, caches
    <3>2. pc[c] \in Fetching /\ (Hit(c)' <=> Hit(c)) /\ ~Hit(c)
      BY <1>1, <1>u, <3>1 DEF Hit, cacheOf, linkOf, CredsInv, FetchNeeded, Fetching
    <3>3. \A d \in Callers : pc'[d] \in Fetching \cup {"vklock"} => pc[d] \in Fetching \cup {"vklock"}
      BY <1>4, <3>2
    <3> QED
      BY <1>u, <3>1, <3>3 DEF CredsInv, Held, FetchNeeded, Hit, cacheOf, linkOf, Fetching
  <2>4. CASE Ends(c)
    <3>1. pc'[c] = "idle"
      BY <1>1, <2>4 DEF Ends, Go
    <3>2. ASSUME NEW d \in Callers, pc'[d] \in Fetching \cup {"vklock"}
          PROVE  (mutex[cacheOf(d)] = d /\ ~Hit(d))'
      <4>1. d # c /\ pc[d] \in Fetching \cup {"vklock"}
        BY <1>4, <3>1, <3>2 DEF Fetching, Requesting
      <4>2. ~Hit(d)
        BY <4>1 DEF CredsInv, FetchNeeded, Fetching
      <4> QED
        BY <1>u, <2>2, <4>1, <4>2 DEF Hit, cacheOf, linkOf
    <3> QED
      BY <3>2 DEF Held, FetchNeeded, Fetching
  <2> QED
    BY Shapes, <2>3, <2>4
<1>9. NoLeftover'
  BY Shapes, <1>1 DEF CredsInv, NoLeftover, WaitsFresh, GoesOn, Asks, Ends, Channel, answers
<1>10. WaitsFresh'
  <2>1. \A d \in Callers : pc'[d] \in {"emit", "wait"} => d = c /\ Asks(c)
    BY Shapes, <1>1, <1>2, <1>4 DEF GoesOn, Ends, Go, Fetching, Requesting
  <2>2. Asks(c) => result'[coreOf(c)] \in {"empty", "sent"}
    BY <1>1 DEF Asks, CredsInv, WaitsFresh
  <2> QED
    BY <1>u, <2>1, <2>2 DEF WaitsFresh, coreOf
<1> QED
  BY <1>5, <1>6, <1>7, <1>8, <1>9, <1>10 DEF CredsInv

(* So do the steps before it: the cache, and the way to vkRequestMu. *)
LEMMA CacheInv ==
  ASSUME CredsInv, NEW c \in Callers,
         Call(c) \/ Invalidate(c) \/ ReadCache(c) \/ LockCache(c) \/ LockVk(c)
  PROVE  CredsInv'
<1>1. /\ cacheOf(c) \in Caches /\ pc \in [Callers -> Places] /\ errorCount \in [Caches -> Nat]
      /\ mutex \in [Caches -> Callers \cup {None}] /\ cache \in [Caches -> TurnCredentials \cup {None}]
      /\ ctxDone \in [Callers -> BOOLEAN] /\ recent \in [Caches -> BOOLEAN]
  BY SetupTyped DEF CredsInv, TypeOK
<1>2. UNCHANGED <<setup, throttled, lockout, attempt, captchas, stage, result, solving, tookLeftover, report>>
  BY DEF Call, Invalidate, ReadCache, LockCache, LockVk, caches, requests, answers, Wipe
<1>3. \E place \in Places \ Requesting : Go(c, place) /\ (place = "throttle" => LockVk(c))
  BY DEF Call, Invalidate, ReadCache, LockCache, LockVk, UseCached, Places, Requesting
<1>4. /\ pc' \in [Callers -> Places] /\ pc'[c] \notin Requesting
      /\ \A d \in Callers : d # c => pc'[d] = pc[d]
  BY <1>1, <1>3 DEF Go
<1>6. TypeOK'
  <2>1. (ctxDone \in [Callers -> BOOLEAN])'
    BY <1>1 DEF Call, Invalidate, ReadCache, LockCache, LockVk
  <2>2. (/\ throttled \in BOOLEAN /\ lockout \in BOOLEAN /\ tookLeftover \in BOOLEAN
         /\ solving \in [Cores -> BOOLEAN])'
    BY <1>2 DEF CredsInv, TypeOK
  <2>3. (cache \in [Caches -> TurnCredentials \cup {None}])'
    BY <1>1 DEF Call, Invalidate, ReadCache, LockCache, LockVk, Wipe, caches
  <2>4. (errorCount \in [Caches -> Nat])'
    BY <1>1 DEF Call, Invalidate, ReadCache, LockCache, LockVk, Wipe, caches
  <2>7. (recent \in [Caches -> BOOLEAN])'
    <3>1. \A k \in Caches : [recent EXCEPT ![k] = FALSE] \in [Caches -> BOOLEAN]
      BY <1>1
    <3> QED
      BY <1>1, <3>1, Zenon DEF Call, Invalidate, ReadCache, LockCache, LockVk, Wipe, caches
  <2>5. (mutex \in [Caches -> Callers \cup {None}] /\ vkRequestMu \in Callers \cup {None})'
    <3>1. vkRequestMu \in Callers \cup {None}
      BY DEF CredsInv, TypeOK
    <3> QED
      BY <1>1, <3>1 DEF Call, Invalidate, ReadCache, LockCache, LockVk, UseCached, Wipe, caches, requests
  <2>6. (/\ setup \in Setups /\ Limits /\ result \in [Cores -> Results]
         /\ report \in [Sessions -> Reports])'
    BY <1>2 DEF CredsInv, TypeOK, Limits
  <2> QED
    BY <1>4, <2>1, <2>2, <2>3, <2>4, <2>5, <2>6, <2>7 DEF TypeOK, Limits
<1>7. Serialized'
  <2>1. CASE LockVk(c)
    <3>1. vkRequestMu' = c /\ vkRequestMu = None
      BY <2>1 DEF LockVk
    <3>2. \A d \in Callers : pc[d] \notin Fetching
      BY <3>1, CredsAssumption DEF CredsInv, Serialized
    <3> QED
      BY <1>4, <3>1, <3>2 DEF Serialized
  <2>2. CASE ~LockVk(c)
    <3>1. vkRequestMu' = vkRequestMu
      BY <2>2 DEF Call, Invalidate, ReadCache, LockCache, requests
    <3>2. pc'[c] \notin Fetching
      BY <1>1, <1>3, <2>2 DEF Fetching, Go
    <3> QED
      BY <1>4, <3>1, <3>2 DEF CredsInv, Serialized
  <2> QED
    BY <2>1, <2>2
<1>8. LockoutQuiet' /\ RoomLeft' /\ WaitsFresh'
  BY <1>2, <1>4 DEF CredsInv, LockoutQuiet, RoomLeft, WaitsFresh, Solving, Requesting, coreOf
<1>9. NoLeftover'
  BY <1>2 DEF CredsInv, NoLeftover
<1>10. Held' /\ FetchNeeded'
  <2>1. \A d \in Callers : cacheOf(d)' = cacheOf(d) /\ linkOf(d)' = linkOf(d)
    BY <1>2 DEF cacheOf, linkOf
  <2>2. ASSUME NEW d \in Callers, d # c, pc'[d] \in Fetching \cup {"vklock"}
        PROVE  mutex'[cacheOf(d)] = d /\ ~Hit(d)'
    <3>1. mutex[cacheOf(d)] = d /\ ~Hit(d) /\ d # None
      BY <1>4, <2>2, CredsAssumption DEF CredsInv, Held, FetchNeeded, Fetching
    <3>2. cacheOf(d) \in Caches
      BY SetupTyped DEF CredsInv, TypeOK
    <3>3. mutex'[cacheOf(d)] = mutex[cacheOf(d)] /\ cache'[cacheOf(d)] = cache[cacheOf(d)]
      BY <1>1, <3>1, <3>2
      DEF Call, Invalidate, ReadCache, LockCache, LockVk, UseCached, Wipe, caches
    <3> QED
      BY <2>1, <3>1, <3>3 DEF Hit
  <2>3. ASSUME pc'[c] \in Fetching \cup {"vklock"}
        PROVE  mutex'[cacheOf(c)] = c /\ ~Hit(c)'
    <3>1. CASE LockVk(c)
      BY <2>1, <3>1 DEF LockVk, caches, CredsInv, Held, FetchNeeded, Hit
    <3>2. CASE LockCache(c) /\ ~UseCached(c)
      BY <1>1, <2>1, <3>2 DEF LockCache, Hit
    <3>3. CASE ~LockVk(c) /\ ~(LockCache(c) /\ ~UseCached(c))
      <4>1. \E place \in {"idle", "rlock", "lock", "invalidate"} : Go(c, place)
        BY <3>3 DEF Call, Invalidate, ReadCache, LockCache, UseCached
      <4> QED
        BY <1>1, <2>3, <4>1 DEF Go, Fetching, Requesting
    <3> QED
      BY <3>1, <3>2, <3>3
  <2> QED
    BY <2>1, <2>2, <2>3 DEF Held, FetchNeeded, Fetching
<1> QED
  BY <1>6, <1>7, <1>8, <1>9, <1>10 DEF CredsInv

(* The clock and the contexts. *)
LEMMA ClockInv ==
  ASSUME CredsInv,
         \/ \E k \in Caches : Expire(k) \/ WindowEnds(k)
         \/ ThrottleEnds \/ LockoutEnds
         \/ \E c \in Callers : CtxEnds(c)
  PROVE  CredsInv'
<1>1. UNCHANGED <<setup, errorCount, mutex, vkRequestMu, pc, attempt, captchas, stage, answers, report>>
  BY DEF Expire, WindowEnds, ThrottleEnds, LockoutEnds, CtxEnds, caches, requests, calls
<1>2. (lockout' = lockout \/ ~lockout') /\ (throttled \in BOOLEAN /\ lockout \in BOOLEAN)'
  BY DEF CredsInv, TypeOK, Expire, WindowEnds, ThrottleEnds, LockoutEnds, CtxEnds, requests
<1>3. (ctxDone \in [Callers -> BOOLEAN])'
  BY DEF CredsInv, TypeOK, Expire, WindowEnds, ThrottleEnds, LockoutEnds, CtxEnds, calls
<1>4. (cache \in [Caches -> TurnCredentials \cup {None}])'
  <2>1. cache \in [Caches -> TurnCredentials \cup {None}]
    BY DEF CredsInv, TypeOK
  <2>2. ASSUME NEW k \in Caches, Expire(k) PROVE (cache \in [Caches -> TurnCredentials \cup {None}])'
    <3>1. cache[k] \in TurnCredentials
      BY <2>1, <2>2 DEF Expire
    <3>2. [cache[k] EXCEPT !.live = FALSE] \in TurnCredentials
      BY <3>1 DEF TurnCredentials
    <3> QED
      BY <2>1, <2>2, <3>2 DEF Expire
  <2> QED
    BY <2>1, <2>2 DEF WindowEnds, ThrottleEnds, LockoutEnds, CtxEnds, caches
<1>5. TypeOK'
  <2>1. (tookLeftover \in BOOLEAN /\ solving \in [Cores -> BOOLEAN])'
    BY <1>1 DEF CredsInv, TypeOK, answers
  <2>2. (recent \in [Caches -> BOOLEAN])'
    BY DEF CredsInv, TypeOK, Expire, WindowEnds, ThrottleEnds, LockoutEnds, CtxEnds, caches
  <2> QED
    BY <1>1, <1>2, <1>3, <1>4, <2>1, <2>2 DEF CredsInv, TypeOK, answers
<1>6. Serialized' /\ RoomLeft' /\ WaitsFresh' /\ LockoutQuiet' /\ NoLeftover'
  BY <1>1, <1>2 DEF CredsInv, Serialized, RoomLeft, WaitsFresh, LockoutQuiet, NoLeftover, answers, coreOf
<1>7. Held' /\ FetchNeeded'
  <2>1. \A d \in Callers : Hit(d)' => Hit(d)
    <3> SUFFICES ASSUME NEW d \in Callers, Hit(d)' PROVE Hit(d)
      OBVIOUS
    <3>1. cacheOf(d) \in Caches /\ cacheOf(d)' = cacheOf(d) /\ linkOf(d)' = linkOf(d)
      BY <1>1, SetupTyped DEF CredsInv, TypeOK, cacheOf, linkOf
    <3>2. ASSUME NEW k \in Caches, Expire(k) PROVE Hit(d)
      <4>1. k # cacheOf(d)
        <5> SUFFICES ASSUME k = cacheOf(d) PROVE FALSE
          OBVIOUS
        <5>1. cache[k] \in TurnCredentials /\ cache \in [Caches -> TurnCredentials \cup {None}]
          BY <3>2 DEF Expire, CredsInv, TypeOK
        <5>2. cache'[k] = [cache[k] EXCEPT !.live = FALSE]
          BY <3>2, <5>1 DEF Expire
        <5>3. ~cache'[k].live
          BY <5>1, <5>2 DEF TurnCredentials
        <5> QED
          BY <3>1, <5>3 DEF Hit
      <4> QED
        BY <3>1, <3>2, <4>1 DEF Expire, Hit, CredsInv, TypeOK
    <3>3. CASE UNCHANGED cache
      BY <3>1, <3>3 DEF Hit
    <3> QED
      BY <3>2, <3>3 DEF WindowEnds, ThrottleEnds, LockoutEnds, CtxEnds, caches
  <2> QED
    BY <1>1, <2>1 DEF CredsInv, Held, FetchNeeded, cacheOf
<1> QED
  BY <1>5, <1>6, <1>7 DEF CredsInv

(* The results the user sends and the sessions' authentication errors. *)
LEMMA SolveInv ==
  ASSUME CredsInv, NEW o \in Cores, SolveDrains(o) \/ SolveSends(o)
  PROVE  CredsInv'
<1>1. UNCHANGED <<caches, requests, calls, tookLeftover, report>>
  BY DEF SolveDrains, SolveSends
<1>2. result' \in [Cores -> Results] /\ WaitsFresh'
  <2>1. result \in [Cores -> Results] /\ \A c \in Callers : coreOf(c) \in Cores
    BY SetupTyped DEF CredsInv, TypeOK
  <2>2. \A c \in Callers : coreOf(c)' = coreOf(c) /\ pc'[c] = pc[c]
    BY <1>1 DEF caches, calls, coreOf
  <2>3. CASE SolveDrains(o)
    BY <2>1, <2>2, <2>3 DEF CredsInv, WaitsFresh, SolveDrains, Results
  <2>4. CASE SolveSends(o)
    BY <2>1, <2>2, <2>4 DEF CredsInv, WaitsFresh, SolveSends, Results
  <2> QED
    BY <2>3, <2>4
<1>3. TypeOK'
  <2>1. (/\ throttled \in BOOLEAN /\ lockout \in BOOLEAN /\ tookLeftover \in BOOLEAN
         /\ ctxDone \in [Callers -> BOOLEAN] /\ recent \in [Caches -> BOOLEAN])'
    BY <1>1 DEF CredsInv, TypeOK, caches, requests, calls
  <2>2. (solving \in [Cores -> BOOLEAN])'
    BY DEF CredsInv, TypeOK, SolveDrains, SolveSends
  <2> QED
    BY <1>1, <1>2, <2>1, <2>2 DEF CredsInv, TypeOK, caches, requests, calls
<1>4. Serialized' /\ RoomLeft' /\ LockoutQuiet' /\ NoLeftover'
  BY <1>1 DEF CredsInv, Serialized, RoomLeft, LockoutQuiet, NoLeftover, requests, calls
<1>5. Held' /\ FetchNeeded'
  BY <1>1 DEF CredsInv, Held, FetchNeeded, Hit, cacheOf, linkOf, caches, calls
<1> QED
  BY <1>2, <1>3, <1>4, <1>5 DEF CredsInv

LEMMA AuthInv ==
  ASSUME CredsInv, NEW s \in Sessions, AuthError(s) \/ AuthStep(s) \/ AllocateOK(s)
  PROVE  CredsInv'
<1> USE DEF AuthError, AuthStep, StartOver, CountError, StampError, AuthWipe, AllocateOK
<1>1. UNCHANGED <<setup, mutex, requests, calls, answers>>
  BY DEF Wipe, caches
<1>2. /\ cacheOf(s) \in Caches /\ errorCount \in [Caches -> Nat]
      /\ report \in [Sessions -> Reports] /\ recent \in [Caches -> BOOLEAN]
      /\ cache \in [Caches -> TurnCredentials \cup {None}]
  BY SetupTyped DEF CredsInv, TypeOK
<1>3. (errorCount \in [Caches -> Nat])'
  BY <1>2 DEF Wipe, caches
<1>4. (recent \in [Caches -> BOOLEAN])'
  BY <1>2 DEF Wipe, caches
<1>5. (report \in [Sessions -> Reports])'
  BY <1>2 DEF Report, Reports
<1>6. /\ cache' \in [Caches -> TurnCredentials \cup {None}]
      /\ \A k \in Caches : cache'[k] = cache[k] \/ cache'[k] = None
  BY <1>2 DEF Wipe, caches
<1>7. TypeOK'
  <2>1. (/\ throttled \in BOOLEAN /\ lockout \in BOOLEAN /\ tookLeftover \in BOOLEAN
         /\ ctxDone \in [Callers -> BOOLEAN] /\ solving \in [Cores -> BOOLEAN])'
    BY <1>1 DEF CredsInv, TypeOK, requests, calls, answers
  <2> QED
    BY <1>1, <1>3, <1>4, <1>5, <1>6, <2>1 DEF CredsInv, TypeOK, requests, calls, answers
<1>8. Serialized' /\ RoomLeft' /\ LockoutQuiet' /\ WaitsFresh' /\ NoLeftover'
  BY <1>1 DEF CredsInv, Serialized, RoomLeft, LockoutQuiet, WaitsFresh, NoLeftover, requests, calls,
              answers, coreOf
<1>9. Held' /\ FetchNeeded'
  <2>1. \A d \in Callers : cacheOf(d) \in Caches
    BY SetupTyped DEF CredsInv, TypeOK
  <2>2. \A d \in Callers : Hit(d)' => Hit(d)
    BY <1>1, <1>6, <2>1 DEF Hit, cacheOf, linkOf
  <2> QED
    BY <1>1, <2>2 DEF CredsInv, Held, FetchNeeded, calls, cacheOf
<1> QED
  BY <1>7, <1>8, <1>9 DEF CredsInv

LEMMA NextInv == CredsInv /\ [Next]_vars => CredsInv'
<1> SUFFICES ASSUME CredsInv, [Next]_vars PROVE CredsInv'
  OBVIOUS
<1>1. CASE UNCHANGED vars
  <2>1. UNCHANGED <<caches, requests, calls, answers, report>>
    BY <1>1 DEF vars
  <2>2. TypeOK'
    <3>1. (/\ throttled \in BOOLEAN /\ lockout \in BOOLEAN /\ tookLeftover \in BOOLEAN
           /\ ctxDone \in [Callers -> BOOLEAN] /\ recent \in [Caches -> BOOLEAN]
           /\ solving \in [Cores -> BOOLEAN])'
      BY <2>1 DEF CredsInv, TypeOK, caches, requests, calls, answers
    <3> QED
      BY <2>1, <3>1 DEF CredsInv, TypeOK, caches, requests, calls, answers
  <2> QED
    BY <2>1, <2>2 DEF CredsInv, Serialized, RoomLeft, LockoutQuiet, WaitsFresh, NoLeftover, Held,
                      FetchNeeded, Hit, cacheOf, coreOf, linkOf, caches, requests, calls, answers
<1>2. ASSUME NEW c \in Callers, CallStep(c) \/ Call(c) PROVE CredsInv'
  BY <1>2, FetchInv, CacheInv DEF CallStep, FetchStep
<1> QED
  BY <1>1, <1>2, ClockInv, SolveInv, AuthInv DEF Next

-----------------------------------------------------------------------------
(* Every variable of creds.go's caches, locks and loops keeps its type:    *)
(* the attempts and the captchas of a fetch stay inside their limits.      *)
THEOREM CredsTypes == Spec => []TypeOK
<1>1. CredsInv => TypeOK
  BY DEF CredsInv
<1> QED
  BY <1>1, InitInv, NextInv, PTL DEF Spec

(* No goroutine is at VK or at a captcha while the lockout is in force     *)
(* (creds.go:457, 942, 956): the check and the store are both made by the  *)
(* holder of vkRequestMu.                                                  *)
THEOREM LockoutIsQuiet == Spec => []LockoutQuiet
<1>1. CredsInv => LockoutQuiet
  BY DEF CredsInv
<1> QED
  BY <1>1, InitInv, NextInv, PTL DEF Spec

(* From the moment a call has locked a cache until its fetch ends, the     *)
(* cache holds no live credentials for its link (creds.go:396-404): with   *)
(* any number of groups and Cores, VK is asked only for what is not there. *)
THEOREM FetchOnlyNeeded == Spec => []FetchNeeded
<1>1. CredsInv => FetchNeeded
  BY DEF CredsInv
<1> QED
  BY <1>1, InitInv, NextInv, PTL DEF Spec

(* A WebView request never takes a captcha result sent before it emptied   *)
(* the channel (creds.go:1199-1242), with any number of groups on one      *)
(* channel and results sent at any time.                                   *)
THEOREM CaptchaNoLeftover == Spec => []NoLeftover
<1>1. CredsInv => NoLeftover
  BY DEF CredsInv
<1> QED
  BY <1>1, InitInv, NextInv, PTL DEF Spec
=============================================================================
