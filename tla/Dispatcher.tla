----------------------------- MODULE Dispatcher -----------------------------
(***************************************************************************)
(* internal/core/dispatcher.go, uplink: readLoop takes packets from the    *)
(* local socket (or the TUN) and, under d.mu, puts each into the SendCh or *)
(* the PrioCh of one registered WorkerSlot.  The slot's writer and         *)
(* keepalive goroutines (internal/core/session.go) run beside it, and      *)
(* sessions register and unregister slots at any time.                     *)
(*                                                                         *)
(* A packet is named by the buffer that carries it.  getPktBuf takes any   *)
(* buffer of pktPool and putPktBuf puts it back, so the traffic is endless *)
(* although the buffers in circulation are bounded.  Time is kept as the   *)
(* two distances the code compares: the gap since the previous packet (an  *)
(* input) and the age of the chunk.                                        *)
(***************************************************************************)
EXTENDS Integers, Sequences, FiniteSets, FiniteSetsExt, SequencesExt

CONSTANTS Slots,      \* WorkerSlots that sessions will register
          SendCap,    \* capacity of SendCh (workerSendBuf, 128 in the code)
          PrioCap,    \* capacity of PrioCh (prioBuf, 32)
          Sizes,      \* packet sizes in bytes that may arrive
          Gaps,       \* milliseconds between two packets
          Bufs        \* bound: the packet buffers in circulation

ASSUME DispatcherAssumption ==
    /\ SendCap \in Nat \ {0} /\ PrioCap \in Nat \ {0}
    /\ Sizes \subseteq Nat /\ Gaps \subseteq Nat

VARIABLES
    workers,    \* d.workers: the registered slots, in order
    rrIndex,    \* d.rrIndex
    rrCount,    \* d.rrCount
    started,    \* d.lastPktTime > 0
    chunkAge,   \* now - d.chunkStartTs, saturated at maxDwellMS; Unset if that is 0
    sendCh,     \* slot.SendCh
    prioCh,     \* slot.PrioCh
    slot,       \* life of a slot, see SlotStates
    writer,     \* where the slot's writer goroutine is, see WriterStates
    hand,       \* the packet the writer has taken and not yet written, as a sequence
    pool,       \* pktPool: the free buffers
    lastBulk    \* history: the slot that took the last packet of the bulk path

sched == <<workers, rrIndex, rrCount, started, chunkAge>>
slots == <<slot, writer, hand>>
chans == <<sendCh, prioCh>>
vars  == <<sched, slots, chans, pool, lastBulk>>

SlotStates   == {"new", "up", "stopping", "left", "closed", "gone"}
WriterStates == {"off", "poll", "select", "write",
                 "drainPrio", "drainSend", "done"}

maxDwellMS    == 15
pauseMS       == 10
prioThreshold == 128
Unset         == -1

chunkSizeFor(size) ==
    CASE size > 1100        -> 64
      [] size \in 701..1100 -> 24
      [] size \in 301..700  -> 8
      [] size \in 101..300  -> 3
      [] OTHER              -> 1

Init ==
    /\ workers = <<>> /\ rrIndex = 0 /\ rrCount = 0
    /\ started = FALSE /\ chunkAge = Unset
    /\ sendCh = [s \in Slots |-> <<>>] /\ prioCh = [s \in Slots |-> <<>>]
    /\ slot = [s \in Slots |-> "new"] /\ writer = [s \in Slots |-> "off"]
    /\ hand = [s \in Slots |-> <<>>] /\ pool = Bufs /\ lastBulk = Unset

(***************************************************************************)
(* Slots: Register and Unregister.                                         *)
(***************************************************************************)
Register(s) ==
    /\ slot[s] = "new"
    /\ workers' = Append(workers, s)
    /\ slot' = [slot EXCEPT ![s] = "up"]
    /\ writer' = [writer EXCEPT ![s] = "poll"]
    /\ UNCHANGED <<rrIndex, rrCount, started, chunkAge, hand, chans, pool, lastBulk>>

(* sessCtx is cancelled: by the group's context, the reader or a relay loop. *)
CancelSession(s) ==
    /\ slot[s] = "up"
    /\ slot' = [slot EXCEPT ![s] = "stopping"]
    /\ UNCHANGED <<sched, writer, hand, chans, pool, lastBulk>>

(* mutant: the slot after s is removed *)
IndexOf_Next(s) == CHOOSE i \in DOMAIN workers : workers[(i % Len(workers)) + 1] = s

IndexOf(s) == CHOOSE i \in DOMAIN workers : workers[i] = s

(* mutant: the pointer is not moved back into range *)
WrapIndex_Stale(remaining) == rrIndex

WrapIndex(remaining) ==
    IF rrIndex >= remaining /\ remaining > 0 THEN rrIndex % remaining ELSE rrIndex

(* mutant: the chunk in progress is not closed *)
Unregister_KeepsCount(s) ==
    /\ slot[s] = "stopping" /\ writer[s] = "done"
    /\ workers' = RemoveAt(workers, IndexOf(s))
    /\ rrIndex' = WrapIndex(Len(workers) - 1)
    /\ slot' = [slot EXCEPT ![s] = "left"]
    /\ UNCHANGED <<rrCount, started, chunkAge, writer, hand, chans, pool, lastBulk>>

(* The critical section of Unregister, which RunSession defers: it runs when *)
(* the slot's goroutines are done (proxyWg.Wait).                            *)
Unregister(s) ==
    /\ slot[s] = "stopping" /\ writer[s] = "done"
    /\ workers' = RemoveAt(workers, IndexOf(s))
    /\ rrIndex' = WrapIndex(Len(workers) - 1)
    /\ rrCount' = 0
    /\ slot' = [slot EXCEPT ![s] = "left"]
    /\ UNCHANGED <<started, chunkAge, writer, hand, chans, pool, lastBulk>>

(* close(slot.SendCh), after d.mu was released *)
CloseSend(s) ==
    /\ slot[s] = "left"
    /\ slot' = [slot EXCEPT ![s] = "closed"]
    /\ UNCHANGED <<sched, writer, hand, chans, pool, lastBulk>>

(* for pkt := range slot.SendCh { putPktBuf(pkt) } *)
DrainClosed(s) ==
    /\ slot[s] = "closed"
    /\ pool' = pool \cup Range(sendCh[s])
    /\ sendCh' = [sendCh EXCEPT ![s] = <<>>]
    /\ slot' = [slot EXCEPT ![s] = "gone"]
    /\ UNCHANGED <<sched, writer, hand, prioCh, lastBulk>>

(***************************************************************************)
(* readLoop: one packet of `size' bytes, `gap' ms after the previous one,  *)
(* is put somewhere under d.mu, in the buffer b.  The buffer of a dropped  *)
(* packet goes back to the pool in the same step.                          *)
(***************************************************************************)
At(i) == workers[(i % Len(workers)) + 1]

(* mutants: the last alternate is never tried; a full channel counts as free *)
Free_SkipLast(ch, cap, idx) == {i \in 0..(Len(workers) - 2) : Len(ch[At(idx + i)]) < cap}
Free_Full(ch, cap, idx) == {i \in 0..(Len(workers) - 1) : Len(ch[At(idx + i)]) <= cap}

(* Offsets from idx at which a non-blocking send to channel ch succeeds. *)
Free(ch, cap, idx) == {i \in 0..(Len(workers) - 1) : Len(ch[At(idx + i)]) < cap}

Paused(gap) == started /\ gap > pauseMS
Index0(gap) == IF Paused(gap) THEN (rrIndex + 1) % Len(workers) ELSE rrIndex
Count0(gap) == IF Paused(gap) THEN 0 ELSE rrCount
Age0(gap)   == IF Paused(gap) THEN 0
               ELSE IF chunkAge = Unset THEN Unset
               ELSE IF chunkAge + gap >= maxDwellMS THEN maxDwellMS
               ELSE chunkAge + gap

DropNoWorker ==
    /\ workers = <<>>
    /\ UNCHANGED <<sched, chans, pool, lastBulk>>

(* mutant: only the current worker's PrioCh is tried *)
PrioOffsets_Current(size, gap) ==
    IF size <= prioThreshold THEN Free(prioCh, PrioCap, Index0(gap)) \cap {0} ELSE {}

PrioOffsets(size, gap) ==
    IF size <= prioThreshold THEN Free(prioCh, PrioCap, Index0(gap)) ELSE {}

SendPrio(b, size, gap) ==
    LET offs == PrioOffsets(size, gap)
        s    == At(Index0(gap) + Min(offs))
    IN  /\ workers # <<>> /\ offs # {}
        /\ prioCh' = [prioCh EXCEPT ![s] = Append(@, b)]
        /\ pool' = pool \ {b}
        /\ rrIndex' = Index0(gap) /\ rrCount' = Count0(gap)
        /\ chunkAge' = Age0(gap) /\ started' = TRUE
        /\ UNCHANGED <<workers, sendCh, lastBulk>>

Dwelled(gap) == Age0(gap) = maxDwellMS
Index1(gap)  == IF Dwelled(gap) THEN (Index0(gap) + 1) % Len(workers) ELSE Index0(gap)
Count1(gap)  == IF Dwelled(gap) THEN 0 ELSE Count0(gap)
Age1(gap)    == IF Dwelled(gap) \/ Age0(gap) = Unset THEN 0 ELSE Age0(gap)

(* The bulk path: the packet is not small, or no PrioCh had room for it. *)
BulkPath(size, gap) == workers # <<>> /\ PrioOffsets(size, gap) = {}

(* chunk affinity: the current worker takes the packet *)
SendCurrent(b, size, gap) ==
    LET idx  == Index1(gap)
        cnt  == Count1(gap) + 1
        full == cnt >= chunkSizeFor(size)
    IN  /\ BulkPath(size, gap) /\ 0 \in Free(sendCh, SendCap, idx)
        /\ sendCh' = [sendCh EXCEPT ![At(idx)] = Append(@, b)]
        /\ pool' = pool \ {b} /\ lastBulk' = At(idx)
        /\ rrIndex' = IF full THEN (idx + 1) % Len(workers) ELSE idx
        /\ rrCount' = IF full THEN 0 ELSE cnt
        /\ chunkAge' = IF full THEN 0 ELSE Age1(gap)
        /\ started' = TRUE
        /\ UNCHANGED <<workers, prioCh>>

(* the current worker is full: the next free one starts a new chunk *)
SendAlternate(b, size, gap) ==
    LET offs == Free(sendCh, SendCap, Index1(gap))
        alt  == (Index1(gap) + Min(offs)) % Len(workers)
    IN  /\ BulkPath(size, gap) /\ offs # {} /\ 0 \notin offs
        /\ sendCh' = [sendCh EXCEPT ![At(alt)] = Append(@, b)]
        /\ pool' = pool \ {b} /\ lastBulk' = At(alt)
        /\ rrIndex' = alt /\ rrCount' = 1 /\ chunkAge' = 0 /\ started' = TRUE
        /\ UNCHANGED <<workers, prioCh>>

DropAllFull(size, gap) ==
    /\ BulkPath(size, gap) /\ Free(sendCh, SendCap, Index1(gap)) = {}
    /\ rrIndex' = (Index1(gap) + 1) % Len(workers) /\ rrCount' = 0
    /\ chunkAge' = Age1(gap) /\ started' = TRUE
    /\ UNCHANGED <<workers, chans, pool, lastBulk>>

ReadPacket(size, gap) ==
    /\ \/ \E b \in pool : \/ SendPrio(b, size, gap)
                         \/ SendCurrent(b, size, gap)
                         \/ SendAlternate(b, size, gap)
       \/ DropNoWorker
       \/ DropAllFull(size, gap)
    /\ UNCHANGED slots

(***************************************************************************)
(* The session's goroutines that use the slot.                             *)
(***************************************************************************)

(* mutant: the buffer is put back although it was queued *)
KeepaliveTick_PutsBack(s) ==
    /\ slot[s] \in {"up", "stopping"} /\ Len(prioCh[s]) < PrioCap
    /\ \E b \in pool : prioCh' = [prioCh EXCEPT ![s] = Append(@, b)]
    /\ UNCHANGED <<sched, slots, sendCh, pool, lastBulk>>

(* keepalive: a non-blocking send to PrioCh (when it is full the buffer goes  *)
(* straight back and nothing changes).  A tick that is due when sessCtx is    *)
(* cancelled may still be taken; the goroutine is gone at Unregister.         *)
KeepaliveTick(s) ==
    /\ slot[s] \in {"up", "stopping"} /\ Len(prioCh[s]) < PrioCap
    /\ \E b \in pool : /\ prioCh' = [prioCh EXCEPT ![s] = Append(@, b)]
                       /\ pool' = pool \ {b}
    /\ UNCHANGED <<sched, slots, sendCh, lastBulk>>

(* writer: PrioCh is polled first, then the three-way select *)
TakePrio(s) ==
    /\ writer[s] \in {"poll", "select"} /\ prioCh[s] # <<>>
    /\ hand' = [hand EXCEPT ![s] = <<Head(prioCh[s])>>]
    /\ prioCh' = [prioCh EXCEPT ![s] = Tail(@)]
    /\ writer' = [writer EXCEPT ![s] = "write"]
    /\ UNCHANGED <<sched, slot, sendCh, pool, lastBulk>>

PollEmpty(s) ==
    /\ writer[s] = "poll" /\ prioCh[s] = <<>>
    /\ writer' = [writer EXCEPT ![s] = "select"]
    /\ UNCHANGED <<sched, slot, hand, chans, pool, lastBulk>>

TakeSend(s) ==
    /\ writer[s] = "select" /\ sendCh[s] # <<>>
    /\ hand' = [hand EXCEPT ![s] = <<Head(sendCh[s])>>]
    /\ sendCh' = [sendCh EXCEPT ![s] = Tail(@)]
    /\ writer' = [writer EXCEPT ![s] = "write"]
    /\ UNCHANGED <<sched, slot, prioCh, pool, lastBulk>>

(* mutant: the select has no case for sessCtx.Done() *)
WriterSeesDone_Never(s) == FALSE /\ UNCHANGED vars

WriterSeesDone(s) ==
    /\ writer[s] = "select" /\ slot[s] = "stopping"
    /\ writer' = [writer EXCEPT ![s] = "drainPrio"]
    /\ UNCHANGED <<sched, slot, hand, chans, pool, lastBulk>>

(* activeConn.Write and putPktBuf; an error ends the loop through the drains *)
WriteOK(s) ==
    /\ writer[s] = "write"
    /\ pool' = pool \cup Range(hand[s])
    /\ hand' = [hand EXCEPT ![s] = <<>>]
    /\ writer' = [writer EXCEPT ![s] = "poll"]
    /\ UNCHANGED <<sched, slot, chans, lastBulk>>

WriteFail(s) ==
    /\ writer[s] = "write"
    /\ pool' = pool \cup Range(hand[s])
    /\ hand' = [hand EXCEPT ![s] = <<>>]
    /\ writer' = [writer EXCEPT ![s] = "drainPrio"]
    /\ UNCHANGED <<sched, slot, chans, lastBulk>>

(* The writer's deferred function empties PrioCh, then SendCh, one packet at  *)
(* a time while readLoop may still add to them; then sessCancel.              *)
DrainPrio(s) ==
    /\ writer[s] = "drainPrio"
    /\ IF prioCh[s] # <<>>
       THEN /\ pool' = pool \cup {Head(prioCh[s])}
            /\ prioCh' = [prioCh EXCEPT ![s] = Tail(@)]
            /\ UNCHANGED writer
       ELSE /\ writer' = [writer EXCEPT ![s] = "drainSend"]
            /\ UNCHANGED <<pool, prioCh>>
    /\ UNCHANGED <<sched, slot, hand, sendCh, lastBulk>>

DrainSend(s) ==
    /\ writer[s] = "drainSend"
    /\ IF sendCh[s] # <<>>
       THEN /\ pool' = pool \cup {Head(sendCh[s])}
            /\ sendCh' = [sendCh EXCEPT ![s] = Tail(@)]
            /\ UNCHANGED <<slot, writer>>
       ELSE /\ writer' = [writer EXCEPT ![s] = "done"]
            /\ slot' = [slot EXCEPT ![s] = "stopping"]
            /\ UNCHANGED <<pool, sendCh>>
    /\ UNCHANGED <<sched, hand, prioCh, lastBulk>>

Writer(s) ==
    \/ TakePrio(s) \/ PollEmpty(s) \/ TakeSend(s) \/ WriterSeesDone(s)
    \/ WriteOK(s) \/ WriteFail(s) \/ DrainPrio(s) \/ DrainSend(s)

Leave(s) == Unregister(s) \/ CloseSend(s) \/ DrainClosed(s)

Next ==
    \/ \E s \in Slots : \/ Register(s) \/ CancelSession(s) \/ KeepaliveTick(s)
                        \/ Writer(s) \/ Leave(s)
    \/ \E size \in Sizes, gap \in Gaps : ReadPacket(size, gap)

Spec == Init /\ [][Next]_vars

(* The Go scheduler runs every goroutine that can run, and a select does not  *)
(* pass over a ready case for ever.  Nothing obliges a packet to arrive, a    *)
(* session to start or one to fail.                                           *)
FairSpec ==
    /\ Spec
    /\ \A s \in Slots : /\ WF_vars(Writer(s)) /\ WF_vars(Leave(s))
                        /\ SF_vars(WriterSeesDone(s))

-----------------------------------------------------------------------------
(* Types, with the bounds the channels have in the code. *)
TypeOK ==
    /\ workers \in Seq(Slots) /\ rrIndex \in Nat /\ rrCount \in 0..63
    /\ started \in BOOLEAN /\ chunkAge \in Unset..maxDwellMS
    /\ sendCh \in [Slots -> Seq(Bufs)] /\ prioCh \in [Slots -> Seq(Bufs)]
    /\ \A s \in Slots : Len(sendCh[s]) <= SendCap /\ Len(prioCh[s]) <= PrioCap
    /\ slot \in [Slots -> SlotStates] /\ writer \in [Slots -> WriterStates]
    /\ hand \in [Slots -> Seq(Bufs)] /\ pool \subseteq Bufs
    /\ lastBulk \in Slots \cup {Unset}

(* readLoop sends, under d.mu, only to slots whose SendCh is open: Unregister *)
(* takes the slot out of d.workers before it closes the channel (a send on a  *)
(* closed channel panics), each slot is in d.workers at most once, and the    *)
(* channel is closed only after the slot's writer has gone.                   *)
NoSendOnClosed ==
    /\ \A i \in DOMAIN workers : slot[workers[i]] \in {"up", "stopping"}
    /\ \A i \in DOMAIN workers : \A j \in DOMAIN workers :
           workers[i] = workers[j] => i = j
    /\ \A s \in Slots : slot[s] \in {"left", "closed", "gone"} => writer[s] = "done"

(* The round-robin pointer stays inside d.workers across registrations, chunk *)
(* rotations, fallbacks and the removal of any slot, so the modulo readLoop   *)
(* applies to it changes nothing.                                             *)
RRInRange == rrIndex < Len(workers) \/ (workers = <<>> /\ rrIndex = 0)

(* In the middle of a chunk the current worker is the one that took the last  *)
(* bulk packet, whoever registered, left, filled up or drained meanwhile: the *)
(* packets of a chunk go through one relay ("in-order delivery"), and the     *)
(* count of one worker's chunk never continues on another that slid into its  *)
(* place when Unregister moved d.workers up.                                  *)
ChunkAffinity == rrCount > 0 => workers # <<>> /\ At(rrIndex) = lastBulk

(* Who can hold a packet buffer, and which ones it holds. *)
Holders == ({"sendCh", "prioCh", "hand"} \X Slots) \cup {<<"pool">>}
Holding(k) ==
    CASE k[1] = "sendCh" -> Range(sendCh[k[2]])
      [] k[1] = "prioCh" -> Range(prioCh[k[2]])
      [] k[1] = "hand"   -> Range(hand[k[2]])
      [] k[1] = "pool"   -> pool

(* Every packet buffer has exactly one owner: a channel, a writer's hand or   *)
(* the pool.  A buffer in two places, or put back twice, would be overwritten *)
(* by another packet before it is sent.                                       *)
BufferOwnedOnce ==
    /\ \A b \in Bufs : Cardinality({k \in Holders : b \in Holding(k)}) = 1
    /\ \A s \in Slots : \A q \in {sendCh[s], prioCh[s], hand[s]} : IsInjective(q)

(* readLoop drops a packet (reads one and puts it into no channel) only when  *)
(* no worker is registered or the SendCh of every registered worker is full.  *)
DropOnlyWhenFull ==
    [][\A size \in Sizes, gap \in Gaps :
         ReadPacket(size, gap) /\ UNCHANGED chans =>
             \A i \in DOMAIN workers : Len(sendCh[workers[i]]) = SendCap]_vars

(* A small packet (an ACK) is queued behind bulk data only when the priority  *)
(* channel of every registered worker is full.                                *)
SmallNotBehindBulk ==
    [][\A size \in Sizes, gap \in Gaps :
         size <= prioThreshold /\ ReadPacket(size, gap) /\ sendCh' # sendCh =>
             \A i \in DOMAIN workers : Len(prioCh[workers[i]]) = PrioCap]_vars

(* The writer found a channel empty; it took a packet out of one. *)
FindsEmpty(s) == writer'[s] # writer[s] /\ writer'[s] \in {"select", "drainSend", "done"}
TakesOne(s)   == \/ prioCh[s] # <<>> /\ prioCh'[s] = Tail(prioCh[s])
                 \/ sendCh[s] # <<>> /\ sendCh'[s] = Tail(sendCh[s])

(* Packets reach the slot so fast that from some moment on its writer always  *)
(* finds another one where it looks first.                                    *)
Flooded(s) == []<><<TakesOne(s)>>_vars /\ <>[][~FindsEmpty(s)]_vars

(* A cancelled session leaves the dispatcher although readLoop and keepalive  *)
(* go on feeding its channels for ever: its writer notices, drains and ends,  *)
(* and the slot's SendCh is closed and emptied.  The one exception is a slot  *)
(* flooded with small packets (PrioCh is polled before sessCtx.Done()) or     *)
(* with packets that come faster than the writer's deferred drain takes them. *)
CancelledSlotLeaves ==
    \A s \in Slots :
        Flooded(s) \/ (slot[s] = "stopping" ~> slot[s] = "gone" /\ sendCh[s] = <<>>)
=============================================================================
