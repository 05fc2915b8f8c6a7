-------------------------- MODULE DispatcherProofs --------------------------
(***************************************************************************)
(* Theorems about module Dispatcher, for any set of slots, any channel     *)
(* capacities, packet sizes, gaps and set of buffers.                      *)
(***************************************************************************)
EXTENDS Dispatcher, SequenceTheorems, FiniteSetTheorems, WellFoundedInduction, TLAPS

(* A non-empty set of naturals has a least element. *)
LEMMA MinExists ==
    ASSUME NEW S \in SUBSET Nat, S # {}
    PROVE  \E x \in S : \A y \in S : x =< y
<1>1. IsWellFoundedOn(OpToRel(<, Nat), Nat)
    BY NatLessThanWellFounded
<1>2. PICK x \in S : \A y \in S : ~(<<y, x>> \in OpToRel(<, Nat))
    BY <1>1, WFMin
<1>3. \A y \in S : ~(y < x)
    BY <1>2 DEF OpToRel
<1> QED
    BY <1>3

(* Min, which picks the offset of the first channel with room, picks one. *)
LEMMA MinIn ==
    ASSUME NEW S \in SUBSET Nat, S # {}
    PROVE  Min(S) \in S /\ \A y \in S : Min(S) =< y
BY MinExists DEF Min

(* d.rrIndex % nw indexes d.workers. *)
LEMMA ModRange ==
    ASSUME NEW a \in Nat, NEW n \in Nat \ {0}
    PROVE  a % n \in 0..(n - 1)
OBVIOUS

(* Reducing an index that is in range changes nothing. *)
LEMMA ModSmall ==
    ASSUME NEW n \in Nat \ {0}, NEW a \in 0..(n - 1)
    PROVE  a % n = a /\ (a + n) % n = a
OBVIOUS

(* What the append of the two halves of d.workers in Unregister leaves. *)
LEMMA RemoveAtProperties ==
    ASSUME NEW S, NEW q \in Seq(S), NEW k \in 1..Len(q)
    PROVE  /\ RemoveAt(q, k) \in Seq(S)
           /\ Len(RemoveAt(q, k)) = Len(q) - 1
           /\ \A i \in 1..(Len(q) - 1) :
                  RemoveAt(q, k)[i] = IF i < k THEN q[i] ELSE q[i + 1]
<1> DEFINE a == SubSeq(q, 1, k - 1)
           b == SubSeq(q, k + 1, Len(q))
<1>1. Len(q) \in Nat /\ k \in Int /\ k - 1 \in Int /\ k + 1 \in Int /\ Len(q) \in Int
    BY LenProperties
<1>2. (\A i \in 1..(k - 1) : q[i] \in S) /\ (\A i \in (k + 1)..Len(q) : q[i] \in S)
    BY ElementOfSeq
<1>3. /\ a \in Seq(S) /\ Len(a) = k - 1
      /\ \A i \in 1..(k - 1) : a[i] = q[i]
    BY <1>1, <1>2, SubSeqProperties
<1>4. /\ b \in Seq(S) /\ Len(b) = Len(q) - k
      /\ \A i \in 1..(Len(q) - k) : b[i] = q[k + i]
    BY <1>1, <1>2, SubSeqProperties
<1>5. /\ a \o b \in Seq(S) /\ Len(a \o b) = Len(a) + Len(b)
      /\ \A i \in 1..(Len(a) + Len(b)) : (a \o b)[i] = IF i <= Len(a) THEN a[i] ELSE b[i - Len(a)]
    BY <1>3, <1>4, ConcatProperties
<1>6. RemoveAt(q, k) = a \o b
    BY DEF RemoveAt
<1> HIDE DEF a, b
<1>7. ASSUME NEW i \in 1..(Len(q) - 1)
      PROVE  (a \o b)[i] = IF i < k THEN q[i] ELSE q[i + 1]
    <2>1. CASE i < k
        BY <2>1, <1>1, <1>3, <1>4, <1>5
    <2>2. CASE ~(i < k)
        <3>1. i - (k - 1) \in 1..(Len(q) - k) /\ k + (i - (k - 1)) = i + 1
            BY <2>2, <1>1
        <3>2. b[i - (k - 1)] = q[i + 1]
            BY <3>1, <1>4
        <3>3. (a \o b)[i] = b[i - (k - 1)]
            BY <2>2, <1>1, <1>3, <1>4, <1>5
        <3> QED BY <3>2, <3>3, <2>2
    <2> QED BY <2>1, <2>2
<1> QED BY <1>1, <1>3, <1>4, <1>5, <1>6, <1>7

-----------------------------------------------------------------------------
(* Every slot whose session has not left is in d.workers, and a slot that no  *)
(* session has registered has no writer.                                      *)
Registered ==
    \A s \in Slots :
        /\ slot[s] \in {"up", "stopping"} => \E i \in DOMAIN workers : workers[i] = s
        /\ slot[s] = "new" => writer[s] = "off"

(* The inductive invariant. *)
Inv == TypeOK /\ Registered /\ NoSendOnClosed /\ RRInRange

(* The constants the model fixes. *)
LEMMA Consts ==
    /\ maxDwellMS = 15 /\ pauseMS = 10 /\ prioThreshold = 128 /\ Unset = -1
    /\ SendCap \in Nat \ {0} /\ PrioCap \in Nat \ {0}
    /\ Gaps \subseteq Nat /\ Sizes \subseteq Nat
BY DispatcherAssumption DEF maxDwellMS, pauseMS, prioThreshold, Unset

(* The slot readLoop picks is one of d.workers. *)
LEMMA AtIn ==
    ASSUME TypeOK, workers # <<>>, NEW i \in Nat
    PROVE  /\ Len(workers) \in Nat \ {0}
           /\ (i % Len(workers)) + 1 \in DOMAIN workers
           /\ At(i) = workers[(i % Len(workers)) + 1]
           /\ At(i) \in Slots
<1>1. workers \in Seq(Slots)
    BY DEF TypeOK
<1>2. Len(workers) \in Nat \ {0} /\ DOMAIN workers = 1..Len(workers)
    BY <1>1, LenProperties, EmptySeq
<1>3. i % Len(workers) \in 0..(Len(workers) - 1)
    BY <1>2, ModRange
<1>4. (i % Len(workers)) + 1 \in 1..Len(workers)
    BY <1>2, <1>3
<1> QED
    BY <1>1, <1>2, <1>4, ElementOfSeq DEF At

(* The pointer, the count and the age of the chunk stay in their ranges while *)
(* readLoop moves them on.                                                    *)
LEMMA Moves ==
    ASSUME Inv, workers # <<>>, NEW gap \in Gaps
    PROVE  /\ Index0(gap) \in Nat /\ Index1(gap) \in Nat
           /\ Index0(gap) \in 0..(Len(workers) - 1) /\ Index1(gap) \in 0..(Len(workers) - 1)
           /\ Count0(gap) \in 0..63 /\ Count1(gap) \in 0..63
           /\ Age0(gap) \in Unset..maxDwellMS /\ Age1(gap) \in 0..maxDwellMS
<1>1. Len(workers) \in Nat \ {0} /\ rrIndex \in 0..(Len(workers) - 1)
    BY AtIn DEF Inv, TypeOK, RRInRange
<1>2. \A i \in Nat : i % Len(workers) \in 0..(Len(workers) - 1)
    BY <1>1, ModRange
<1>3. Index0(gap) \in 0..(Len(workers) - 1)
    <2>1. rrIndex + 1 \in Nat
        BY <1>1
    <2> QED
        BY <1>1, <1>2, <2>1 DEF Index0
<1>4. Index1(gap) \in 0..(Len(workers) - 1)
    <2>1. Index0(gap) + 1 \in Nat
        BY <1>1, <1>3
    <2> QED
        BY <1>2, <1>3, <2>1 DEF Index1
<1>5. rrCount \in 0..63 /\ chunkAge \in Unset..maxDwellMS
    BY DEF Inv, TypeOK
<1>6. Count0(gap) \in 0..63 /\ Count1(gap) \in 0..63
    BY <1>5 DEF Count0, Count1
<1>7. Age0(gap) \in Unset..maxDwellMS
    BY <1>5, Consts DEF Age0
<1>8. Age1(gap) \in 0..maxDwellMS
    BY <1>7, Consts DEF Age1
<1>9. Index0(gap) \in Nat /\ Index1(gap) \in Nat
    BY <1>3, <1>4
<1> QED
    BY <1>3, <1>4, <1>6, <1>7, <1>8, <1>9

(* A channel that had room holds one packet more. *)
LEMMA AppendOne ==
    ASSUME NEW q, q \in [Slots -> Seq(Bufs)], NEW cap \in Nat, NEW s \in Slots,
           \A t \in Slots : Len(q[t]) <= cap, Len(q[s]) < cap, NEW p \in Bufs
    PROVE  LET r == [q EXCEPT ![s] = Append(@, p)]
           IN  r \in [Slots -> Seq(Bufs)] /\ \A t \in Slots : Len(r[t]) <= cap
<1>1. q[s] \in Seq(Bufs) /\ Len(q[s]) \in Nat
    BY LenProperties
<1>2. Append(q[s], p) \in Seq(Bufs) /\ Len(Append(q[s], p)) = Len(q[s]) + 1
    BY <1>1, AppendProperties
<1> QED
    BY <1>1, <1>2

(* Taking the first packet out of a channel. *)
LEMMA TailOne ==
    ASSUME NEW q, q \in [Slots -> Seq(Bufs)], NEW cap \in Nat, NEW s \in Slots,
           \A t \in Slots : Len(q[t]) <= cap, q[s] # <<>>
    PROVE  LET r == [q EXCEPT ![s] = Tail(@)]
           IN  /\ r \in [Slots -> Seq(Bufs)] /\ \A t \in Slots : Len(r[t]) <= cap
               /\ Head(q[s]) \in Bufs /\ <<Head(q[s])>> \in Seq(Bufs)
<1>1. q[s] \in Seq(Bufs) /\ Len(q[s]) \in Nat
    BY LenProperties
<1>2. Tail(q[s]) \in Seq(Bufs) /\ Len(Tail(q[s])) = Len(q[s]) - 1 /\ Head(q[s]) \in Bufs
    BY <1>1, HeadTailProperties
<1> QED
    BY <1>1, <1>2

(* Initially nothing is registered and nothing is queued. *)
LEMMA InitInv == Init => Inv
<1> SUFFICES ASSUME Init PROVE Inv
    OBVIOUS
<1>1. <<>> \in Seq(Slots) /\ <<>> \in Seq(Bufs) /\ Len(<<>>) = 0 /\ DOMAIN <<>> = {}
    BY EmptySeq
<1>2. TypeOK
    <2>1. started \in BOOLEAN
        BY DEF Init
    <2>2. /\ workers \in Seq(Slots) /\ rrIndex \in Nat /\ rrCount \in 0..63
          /\ chunkAge \in Unset..maxDwellMS
        BY <1>1, Consts DEF Init
    <2>3. /\ sendCh \in [Slots -> Seq(Bufs)] /\ prioCh \in [Slots -> Seq(Bufs)]
          /\ hand \in [Slots -> Seq(Bufs)]
          /\ \A s \in Slots : Len(sendCh[s]) <= SendCap /\ Len(prioCh[s]) <= PrioCap
        BY <1>1, Consts DEF Init
    <2>4. slot \in [Slots -> SlotStates] /\ writer \in [Slots -> WriterStates]
        BY DEF Init, SlotStates, WriterStates
    <2> QED
        BY <2>1, <2>2, <2>3, <2>4 DEF Init, TypeOK
<1>3. Registered /\ NoSendOnClosed /\ RRInRange
    BY <1>1 DEF Init, Registered, NoSendOnClosed, RRInRange
<1> QED
    BY <1>2, <1>3 DEF Inv

-----------------------------------------------------------------------------
(* Actions that leave d.workers, the pointer and the slots alone can only     *)
(* disturb the types, and the writer's part of the others.                    *)
LEMMA SchedUnchanged ==
    ASSUME Inv, UNCHANGED <<workers, rrIndex, slot>>, TypeOK',
           \A s \in Slots : writer'[s] = writer[s] \/ writer[s] \notin {"off", "done"}
    PROVE  Inv'
<1>1. Registered'
    BY DEF Inv, Registered
<1>2. NoSendOnClosed'
    BY DEF Inv, NoSendOnClosed
<1>3. RRInRange'
    BY DEF Inv, RRInRange
<1> QED
    BY <1>1, <1>2, <1>3 DEF Inv

(* Register: a new slot is appended to d.workers. *)
LEMMA RegisterInv ==
    ASSUME Inv, NEW s \in Slots, Register(s)
    PROVE  Inv'
<1> USE DEF Register, chans
<1>1. workers \in Seq(Slots) /\ Len(workers) \in Nat /\ DOMAIN workers = 1..Len(workers)
    BY LenProperties DEF Inv, TypeOK
<1>2. /\ workers' \in Seq(Slots) /\ Len(workers') = Len(workers) + 1
      /\ DOMAIN workers' = 1..(Len(workers) + 1)
      /\ \A i \in 1..Len(workers) : workers'[i] = workers[i]
      /\ workers'[Len(workers) + 1] = s
    BY <1>1, AppendProperties, LenProperties
<1>3. \A i \in 1..Len(workers) : workers[i] \in Slots /\ workers[i] # s
    BY <1>1, ElementOfSeq DEF Inv, NoSendOnClosed
<1>4. TypeOK'
    <2>1. /\ slot' \in [Slots -> SlotStates] /\ writer' \in [Slots -> WriterStates]
        BY DEF Inv, TypeOK, SlotStates, WriterStates
    <2> QED
        BY <1>2, <2>1 DEF Inv, TypeOK
<1>5. slot' = [slot EXCEPT ![s] = "up"] /\ writer' = [writer EXCEPT ![s] = "poll"]
      /\ slot \in [Slots -> SlotStates] /\ writer \in [Slots -> WriterStates]
    BY DEF Inv, TypeOK
<1>6. Registered'
    <2> SUFFICES ASSUME NEW t \in Slots
                 PROVE  /\ slot'[t] \in {"up", "stopping"} => \E i \in DOMAIN workers' : workers'[i] = t
                        /\ slot'[t] = "new" => writer'[t] = "off"
        BY DEF Registered
    <2>1. CASE t = s
        BY <2>1, <1>1, <1>2, <1>5
    <2>2. CASE t # s
        BY <2>2, <1>1, <1>2, <1>5 DEF Inv, Registered
    <2> QED
        BY <2>1, <2>2
<1>7. NoSendOnClosed'
    <2>1. \A i \in DOMAIN workers' : slot'[workers'[i]] \in {"up", "stopping"}
        BY <1>1, <1>2, <1>3, <1>5 DEF Inv, NoSendOnClosed
    <2>2. \A i \in DOMAIN workers' : \A j \in DOMAIN workers' : workers'[i] = workers'[j] => i = j
        BY <1>1, <1>2, <1>3 DEF Inv, NoSendOnClosed
    <2>3. \A t \in Slots : slot'[t] \in {"left", "closed", "gone"} => writer'[t] = "done"
        BY <1>5 DEF Inv, NoSendOnClosed
    <2> QED
        BY <2>1, <2>2, <2>3 DEF NoSendOnClosed
<1>8. RRInRange'
    BY <1>1, <1>2, EmptySeq DEF Inv, TypeOK, RRInRange
<1> QED
    BY <1>4, <1>6, <1>7, <1>8 DEF Inv

(* The pointer of Unregister points into what is left of d.workers. *)
LEMMA WrapInRange ==
    ASSUME NEW m \in Nat \ {0}, rrIndex \in Nat
    PROVE  WrapIndex(m) \in Nat /\ WrapIndex(m) < m
<1>1. rrIndex % m \in 0..(m - 1)
    BY ModRange
<1> QED
    BY <1>1 DEF WrapIndex

(* Unregister: the slot goes out of d.workers, the pointer back into range. *)
LEMMA UnregisterInv ==
    ASSUME Inv, NEW s \in Slots, Unregister(s)
    PROVE  Inv'
<1> USE DEF Unregister, chans
<1> DEFINE n == Len(workers)
           k == IndexOf(s)
<1>1. workers \in Seq(Slots) /\ n \in Nat /\ DOMAIN workers = 1..n
    BY LenProperties DEF Inv, TypeOK
<1>2. k \in 1..n /\ workers[k] = s
    <2>1. \E i \in DOMAIN workers : workers[i] = s
        BY DEF Inv, Registered
    <2> QED
        BY <2>1, <1>1 DEF IndexOf
<1>3. /\ workers' \in Seq(Slots) /\ Len(workers') = n - 1
      /\ \A i \in 1..(n - 1) : workers'[i] = IF i < k THEN workers[i] ELSE workers[i + 1]
    BY <1>1, <1>2, RemoveAtProperties
<1>4. DOMAIN workers' = 1..(n - 1)
    BY <1>3, LenProperties
<1>5. slot' = [slot EXCEPT ![s] = "left"] /\ writer' = writer /\ writer[s] = "done"
      /\ slot \in [Slots -> SlotStates] /\ writer \in [Slots -> WriterStates]
    BY DEF Inv, TypeOK
<1> HIDE DEF n, k
<1>6. \A i \in 1..(n - 1) : \E j \in 1..n : j # k /\ workers'[i] = workers[j] /\ j = (IF i < k THEN i ELSE i + 1)
    BY <1>1, <1>2, <1>3
<1>7. \A j \in 1..n : j # k => \E i \in 1..(n - 1) : workers'[i] = workers[j]
    <2> TAKE j \in 1..n
    <2> HAVE j # k
    <2>1. CASE j < k
        <3>1. j \in 1..(n - 1)
            BY <2>1, <1>1, <1>2
        <3> QED
            BY <2>1, <3>1, <1>3
    <2>2. CASE ~(j < k)
        <3>1. j - 1 \in 1..(n - 1) /\ ~(j - 1 < k) /\ (j - 1) + 1 = j
            BY <2>2, <1>1, <1>2
        <3> QED
            BY <3>1, <1>3
    <2> QED
        BY <2>1, <2>2
<1>8. \A i \in 1..n : \A j \in 1..n : workers[i] = workers[j] => i = j
    BY <1>1 DEF Inv, NoSendOnClosed
<1>9. rrIndex' \in Nat /\ RRInRange'
    <2>1. rrIndex \in Nat /\ rrIndex < n
        BY <1>1, <1>2, EmptySeq DEF Inv, TypeOK, RRInRange, n
    <2>2. rrIndex' = WrapIndex(n - 1)
        BY DEF n
    <2>3. CASE n - 1 = 0
        <3>1. rrIndex' = 0
            BY <2>1, <2>2, <2>3 DEF WrapIndex
        <3>2. workers' = <<>>
            BY <1>3, <2>3, EmptySeq
        <3> QED
            BY <3>1, <3>2 DEF RRInRange
    <2>4. CASE n - 1 # 0
        <3>1. n - 1 \in Nat \ {0}
            BY <2>4, <1>1, <1>2
        <3>2. rrIndex' \in Nat /\ rrIndex' < n - 1
            BY <3>1, <2>1, <2>2, WrapInRange
        <3>3. Len(workers') = n - 1
            BY <1>3
        <3> QED
            BY <3>2, <3>3 DEF RRInRange
    <2> QED
        BY <2>3, <2>4
<1>10. TypeOK'
    <2>1. slot' \in [Slots -> SlotStates] /\ writer' \in [Slots -> WriterStates]
        BY <1>5 DEF SlotStates
    <2>2. /\ rrCount' = 0
          /\ UNCHANGED <<started, chunkAge, hand, sendCh, prioCh, pool, lastBulk>>
        OBVIOUS
    <2> HIDE DEF Unregister
    <2> QED
        BY <1>3, <1>9, <2>1, <2>2 DEF Inv, TypeOK
<1>11. Registered'
    <2> SUFFICES ASSUME NEW t \in Slots
                 PROVE  /\ slot'[t] \in {"up", "stopping"} => \E i \in DOMAIN workers' : workers'[i] = t
                        /\ slot'[t] = "new" => writer'[t] = "off"
        BY DEF Registered
    <2>1. slot'[t] = "new" => writer'[t] = "off"
        BY <1>5 DEF Inv, Registered
    <2>2. ASSUME slot'[t] \in {"up", "stopping"} PROVE \E i \in DOMAIN workers' : workers'[i] = t
        <3>1. t # s /\ slot[t] \in {"up", "stopping"}
            BY <2>2, <1>5
        <3>2. PICK j \in 1..n : workers[j] = t
            BY <3>1, <1>1 DEF Inv, Registered
        <3> QED
            BY <3>1, <3>2, <1>2, <1>4, <1>7
    <2> QED
        BY <2>1, <2>2
<1>12. NoSendOnClosed'
    <2>1. \A i \in DOMAIN workers' : slot'[workers'[i]] \in {"up", "stopping"}
        <3> SUFFICES ASSUME NEW i \in 1..(n - 1) PROVE slot'[workers'[i]] \in {"up", "stopping"}
            BY <1>4
        <3>1. PICK j \in 1..n : j # k /\ workers'[i] = workers[j]
            BY <1>6
        <3>2. workers[j] \in Slots /\ workers[j] # s
            BY <3>1, <1>1, <1>2, <1>8, ElementOfSeq DEF n
        <3>3. slot[workers[j]] \in {"up", "stopping"}
            BY <1>1 DEF Inv, NoSendOnClosed
        <3> QED
            BY <3>1, <3>2, <3>3, <1>5
    <2>2. \A i \in DOMAIN workers' : \A j \in DOMAIN workers' : workers'[i] = workers'[j] => i = j
        <3> SUFFICES ASSUME NEW i \in 1..(n - 1), NEW j \in 1..(n - 1), workers'[i] = workers'[j]
                     PROVE  i = j
            BY <1>4
        <3>1. PICK ii \in 1..n : workers'[i] = workers[ii] /\ ii = (IF i < k THEN i ELSE i + 1)
            BY <1>6
        <3>2. PICK jj \in 1..n : workers'[j] = workers[jj] /\ jj = (IF j < k THEN j ELSE j + 1)
            BY <1>6
        <3>3. ii = jj
            BY <3>1, <3>2, <1>8
        <3> QED
            BY <3>1, <3>2, <3>3, <1>1, <1>2
    <2>3. \A t \in Slots : slot'[t] \in {"left", "closed", "gone"} => writer'[t] = "done"
        BY <1>5 DEF Inv, NoSendOnClosed
    <2> QED
        BY <2>1, <2>2, <2>3 DEF NoSendOnClosed
<1> QED
    BY <1>9, <1>10, <1>11, <1>12 DEF Inv

(* readLoop: whatever it does with a packet, under any gap. *)
LEMMA ReadPacketInv ==
    ASSUME Inv, NEW size \in Sizes, NEW gap \in Gaps, ReadPacket(size, gap)
    PROVE  Inv'
<1>1. UNCHANGED <<slot, writer, hand>>
    BY DEF ReadPacket, slots
<1>2. \A b \in pool : b \in Bufs /\ pool \ {b} \subseteq Bufs
    BY DEF Inv, TypeOK
<1> DEFINE Kept == /\ workers' = workers /\ pool' \subseteq Bufs /\ lastBulk' \in Slots \cup {Unset}
                   /\ rrIndex' \in Nat /\ RRInRange'
                   /\ rrCount' \in 0..63 /\ started' \in BOOLEAN /\ chunkAge' \in Unset..maxDwellMS
                   /\ sendCh' \in [Slots -> Seq(Bufs)] /\ prioCh' \in [Slots -> Seq(Bufs)]
                   /\ \A s \in Slots : Len(sendCh'[s]) <= SendCap /\ Len(prioCh'[s]) <= PrioCap
<1>3. SUFFICES Kept
    <2>1. TypeOK'
        BY <1>1, <1>3 DEF Inv, TypeOK
    <2>2. Registered' /\ NoSendOnClosed'
        BY <1>1, <1>3 DEF Inv, Registered, NoSendOnClosed
    <2> QED
        BY <2>1, <2>2, <1>3 DEF Inv
<1>4. CASE DropNoWorker
    BY <1>1, <1>4 DEF DropNoWorker, Inv, TypeOK, RRInRange, sched, chans
<1>5. ASSUME workers # <<>>
      PROVE  /\ TypeOK /\ Len(workers) \in Nat \ {0}
             /\ \A i \in Nat : At(i) \in Slots
             /\ \A i \in Nat : i % Len(workers) \in 0..(Len(workers) - 1)
    <2>1. TypeOK
        BY DEF Inv
    <2>2. Len(workers) \in Nat \ {0} /\ (\A i \in Nat : At(i) \in Slots)
        BY <2>1, <1>5, AtIn
    <2> QED
        BY <2>1, <2>2, ModRange
<1>6. ASSUME NEW b \in pool, SendPrio(b, size, gap)
      PROVE  Kept
    <2> DEFINE offs == PrioOffsets(size, gap)
               s == At(Index0(gap) + Min(offs))
    <2>1. /\ workers # <<>> /\ offs # {}
          /\ prioCh' = [prioCh EXCEPT ![s] = Append(@, b)]
          /\ rrIndex' = Index0(gap) /\ rrCount' = Count0(gap)
          /\ chunkAge' = Age0(gap) /\ started' = TRUE
          /\ pool' = pool \ {b} /\ UNCHANGED <<workers, sendCh, lastBulk>>
        BY <1>6 DEF SendPrio
    <2>2. offs \in SUBSET Nat /\ \A i \in offs : Len(prioCh[At(Index0(gap) + i)]) < PrioCap
        BY <1>5, <2>1 DEF PrioOffsets, Free
    <2>3. Min(offs) \in offs
        BY <2>1, <2>2, MinIn
    <2>4. Index0(gap) \in Nat /\ Index0(gap) \in 0..(Len(workers) - 1) /\ Count0(gap) \in 0..63 /\ Age0(gap) \in Unset..maxDwellMS
        BY <2>1, Moves
    <2>5. Index0(gap) + Min(offs) \in Nat
        BY <2>2, <2>3, <2>4
    <2>6. s \in Slots /\ Len(prioCh[s]) < PrioCap
        BY <2>2, <2>3, <2>5, <1>5, <2>1
    <2> HIDE DEF s, offs
    <2>7. prioCh' \in [Slots -> Seq(Bufs)] /\ \A t \in Slots : Len(prioCh'[t]) <= PrioCap
        BY <2>1, <2>6, <1>2, <1>6, Consts, AppendOne DEF Inv, TypeOK
    <2>8. started' \in BOOLEAN
        BY <2>1
    <2>9. rrIndex' \in Nat /\ RRInRange'
        BY <2>1, <2>4, <1>5 DEF RRInRange
    <2> QED
        BY <1>2, <2>1, <2>4, <2>7, <2>8, <2>9 DEF Inv, TypeOK
<1>7. ASSUME NEW b \in pool, SendCurrent(b, size, gap)
      PROVE  Kept
    <2> DEFINE idx == Index1(gap)
               cnt == Count1(gap) + 1
               full == cnt >= chunkSizeFor(size)
               s == At(idx)
    <2>1. /\ workers # <<>> /\ 0 \in Free(sendCh, SendCap, idx)
          /\ sendCh' = [sendCh EXCEPT ![s] = Append(@, b)]
          /\ rrIndex' = IF full THEN (idx + 1) % Len(workers) ELSE idx
          /\ rrCount' = IF full THEN 0 ELSE cnt
          /\ chunkAge' = IF full THEN 0 ELSE Age1(gap)
          /\ started' = TRUE
          /\ pool' = pool \ {b} /\ lastBulk' = s /\ UNCHANGED <<workers, prioCh>>
        BY <1>7 DEF SendCurrent, BulkPath
    <2>2. /\ idx \in Nat /\ idx \in 0..(Len(workers) - 1)
          /\ Count1(gap) \in 0..63 /\ Age1(gap) \in 0..maxDwellMS
        BY <2>1, Moves
    <2>3. s \in Slots /\ Len(sendCh[s]) < SendCap
        <3>1. idx + 0 = idx
            BY <2>2
        <3>2. Len(sendCh[At(idx + 0)]) < SendCap
            BY <2>1 DEF Free
        <3>3. s \in Slots
            BY <2>1, <2>2, <1>5
        <3> QED
            BY <3>1, <3>2, <3>3
    <2>4. chunkSizeFor(size) \in 1..64
        BY Consts DEF chunkSizeFor
    <2>5. idx \in Nat /\ (idx + 1) % Len(workers) \in 0..(Len(workers) - 1)
        <3>1. idx \in Nat /\ idx + 1 \in Nat
            BY <2>2
        <3> QED
            BY <2>1, <3>1, <1>5
    <2>6. rrCount' \in 0..63
        <3>1. rrCount' = IF cnt >= chunkSizeFor(size) THEN 0 ELSE cnt
            BY <2>1
        <3>2. Count1(gap) \in 0..63
            BY <2>1, Moves
        <3>3. cnt \in 1..64
            BY <3>2
        <3> HIDE DEF cnt
        <3> QED
            BY <3>1, <3>3, <2>4
    <2> HIDE DEF s, full, idx
    <2>7. sendCh' \in [Slots -> Seq(Bufs)] /\ \A t \in Slots : Len(sendCh'[t]) <= SendCap
        BY <2>1, <2>3, <1>2, <1>7, Consts, AppendOne DEF Inv, TypeOK
    <2>8. started' \in BOOLEAN
        BY <2>1
    <2>9. rrIndex' \in Nat /\ RRInRange'
        <3>1. rrIndex' \in 0..(Len(workers) - 1) /\ workers' = workers
            BY <2>1, <2>2, <2>5
        <3>2. Len(workers) \in Nat
            BY <2>1, <1>5
        <3> QED
            BY <3>1, <3>2 DEF RRInRange
    <2>10. chunkAge' \in Unset..maxDwellMS
        BY <2>1, <2>2, Consts
    <2> QED
        BY <1>2, <2>1, <2>3, <2>6, <2>7, <2>8, <2>9, <2>10 DEF Inv, TypeOK
<1>8. ASSUME NEW b \in pool, SendAlternate(b, size, gap)
      PROVE  Kept
    <2> DEFINE offs == Free(sendCh, SendCap, Index1(gap))
               o == Index1(gap) + Min(offs)
               alt == o % Len(workers)
               s == At(alt)
    <2>1. /\ workers # <<>> /\ offs # {}
          /\ sendCh' = [sendCh EXCEPT ![s] = Append(@, b)]
          /\ rrIndex' = alt /\ rrCount' = 1 /\ chunkAge' = 0 /\ started' = TRUE
          /\ pool' = pool \ {b} /\ lastBulk' = s /\ UNCHANGED <<workers, prioCh>>
        BY <1>8 DEF SendAlternate, BulkPath
    <2>2. offs \in SUBSET Nat /\ \A i \in offs : Len(sendCh[At(Index1(gap) + i)]) < SendCap
        BY <1>5, <2>1 DEF Free
    <2>3. Min(offs) \in offs
        BY <2>1, <2>2, MinIn
    <2>4. Index1(gap) \in Nat
        BY <2>1, Moves
    <2>5. o \in Nat /\ Len(sendCh[At(o)]) < SendCap
        BY <2>2, <2>3, <2>4
    <2> HIDE DEF offs, o
    <2>6. alt \in 0..(Len(workers) - 1)
        BY <2>1, <2>5, <1>5
    <2>7. alt % Len(workers) = alt
        BY <2>1, <2>6, <1>5, ModSmall
    <2>8. s \in Slots /\ s = At(o)
        BY <2>1, <2>5, <2>6, <2>7, <1>5 DEF At
    <2> HIDE DEF s, alt
    <2>9. sendCh' \in [Slots -> Seq(Bufs)] /\ \A t \in Slots : Len(sendCh'[t]) <= SendCap
        BY <2>1, <2>5, <2>8, <1>2, <1>8, Consts, AppendOne DEF Inv, TypeOK
    <2>10. started' \in BOOLEAN
        BY <2>1
    <2>11. rrIndex' \in Nat /\ RRInRange'
        BY <2>1, <2>6, <1>5 DEF RRInRange
    <2>12. rrCount' \in 0..63 /\ chunkAge' \in Unset..maxDwellMS
        BY <2>1, Consts
    <2> QED
        BY <1>2, <2>1, <2>8, <2>9, <2>10, <2>11, <2>12 DEF Inv, TypeOK
<1>9. CASE DropAllFull(size, gap)
    <2>1. /\ workers # <<>> /\ UNCHANGED <<pool, lastBulk>>
          /\ rrIndex' = (Index1(gap) + 1) % Len(workers) /\ rrCount' = 0
          /\ chunkAge' = Age1(gap) /\ started' = TRUE
          /\ UNCHANGED <<workers, sendCh, prioCh>>
        BY <1>9 DEF DropAllFull, BulkPath, chans
    <2>2. Index1(gap) \in Nat /\ Age1(gap) \in 0..maxDwellMS
        BY <2>1, Moves
    <2>3. Index1(gap) + 1 \in Nat
        BY <2>2
    <2>4. rrIndex' \in 0..(Len(workers) - 1)
        BY <2>1, <2>3, <1>5
    <2>5. rrIndex' \in Nat /\ RRInRange'
        BY <2>1, <2>4, <1>5 DEF RRInRange
    <2>6. started' \in BOOLEAN
        BY <2>1
    <2>7. rrCount' \in 0..63 /\ chunkAge' \in Unset..maxDwellMS
        BY <2>1, <2>2, Consts
    <2> QED
        BY <2>1, <2>5, <2>6, <2>7 DEF Inv, TypeOK
<1> QED
    BY <1>4, <1>6, <1>7, <1>8, <1>9 DEF ReadPacket

(* The writer and the keepalive goroutine of a session. *)
LEMMA GoroutinesInv ==
    ASSUME Inv, NEW s \in Slots, KeepaliveTick(s) \/ Writer(s)
    PROVE  Inv'
<1> USE DEF sched, slots, chans
<1>1. /\ TypeOK
      /\ sendCh \in [Slots -> Seq(Bufs)] /\ prioCh \in [Slots -> Seq(Bufs)]
      /\ hand \in [Slots -> Seq(Bufs)] /\ pool \subseteq Bufs
      /\ \A t \in Slots : Len(sendCh[t]) <= SendCap
      /\ \A t \in Slots : Len(prioCh[t]) <= PrioCap
      /\ slot \in [Slots -> SlotStates] /\ writer \in [Slots -> WriterStates]
      /\ SendCap \in Nat /\ PrioCap \in Nat
    BY Consts DEF Inv, TypeOK
<1>2. \A t \in Slots : \A w \in WriterStates : [writer EXCEPT ![t] = w] \in [Slots -> WriterStates]
    BY <1>1
<1>3. /\ {"poll", "select", "write", "drainPrio", "drainSend", "done"} \subseteq WriterStates
      /\ "stopping" \in SlotStates
    BY DEF WriterStates, SlotStates
<1>4. [hand EXCEPT ![s] = <<>>] \in [Slots -> Seq(Bufs)]
    BY <1>1, EmptySeq
<1>5. Range(hand[s]) \subseteq Bufs
    BY <1>1, RangeOfSeq
<1>6. ASSUME writer' = writer \/ \E w : writer' = [writer EXCEPT ![s] = w] /\ writer[s] \notin {"off", "done"}
      PROVE  \A t \in Slots : writer'[t] = writer[t] \/ writer[t] \notin {"off", "done"}
    BY <1>1, <1>6
<1>7. CASE KeepaliveTick(s)
    <2>1. PICK b \in pool : prioCh' = [prioCh EXCEPT ![s] = Append(@, b)] /\ pool' = pool \ {b}
        BY <1>7 DEF KeepaliveTick
    <2>2. /\ Len(prioCh[s]) < PrioCap
          /\ UNCHANGED <<workers, rrIndex, rrCount, started, chunkAge, slot, writer, hand,
                         sendCh, lastBulk>>
        BY <1>7 DEF KeepaliveTick
    <2>3. prioCh' \in [Slots -> Seq(Bufs)] /\ \A t \in Slots : Len(prioCh'[t]) <= PrioCap
        BY <1>1, <2>1, <2>2, AppendOne
    <2>4. TypeOK'
        BY <2>1, <2>2, <2>3 DEF Inv, TypeOK
    <2> QED
        BY <2>2, <2>4, SchedUnchanged
<1>8. CASE TakePrio(s)
    <2>1. prioCh' \in [Slots -> Seq(Bufs)] /\ hand' \in [Slots -> Seq(Bufs)]
          /\ \A t \in Slots : Len(prioCh'[t]) <= PrioCap
        BY <1>1, <1>8, TailOne DEF TakePrio
    <2>2. TypeOK'
        BY <1>2, <1>3, <1>8, <2>1 DEF TakePrio, Inv, TypeOK
    <2>3. \A t \in Slots : writer'[t] = writer[t] \/ writer[t] \notin {"off", "done"}
        BY <1>6, <1>8 DEF TakePrio
    <2> QED
        BY <1>8, <2>2, <2>3, SchedUnchanged DEF TakePrio
<1>9. CASE PollEmpty(s)
    <2>1. TypeOK'
        BY <1>2, <1>3, <1>9 DEF PollEmpty, Inv, TypeOK
    <2>2. \A t \in Slots : writer'[t] = writer[t] \/ writer[t] \notin {"off", "done"}
        BY <1>6, <1>9 DEF PollEmpty
    <2> QED
        BY <1>9, <2>1, <2>2, SchedUnchanged DEF PollEmpty
<1>10. CASE TakeSend(s)
    <2>1. sendCh' \in [Slots -> Seq(Bufs)] /\ hand' \in [Slots -> Seq(Bufs)]
          /\ \A t \in Slots : Len(sendCh'[t]) <= SendCap
        BY <1>1, <1>10, TailOne DEF TakeSend
    <2>2. TypeOK'
        BY <1>2, <1>3, <1>10, <2>1 DEF TakeSend, Inv, TypeOK
    <2>3. \A t \in Slots : writer'[t] = writer[t] \/ writer[t] \notin {"off", "done"}
        BY <1>6, <1>10 DEF TakeSend
    <2> QED
        BY <1>10, <2>2, <2>3, SchedUnchanged DEF TakeSend
<1>11. CASE WriterSeesDone(s)
    <2>1. TypeOK'
        BY <1>2, <1>3, <1>11 DEF WriterSeesDone, Inv, TypeOK
    <2>2. \A t \in Slots : writer'[t] = writer[t] \/ writer[t] \notin {"off", "done"}
        BY <1>6, <1>11 DEF WriterSeesDone
    <2> QED
        BY <1>11, <2>1, <2>2, SchedUnchanged DEF WriterSeesDone
<1>12. CASE WriteOK(s)
    <2>1. TypeOK'
        BY <1>2, <1>3, <1>4, <1>5, <1>12 DEF WriteOK, Inv, TypeOK
    <2>2. \A t \in Slots : writer'[t] = writer[t] \/ writer[t] \notin {"off", "done"}
        BY <1>6, <1>12 DEF WriteOK
    <2> QED
        BY <1>12, <2>1, <2>2, SchedUnchanged DEF WriteOK
<1>13. CASE WriteFail(s)
    <2>1. TypeOK'
        BY <1>2, <1>3, <1>4, <1>5, <1>13 DEF WriteFail, Inv, TypeOK
    <2>2. \A t \in Slots : writer'[t] = writer[t] \/ writer[t] \notin {"off", "done"}
        BY <1>6, <1>13 DEF WriteFail
    <2> QED
        BY <1>13, <2>1, <2>2, SchedUnchanged DEF WriteFail
<1>14. CASE DrainPrio(s)
    <2>1. /\ prioCh' \in [Slots -> Seq(Bufs)] /\ \A t \in Slots : Len(prioCh'[t]) <= PrioCap
          /\ pool' \subseteq Bufs
        <3>1. CASE prioCh[s] # <<>>
            <4>1. /\ prioCh' = [prioCh EXCEPT ![s] = Tail(@)]
                  /\ pool' = pool \cup {Head(prioCh[s])} /\ pool \subseteq Bufs
                BY <1>1, <1>14, <3>1 DEF DrainPrio, TypeOK
            <4> QED
                BY <1>1, <3>1, <4>1, TailOne
        <3>2. CASE prioCh[s] = <<>>
            BY <1>1, <1>14, <3>2 DEF DrainPrio, TypeOK
        <3> QED
            BY <3>1, <3>2
    <2>2. writer' \in [Slots -> WriterStates]
        BY <1>1, <1>2, <1>3, <1>14 DEF DrainPrio
    <2>3. TypeOK'
        BY <1>14, <2>1, <2>2 DEF DrainPrio, Inv, TypeOK
    <2>4. \A t \in Slots : writer'[t] = writer[t] \/ writer[t] \notin {"off", "done"}
        BY <1>6, <1>14 DEF DrainPrio
    <2> QED
        BY <1>14, <2>3, <2>4, SchedUnchanged DEF DrainPrio
<1>15. CASE DrainSend(s)
    <2>1. /\ sendCh' \in [Slots -> Seq(Bufs)] /\ \A t \in Slots : Len(sendCh'[t]) <= SendCap
          /\ pool' \subseteq Bufs
        <3>1. CASE sendCh[s] # <<>>
            <4>1. /\ sendCh' = [sendCh EXCEPT ![s] = Tail(@)]
                  /\ pool' = pool \cup {Head(sendCh[s])} /\ pool \subseteq Bufs
                BY <1>1, <1>15, <3>1 DEF DrainSend, TypeOK
            <4> QED
                BY <1>1, <3>1, <4>1, TailOne
        <3>2. CASE sendCh[s] = <<>>
            BY <1>1, <1>15, <3>2 DEF DrainSend, TypeOK
        <3> QED
            BY <3>1, <3>2
    <2>2. writer' \in [Slots -> WriterStates] /\ slot' \in [Slots -> SlotStates]
        BY <1>1, <1>2, <1>3, <1>15 DEF DrainSend
    <2>3. TypeOK'
        BY <1>15, <2>1, <2>2 DEF DrainSend, Inv, TypeOK
    <2>4. CASE sendCh[s] # <<>>
        BY <1>15, <2>3, <2>4, SchedUnchanged DEF DrainSend
    <2>5. CASE sendCh[s] = <<>>
        <3>1. /\ writer' = [writer EXCEPT ![s] = "done"] /\ slot' = [slot EXCEPT ![s] = "stopping"]
              /\ UNCHANGED <<workers, rrIndex>> /\ writer[s] = "drainSend"
            BY <1>15, <2>5 DEF DrainSend
        <3>2. slot[s] \in {"up", "stopping"}
            <4>1. slot[s] # "new"
                BY <3>1 DEF Inv, Registered
            <4>2. slot[s] \notin {"left", "closed", "gone"}
                BY <3>1 DEF Inv, NoSendOnClosed
            <4> QED
                BY <1>1, <4>1, <4>2 DEF SlotStates
        <3>3. Registered'
            BY <1>1, <3>1, <3>2 DEF Inv, Registered
        <3>4. NoSendOnClosed'
            <4>1. \A i \in DOMAIN workers : workers[i] \in Slots
                BY <1>1, ElementOfSeq, LenProperties DEF TypeOK
            <4> QED
                BY <1>1, <3>1, <3>2, <4>1 DEF Inv, NoSendOnClosed
        <3>5. RRInRange'
            BY <3>1 DEF Inv, RRInRange
        <3> QED
            BY <2>3, <3>3, <3>4, <3>5 DEF Inv
    <2> QED
        BY <2>4, <2>5
<1> QED
    BY <1>7, <1>8, <1>9, <1>10, <1>11, <1>12, <1>13, <1>14, <1>15 DEF Writer

(* The session is cancelled; after Unregister its channel is closed, drained. *)
LEMMA SlotStepsInv ==
    ASSUME Inv, NEW s \in Slots, CancelSession(s) \/ CloseSend(s) \/ DrainClosed(s)
    PROVE  Inv'
<1> USE DEF sched, slots, chans
<1>1. /\ UNCHANGED <<workers, rrIndex, rrCount, started, chunkAge, writer, hand, prioCh,
                     lastBulk>>
      /\ \/ slot[s] = "up" /\ slot' = [slot EXCEPT ![s] = "stopping"]
         \/ slot[s] = "left" /\ slot' = [slot EXCEPT ![s] = "closed"]
         \/ slot[s] = "closed" /\ slot' = [slot EXCEPT ![s] = "gone"]
    BY DEF CancelSession, CloseSend, DrainClosed
<1>2. slot \in [Slots -> SlotStates] /\ \A i \in DOMAIN workers : workers[i] \in Slots
    BY ElementOfSeq, LenProperties DEF Inv, TypeOK
<1>3. slot' \in [Slots -> SlotStates]
    BY <1>1, <1>2 DEF SlotStates
<1>4. /\ sendCh' \in [Slots -> Seq(Bufs)] /\ \A t \in Slots : Len(sendCh'[t]) <= SendCap
      /\ pool' \subseteq Bufs
    <2>1. CASE CancelSession(s) \/ CloseSend(s)
        BY <2>1 DEF CancelSession, CloseSend, Inv, TypeOK
    <2>2. CASE DrainClosed(s)
        <3>1. sendCh[s] \in Seq(Bufs)
            BY DEF Inv, TypeOK
        <3>2. Range(sendCh[s]) \subseteq Bufs
            BY <3>1, RangeOfSeq
        <3>3. <<>> \in Seq(Bufs) /\ Len(<<>>) = 0
            BY EmptySeq
        <3>4. sendCh' = [sendCh EXCEPT ![s] = <<>>] /\ pool' = pool \cup Range(sendCh[s])
            BY <2>2 DEF DrainClosed
        <3>5. /\ sendCh \in [Slots -> Seq(Bufs)] /\ \A t \in Slots : Len(sendCh[t]) <= SendCap
              /\ pool \subseteq Bufs
            BY DEF Inv, TypeOK
        <3>6. sendCh' \in [Slots -> Seq(Bufs)] /\ pool' \subseteq Bufs
            BY <3>2, <3>3, <3>4, <3>5
        <3>7. ASSUME NEW t \in Slots PROVE Len(sendCh'[t]) <= SendCap
            <4>1. CASE t = s
                BY <3>3, <3>4, <3>5, <4>1, Consts
            <4>2. CASE t # s
                BY <3>4, <3>5, <4>2
            <4> QED
                BY <4>1, <4>2
        <3> QED
            BY <3>6, <3>7
    <2> QED
        BY <2>1, <2>2
<1>5. TypeOK'
    BY <1>1, <1>3, <1>4 DEF Inv, TypeOK
<1>6. Registered'
    BY <1>1, <1>2 DEF Inv, Registered
<1>7. NoSendOnClosed'
    BY <1>1, <1>2 DEF Inv, NoSendOnClosed
<1>8. RRInRange'
    BY <1>1 DEF Inv, RRInRange
<1> QED
    BY <1>5, <1>6, <1>7, <1>8 DEF Inv

(* Every step keeps the invariant. *)
LEMMA NextInv == Inv /\ [Next]_vars => Inv'
<1> SUFFICES ASSUME Inv, [Next]_vars PROVE Inv'
    OBVIOUS
<1>1. CASE UNCHANGED vars
    BY <1>1 DEF vars, sched, slots, chans, Inv, TypeOK, Registered, NoSendOnClosed, RRInRange
<1>2. ASSUME NEW s \in Slots, Register(s) PROVE Inv'
    BY <1>2, RegisterInv
<1>3. ASSUME NEW s \in Slots, CancelSession(s) PROVE Inv'
    BY <1>3, SlotStepsInv
<1>4. ASSUME NEW s \in Slots, KeepaliveTick(s) \/ Writer(s) PROVE Inv'
    BY <1>4, GoroutinesInv
<1>5. ASSUME NEW s \in Slots, Leave(s) PROVE Inv'
    BY <1>5, UnregisterInv, SlotStepsInv DEF Leave
<1>6. ASSUME NEW size \in Sizes, NEW gap \in Gaps, ReadPacket(size, gap) PROVE Inv'
    BY <1>6, ReadPacketInv
<1> QED
    BY <1>1, <1>2, <1>3, <1>4, <1>5, <1>6 DEF Next

(* The dispatcher keeps Inv for ever. *)
THEOREM Invariance == Spec => []Inv
BY InitInv, NextInv, PTL DEF Spec

(* d.workers, the pointer, the counters, the channels and every history keep  *)
(* their types, the channels within their capacities.                         *)
THEOREM TypeCorrect == Spec => []TypeOK
<1>1. Inv => TypeOK
    BY DEF Inv
<1> QED
    BY <1>1, Invariance, PTL

(* readLoop never sends on a closed channel, whatever sessions come and go.   *)
THEOREM SendsAreSafe == Spec => []NoSendOnClosed
<1>1. Inv => NoSendOnClosed
    BY DEF Inv
<1> QED
    BY <1>1, Invariance, PTL

(* The round-robin pointer never leaves d.workers.                            *)
THEOREM PointerInRange == Spec => []RRInRange
<1>1. Inv => RRInRange
    BY DEF Inv
<1> QED
    BY <1>1, Invariance, PTL

(* From a pointer a, the offsets 0..n-1 reach every worker.                   *)
LEMMA ModCovers ==
    ASSUME NEW n \in Nat \ {0}, NEW a \in 0..(n - 1), NEW j \in 0..(n - 1)
    PROVE  \E i \in 0..(n - 1) : (a + i) % n = j
<1>1. CASE j >= a
    <2>1. j - a \in 0..(n - 1) /\ a + (j - a) = j /\ j % n = j
        BY <1>1, ModSmall
    <2> QED
        BY <2>1
<1>2. CASE j < a
    <2>1. (j - a) + n \in 0..(n - 1) /\ a + ((j - a) + n) = j + n
        BY <1>2
    <2>2. (j + n) % n = j
        BY ModSmall
    <2> QED
        BY <2>1, <2>2
<1> QED
    BY <1>1, <1>2

(* When the loop over the workers finds no room in a channel of theirs, the   *)
(* channel of every worker is full, wherever the pointer stands.              *)
LEMMA NoneFree ==
    ASSUME Inv, workers # <<>>, NEW ch \in [Slots -> Seq(Bufs)], NEW cap \in Nat,
           \A s \in Slots : Len(ch[s]) <= cap,
           NEW idx \in 0..(Len(workers) - 1), Free(ch, cap, idx) = {}
    PROVE  \A i \in DOMAIN workers : Len(ch[workers[i]]) = cap
<1>1. workers \in Seq(Slots) /\ DOMAIN workers = 1..Len(workers) /\ Len(workers) \in Nat \ {0}
    BY AtIn, LenProperties DEF Inv, TypeOK
<1> SUFFICES ASSUME NEW j \in 1..Len(workers) PROVE Len(ch[workers[j]]) = cap
    BY <1>1
<1>2. j - 1 \in 0..(Len(workers) - 1)
    BY <1>1
<1>3. PICK i \in 0..(Len(workers) - 1) : (idx + i) % Len(workers) = j - 1
    BY <1>1, <1>2, ModCovers
<1>4. At(idx + i) = workers[j]
  <2>1. At(idx + i) = workers[(j - 1) + 1]
      BY <1>3 DEF At
  <2> QED
      BY <2>1
<1>5. ~(Len(ch[workers[j]]) < cap)
    BY <1>3, <1>4 DEF Free
<1>6. workers[j] \in Slots /\ ch[workers[j]] \in Seq(Bufs)
    BY <1>1, ElementOfSeq
<1>7. Len(ch[workers[j]]) \in Nat /\ Len(ch[workers[j]]) <= cap
    BY <1>6, LenProperties
<1> QED
    BY <1>5, <1>7

(* Where readLoop puts a packet. *)
LEMMA ReadPacketPuts ==
    ASSUME Inv, NEW size \in Sizes, NEW gap \in Gaps, ReadPacket(size, gap)
    PROVE  \/ /\ DropNoWorker \/ DropAllFull(size, gap)
              /\ UNCHANGED <<sendCh, prioCh, pool>>
           \/ \E s \in Slots, b \in pool :
                 /\ pool' = pool \ {b}
                 /\ \/ sendCh' = [sendCh EXCEPT ![s] = Append(@, b)] /\ UNCHANGED prioCh
                    \/ prioCh' = [prioCh EXCEPT ![s] = Append(@, b)] /\ UNCHANGED sendCh
<1>2. CASE DropNoWorker \/ DropAllFull(size, gap)
    BY <1>2 DEF DropNoWorker, DropAllFull, chans
<1>4. ASSUME workers # <<>>, NEW ch, NEW cap, NEW idx \in Nat, Free(ch, cap, idx) # {}
      PROVE  Min(Free(ch, cap, idx)) \in Nat /\ idx + Min(Free(ch, cap, idx)) \in Nat
  <2>1. Len(workers) \in Nat
      BY <1>4, AtIn DEF Inv
  <2>2. Free(ch, cap, idx) \in SUBSET Nat
      BY <2>1 DEF Free
  <2>3. Min(Free(ch, cap, idx)) \in Nat
      BY <1>4, <2>2, MinIn
  <2> QED
      BY <1>4, <2>3
<1>5. ASSUME NEW b \in pool, SendPrio(b, size, gap)
      PROVE  \E s \in Slots : prioCh' = [prioCh EXCEPT ![s] = Append(@, b)]
  <2>1. /\ workers # <<>> /\ PrioOffsets(size, gap) # {}
        /\ prioCh' = [prioCh EXCEPT ![At(Index0(gap) + Min(PrioOffsets(size, gap)))]
                          = Append(@, b)]
      BY <1>5 DEF SendPrio
  <2>2. PrioOffsets(size, gap) = Free(prioCh, PrioCap, Index0(gap))
      BY <2>1 DEF PrioOffsets
  <2>3. Index0(gap) + Min(PrioOffsets(size, gap)) \in Nat
      BY <1>4, <2>1, <2>2, Moves
  <2>4. At(Index0(gap) + Min(PrioOffsets(size, gap))) \in Slots
      BY <2>1, <2>3, AtIn DEF Inv
  <2> QED
      BY <2>1, <2>4
<1>6. ASSUME NEW b \in pool, SendCurrent(b, size, gap)
      PROVE  \E s \in Slots : sendCh' = [sendCh EXCEPT ![s] = Append(@, b)]
  <2>1. workers # <<>> /\ sendCh' = [sendCh EXCEPT ![At(Index1(gap))] = Append(@, b)]
      BY <1>6 DEF SendCurrent, BulkPath
  <2>2. At(Index1(gap)) \in Slots
      BY <2>1, AtIn, Moves DEF Inv
  <2> QED
      BY <2>1, <2>2
<1>7. ASSUME NEW b \in pool, SendAlternate(b, size, gap)
      PROVE  \E s \in Slots : sendCh' = [sendCh EXCEPT ![s] = Append(@, b)]
  <2> DEFINE offs == Free(sendCh, SendCap, Index1(gap))
             alt  == (Index1(gap) + Min(offs)) % Len(workers)
  <2>1. /\ workers # <<>> /\ offs # {}
        /\ sendCh' = [sendCh EXCEPT ![At(alt)] = Append(@, b)]
      BY <1>7 DEF SendAlternate, BulkPath
  <2>2. Index1(gap) + Min(offs) \in Nat /\ Len(workers) \in Nat \ {0}
      BY <1>4, <2>1, Moves, AtIn DEF Inv
  <2>3. alt \in Nat
      BY <2>2, ModRange
  <2>4. At(alt) \in Slots
      BY <2>1, <2>3, AtIn DEF Inv
  <2> QED
      BY <2>1, <2>4
<1>8. ASSUME NEW b \in pool,
             SendPrio(b, size, gap) \/ SendCurrent(b, size, gap) \/ SendAlternate(b, size, gap)
      PROVE  /\ pool' = pool \ {b}
             /\ SendPrio(b, size, gap) => UNCHANGED sendCh
             /\ ~SendPrio(b, size, gap) => UNCHANGED prioCh
    BY <1>8 DEF SendPrio, SendCurrent, SendAlternate
<1> QED
    BY <1>2, <1>5, <1>6, <1>7, <1>8 DEF ReadPacket

(* A packet is dropped only when every registered worker's SendCh is full:    *)
(* the fallback of readLoop tries them all, wherever the pointer stands.      *)
THEOREM DropsAreForced == Spec => DropOnlyWhenFull
<1> DEFINE AllFull == \A i \in DOMAIN workers : Len(sendCh[workers[i]]) = SendCap
<1>1. ASSUME Inv, NEW size \in Sizes, NEW gap \in Gaps, ReadPacket(size, gap), UNCHANGED chans
      PROVE  AllFull
  <2>1. ASSUME NEW q \in [Slots -> Seq(Bufs)], NEW s \in Slots, NEW b \in Bufs
        PROVE  [q EXCEPT ![s] = Append(@, b)] # q
    <3>1. q[s] \in Seq(Bufs) /\ Len(q[s]) \in Nat
        BY LenProperties
    <3>2. Len(Append(q[s], b)) = Len(q[s]) + 1
        BY <3>1, AppendProperties
    <3>3. Append(q[s], b) # q[s]
        BY <3>1, <3>2
    <3> QED
        BY <3>3
  <2>2. DropNoWorker \/ DropAllFull(size, gap)
    <3>1. sendCh \in [Slots -> Seq(Bufs)] /\ prioCh \in [Slots -> Seq(Bufs)] /\ pool \subseteq Bufs
        BY <1>1 DEF Inv, TypeOK
    <3> QED
        BY <1>1, <2>1, <3>1, ReadPacketPuts DEF chans
  <2>3. CASE DropNoWorker
      BY <2>3, EmptySeq DEF DropNoWorker
  <2>4. CASE DropAllFull(size, gap)
    <3>1. workers # <<>> /\ Free(sendCh, SendCap, Index1(gap)) = {}
        BY <2>4 DEF DropAllFull, BulkPath
    <3>2. Index1(gap) \in 0..(Len(workers) - 1)
        BY <1>1, <3>1, Moves
    <3> QED
        BY <1>1, <3>1, <3>2, NoneFree, Consts DEF Inv, TypeOK
  <2> QED
      BY <2>2, <2>3, <2>4
<1>2. Inv => [\A size \in Sizes, gap \in Gaps :
                 ReadPacket(size, gap) /\ UNCHANGED chans => AllFull]_vars
    BY <1>1
<1> QED
    BY <1>2, Invariance, PTL DEF Spec, DropOnlyWhenFull

(* A small packet goes into a SendCh only when every priority channel is      *)
(* full: the fallback visits every worker, wherever the pointer stands.       *)
THEOREM SmallFirst == Spec => SmallNotBehindBulk
<1> DEFINE PrioFull == \A i \in DOMAIN workers : Len(prioCh[workers[i]]) = PrioCap
<1>1. ASSUME Inv, NEW size \in Sizes, NEW gap \in Gaps,
             size <= prioThreshold, ReadPacket(size, gap), sendCh' # sendCh
      PROVE  PrioFull
  <2>1. BulkPath(size, gap)
      BY <1>1 DEF ReadPacket, DropNoWorker, SendPrio, DropAllFull, SendCurrent, SendAlternate, chans
  <2>2. workers # <<>> /\ Free(prioCh, PrioCap, Index0(gap)) = {}
      BY <1>1, <2>1 DEF BulkPath, PrioOffsets
  <2>3. Index0(gap) \in 0..(Len(workers) - 1)
      BY <1>1, <2>2, Moves
  <2> QED
      BY <1>1, <2>2, <2>3, NoneFree, Consts DEF Inv, TypeOK
<1>2. Inv => [\A size \in Sizes, gap \in Gaps :
                 size <= prioThreshold /\ ReadPacket(size, gap) /\ sendCh' # sendCh => PrioFull]_vars
    BY <1>1
<1> QED
    BY <1>2, Invariance, PTL DEF Spec, SmallNotBehindBulk

-----------------------------------------------------------------------------
(* The slot of the open chunk.  Every step keeps the pointer on it: readLoop  *)
(* moves the pointer only with the count back at zero or with the packet that *)
(* starts a chunk elsewhere, Register appends behind it, and Unregister,      *)
(* which shifts d.workers, closes the chunk.                                  *)
LEMMA NextAffinity == Inv /\ ChunkAffinity /\ [Next]_vars => ChunkAffinity'
<1> SUFFICES ASSUME Inv, ChunkAffinity, [Next]_vars PROVE ChunkAffinity'
    OBVIOUS
<1>1. CASE UNCHANGED <<workers, rrIndex, rrCount, lastBulk>>
    BY <1>1 DEF ChunkAffinity, At
<1>2. ASSUME NEW s \in Slots, Register(s) PROVE ChunkAffinity'
  <2>1. /\ workers' = Append(workers, s) /\ UNCHANGED <<rrIndex, rrCount, lastBulk>>
        /\ workers \in Seq(Slots) /\ rrIndex \in Nat
      BY <1>2 DEF Register, Inv, TypeOK
  <2> SUFFICES ASSUME rrCount > 0 PROVE workers' # <<>> /\ At(rrIndex)' = lastBulk
      BY <2>1 DEF ChunkAffinity
  <2>2. workers # <<>> /\ At(rrIndex) = lastBulk
      BY DEF ChunkAffinity
  <2>3. Len(workers) \in Nat \ {0} /\ rrIndex \in 0..(Len(workers) - 1)
      BY <2>1, <2>2, AtIn DEF Inv, RRInRange
  <2>4. /\ Len(workers') = Len(workers) + 1 /\ workers' \in Seq(Slots)
        /\ \A i \in 1..Len(workers) : workers'[i] = workers[i]
      BY <2>1, AppendProperties
  <2>5. rrIndex % Len(workers) = rrIndex /\ rrIndex % Len(workers') = rrIndex
      BY <2>3, <2>4, ModSmall
  <2>6. workers'[rrIndex + 1] = workers[rrIndex + 1]
      BY <2>3, <2>4
  <2>7. At(rrIndex)' = workers'[(rrIndex' % Len(workers')) + 1]
      BY DEF At
  <2> QED
      BY <2>1, <2>2, <2>3, <2>4, <2>5, <2>6, <2>7, EmptySeq DEF At
<1>3. ASSUME NEW s \in Slots, Unregister(s) PROVE ChunkAffinity'
    BY <1>3 DEF Unregister, ChunkAffinity
<1>4. ASSUME NEW size \in Sizes, NEW gap \in Gaps, ReadPacket(size, gap) PROVE ChunkAffinity'
  <2>1. CASE DropNoWorker
      BY <2>1, <1>1 DEF DropNoWorker, sched
  <2>2. CASE DropAllFull(size, gap)
      BY <2>2 DEF DropAllFull, ChunkAffinity
  <2>3. ASSUME NEW b \in pool, SendPrio(b, size, gap) PROVE ChunkAffinity'
    <3>1. rrIndex' = Index0(gap) /\ rrCount' = Count0(gap) /\ UNCHANGED <<workers, lastBulk>>
        BY <2>3 DEF SendPrio
    <3>2. CASE Paused(gap)
        BY <3>1, <3>2 DEF Count0, ChunkAffinity
    <3>3. CASE ~Paused(gap)
        BY <1>1, <3>1, <3>3 DEF Count0, Index0
    <3> QED
        BY <3>2, <3>3
  <2>4. ASSUME NEW b \in pool, SendCurrent(b, size, gap) PROVE ChunkAffinity'
    <3> DEFINE full == Count1(gap) + 1 >= chunkSizeFor(size)
    <3>1. /\ workers # <<>> /\ lastBulk' = At(Index1(gap)) /\ UNCHANGED workers
          /\ full => rrCount' = 0
          /\ ~full => rrIndex' = Index1(gap)
        BY <2>4 DEF SendCurrent, BulkPath
    <3> QED
        BY <3>1 DEF ChunkAffinity, At
  <2>5. ASSUME NEW b \in pool, SendAlternate(b, size, gap) PROVE ChunkAffinity'
      BY <2>5 DEF SendAlternate, BulkPath, ChunkAffinity, At
  <2> QED
      BY <1>4, <2>1, <2>2, <2>3, <2>4, <2>5 DEF ReadPacket
<1>5. ASSUME NEW s \in Slots, \/ CancelSession(s) \/ KeepaliveTick(s) \/ Writer(s)
                              \/ CloseSend(s) \/ DrainClosed(s)
      PROVE  ChunkAffinity'
  <2>1. UNCHANGED <<workers, rrIndex, rrCount, lastBulk>>
      BY <1>5 DEF CancelSession, KeepaliveTick, Writer, CloseSend, DrainClosed, TakePrio, PollEmpty,
                  TakeSend, WriterSeesDone, WriteOK, WriteFail, DrainPrio, DrainSend, sched
  <2> QED
      BY <1>1, <2>1
<1>6. CASE UNCHANGED vars
    BY <1>1, <1>6 DEF vars, sched
<1> QED
    BY <1>2, <1>3, <1>4, <1>5, <1>6 DEF Next, Leave

(* The packets of a chunk go to one relay, whatever slots come and go while   *)
(* it is open, for any number of them.                                        *)
THEOREM ChunksStayTogether == Spec => []ChunkAffinity
<1>1. Init => ChunkAffinity
    BY DEF Init, ChunkAffinity
<1> QED
    BY <1>1, NextAffinity, Invariance, PTL DEF Spec

-----------------------------------------------------------------------------
(***************************************************************************)
(* Where the buffers are.  The second inductive invariant says that the    *)
(* holders partition the buffers, that no buffer is twice in one queue and *)
(* that a writer holds one only while it writes.                           *)
(***************************************************************************)
Own == [k \in Holders |-> Holding(k)]

Partition(own) ==
    /\ \A b \in Bufs : \E k \in Holders : b \in own[k]
    /\ \A k \in Holders : \A j \in Holders : k # j => own[k] \cap own[j] = {}

Neat(s) ==
    /\ IsInjective(sendCh[s]) /\ IsInjective(prioCh[s]) /\ Len(hand[s]) <= 1
    /\ writer[s] # "write" => hand[s] = <<>>

Flow == Partition(Own) /\ \A s \in Slots : Neat(s)

(* A buffer that is not in a queue goes to its end. *)
LEMMA AppendNeat ==
    ASSUME NEW q \in Seq(Bufs), IsInjective(q), NEW n \in Bufs, n \notin Range(q)
    PROVE  /\ IsInjective(Append(q, n))
           /\ Range(Append(q, n)) = Range(q) \cup {n}
<1>1. Len(q) \in Nat /\ DOMAIN q = 1..Len(q)
    BY LenProperties
<1>2. /\ Append(q, n) \in Seq(Bufs) /\ Len(Append(q, n)) = Len(q) + 1
      /\ \A i \in 1..Len(q) : Append(q, n)[i] = q[i]
      /\ Append(q, n)[Len(q) + 1] = n
    BY AppendProperties
<1>3. DOMAIN Append(q, n) = 1..(Len(q) + 1)
    BY <1>2, LenProperties
<1> DEFINE a == Append(q, n)
<1> HIDE DEF a
<1>4. /\ \A i \in 1..Len(q) : a[i] = q[i]
      /\ a[Len(q) + 1] = n /\ DOMAIN a = 1..(Len(q) + 1)
    BY <1>2, <1>3 DEF a
<1>5. Range(a) = Range(q) \cup {n}
    BY <1>1, <1>4 DEF Range
<1>6. \A i \in 1..Len(q) : a[i] # n
    BY <1>1, <1>4 DEF Range
<1>7. \A i \in 1..Len(q) : \A j \in 1..Len(q) : q[i] = q[j] => i = j
    BY <1>1 DEF IsInjective
<1>8. \A i \in DOMAIN a : \A j \in DOMAIN a : a[i] = a[j] => i = j
  <2> SUFFICES ASSUME NEW i \in 1..(Len(q) + 1), NEW j \in 1..(Len(q) + 1), a[i] = a[j] PROVE i = j
      BY <1>4
  <2>1. /\ i \in 1..Len(q) \/ i = Len(q) + 1
        /\ j \in 1..Len(q) \/ j = Len(q) + 1
      BY <1>1
  <2> QED
      BY <1>4, <1>6, <1>7, <2>1
<1> QED
    BY <1>5, <1>8 DEF a, IsInjective

(* The head leaves its queue and nothing else does. *)
LEMMA TailNeat ==
    ASSUME NEW q \in Seq(Bufs), q # <<>>, IsInjective(q)
    PROVE  /\ IsInjective(Tail(q)) /\ Head(q) \in Range(q)
           /\ Range(Tail(q)) = Range(q) \ {Head(q)}
<1>1. Len(q) \in Nat \ {0} /\ DOMAIN q = 1..Len(q)
    BY LenProperties, EmptySeq
<1>2. /\ Tail(q) \in Seq(Bufs) /\ Len(Tail(q)) = Len(q) - 1 /\ Head(q) = q[1]
      /\ \A i \in 1..Len(Tail(q)) : Tail(q)[i] = q[i + 1]
    BY HeadTailProperties
<1>3. DOMAIN Tail(q) = 1..(Len(q) - 1)
    BY <1>2, LenProperties
<1> DEFINE t == Tail(q)
           h == Head(q)
<1> HIDE DEF t, h
<1>4. DOMAIN t = 1..(Len(q) - 1) /\ h = q[1] /\ \A i \in 1..(Len(q) - 1) : t[i] = q[i + 1]
    BY <1>2, <1>3 DEF t, h
<1>5. \A i \in 1..Len(q) : \A j \in 1..Len(q) : q[i] = q[j] => i = j
    BY <1>1 DEF IsInjective
<1>6. \A i \in 1..(Len(q) - 1) : i + 1 \in 1..Len(q) /\ i + 1 # 1
    BY <1>1
<1>7. \A i \in 1..Len(q) : i = 1 \/ (i - 1 \in 1..(Len(q) - 1) /\ (i - 1) + 1 = i)
    BY <1>1
<1>8. \A i \in DOMAIN t : \A j \in DOMAIN t : t[i] = t[j] => i = j
  <2> SUFFICES ASSUME NEW i \in 1..(Len(q) - 1), NEW j \in 1..(Len(q) - 1), t[i] = t[j] PROVE i = j
      BY <1>4
  <2>1. i + 1 = j + 1
      BY <1>4, <1>5, <1>6
  <2> QED
      BY <2>1, <1>1
<1>9. 1 \in 1..Len(q) /\ h \in Range(q)
    BY <1>1, <1>4 DEF Range
<1>10. ASSUME NEW x \in Range(t) PROVE x \in Range(q) \ {h}
  <2>1. PICK i \in 1..(Len(q) - 1) : x = t[i]
      BY <1>4 DEF Range
  <2>2. x = q[i + 1] /\ i + 1 \in 1..Len(q) /\ i + 1 # 1
      BY <1>4, <1>6, <2>1
  <2>3. q[i + 1] # q[1]
      BY <1>5, <1>9, <2>2
  <2> QED
      BY <1>1, <1>4, <2>2, <2>3 DEF Range
<1>11. ASSUME NEW x \in Range(q) \ {h} PROVE x \in Range(t)
  <2>1. PICK i \in 1..Len(q) : x = q[i]
      BY <1>1 DEF Range
  <2>2. i # 1
      BY <1>4, <2>1
  <2>3. i - 1 \in 1..(Len(q) - 1) /\ t[i - 1] = q[i]
      BY <1>4, <1>7, <2>2
  <2> QED
      BY <1>4, <2>1, <2>3 DEF Range
<1>12. Range(t) = Range(q) \ {h}
    BY <1>10, <1>11
<1> QED
    BY <1>8, <1>9, <1>12 DEF t, h, IsInjective

(* A buffer (or several) changes hands. *)
LEMMA Moved ==
    ASSUME NEW own, NEW own2, Partition(own),
           NEW k \in Holders, NEW j \in Holders, k # j, NEW M \in SUBSET own[k],
           own2[k] = own[k] \ M, own2[j] = own[j] \cup M,
           \A i \in Holders \ {k, j} : own2[i] = own[i]
    PROVE  Partition(own2)
    BY DEF Partition

(* What each holder has, now and after a step. *)
OwnFacts ==
    /\ \A s \in Slots :
           /\ Own[<<"sendCh", s>>] = Range(sendCh[s]) /\ Own[<<"prioCh", s>>] = Range(prioCh[s])
           /\ Own[<<"hand", s>>] = Range(hand[s])
    /\ Own[<<"pool">>] = pool

LEMMA OwnIs == OwnFacts
<1>1. \A k \in Holders : Own[k] = Holding(k)
    BY DEF Own
<1>2. ASSUME NEW s \in Slots, NEW c \in {"sendCh", "prioCh", "hand"}
      PROVE  <<c, s>> \in Holders /\ <<c, s>>[1] = c /\ <<c, s>>[2] = s
    BY DEF Holders
<1>3. ASSUME NEW s \in Slots
      PROVE  /\ Holding(<<"sendCh", s>>) = Range(sendCh[s])
             /\ Holding(<<"prioCh", s>>) = Range(prioCh[s])
             /\ Holding(<<"hand", s>>) = Range(hand[s])
    BY DEF Holding
<1>4. <<"pool">> \in Holders /\ Holding(<<"pool">>) = pool
    BY DEF Holders, Holding
<1> QED
    BY <1>1, <1>2, <1>3, <1>4 DEF OwnFacts

LEMMA OwnIsNext == OwnFacts'
    BY OwnIs, PTL

LEMMA HolderCases ==
    /\ \A k \in Holders :
           \/ \E s \in Slots : k \in {<<"sendCh", s>>, <<"prioCh", s>>, <<"hand", s>>}
           \/ k = <<"pool">>
    /\ \A s \in Slots : {<<"sendCh", s>>, <<"prioCh", s>>, <<"hand", s>>} \subseteq Holders
    /\ <<"pool">> \in Holders
    BY DEF Holders

(* Holders outside K whose variables stay keep what they have. *)
LEMMA OwnElse ==
    ASSUME NEW K,
           \A s \in Slots :
               /\ <<"sendCh", s>> \notin K => sendCh'[s] = sendCh[s]
               /\ <<"prioCh", s>> \notin K => prioCh'[s] = prioCh[s]
               /\ <<"hand", s>> \notin K => hand'[s] = hand[s],
           <<"pool">> \notin K => pool' = pool
    PROVE  \A k \in Holders \ K : Own'[k] = Own[k]
<1> SUFFICES ASSUME NEW k \in Holders \ K PROVE Own'[k] = Own[k]
    OBVIOUS
<1>1. OwnFacts /\ OwnFacts'
    BY OwnIs, OwnIsNext
<1>2. ASSUME NEW s \in Slots, k \in {<<"sendCh", s>>, <<"prioCh", s>>, <<"hand", s>>}
      PROVE  Own'[k] = Own[k]
  <2>1. CASE k = <<"sendCh", s>>
    <3>1. sendCh'[s] = sendCh[s]
        BY <2>1
    <3> QED
        BY <1>1, <2>1, <3>1 DEF OwnFacts
  <2>2. CASE k = <<"prioCh", s>>
    <3>1. prioCh'[s] = prioCh[s]
        BY <2>2
    <3> QED
        BY <1>1, <2>2, <3>1 DEF OwnFacts
  <2>3. CASE k = <<"hand", s>>
    <3>1. hand'[s] = hand[s]
        BY <2>3
    <3> QED
        BY <1>1, <2>3, <3>1 DEF OwnFacts
  <2> QED
      BY <1>2, <2>1, <2>2, <2>3
<1>3. CASE k = <<"pool">>
    BY <1>1, <1>3 DEF OwnFacts
<1> QED
    BY <1>2, <1>3, HolderCases

(* Keys of different places differ. *)
LEMMA KeysDiffer ==
    ASSUME NEW c, NEW d, c # d, NEW s, NEW t
    PROVE  <<c, s>> # <<d, t>> /\ <<c, s>> # <<d>>
    OBVIOUS

(* The types the buffers' places have. *)
PlaceTypes ==
    /\ sendCh \in [Slots -> Seq(Bufs)] /\ prioCh \in [Slots -> Seq(Bufs)]
    /\ hand \in [Slots -> Seq(Bufs)] /\ pool \subseteq Bufs
    /\ writer \in [Slots -> WriterStates]

LEMMA InitFlow == Init => Flow
<1> SUFFICES ASSUME Init PROVE Flow
    OBVIOUS
<1>1. DOMAIN <<>> = {} /\ Range(<<>>) = {} /\ Len(<<>>) = 0 /\ IsInjective(<<>>)
    BY EmptySeq DEF Range, IsInjective
<1>2. Own[<<"pool">>] = Bufs /\ \A k \in Holders \ {<<"pool">>} : Own[k] = {}
    BY <1>1, OwnIs, HolderCases DEF OwnFacts, Init
<1>3. Partition(Own)
    BY <1>2, HolderCases DEF Partition
<1>4. \A s \in Slots : Neat(s)
    BY <1>1 DEF Neat, Init
<1> QED
    BY <1>3, <1>4 DEF Flow

(* A step of slot s that moves the buffers M from holder k to holder j. *)
LEMMA HandOver ==
    ASSUME Flow, NEW s \in Slots, Neat(s)',
           \A t \in Slots \ {s} :
               /\ sendCh'[t] = sendCh[t] /\ prioCh'[t] = prioCh[t] /\ hand'[t] = hand[t]
               /\ writer'[t] = writer[t],
           NEW k \in Holders, NEW j \in Holders, k # j, NEW M \in SUBSET Own[k],
           Own'[k] = Own[k] \ M, Own'[j] = Own[j] \cup M,
           \A i \in Holders \ {k, j} : Own'[i] = Own[i]
    PROVE  Flow'
<1>1. (\A t \in Slots : Neat(t))'
    BY DEF Flow, Neat
<1>2. Partition(Own)
    BY DEF Flow
<1> DEFINE own == Own
           own2 == Own'
<1>3. Partition(own2)
  <2>1. /\ own2[k] = own[k] \ M /\ own2[j] = own[j] \cup M /\ M \in SUBSET own[k]
        /\ \A i \in Holders \ {k, j} : own2[i] = own[i]
        /\ Partition(own)
      BY <1>2
  <2> HIDE DEF own, own2
  <2> QED
      BY <2>1, Moved
<1> QED
    BY <1>1, <1>3 DEF Flow, Partition

(* Steps of slot s that move no buffer, with its hand empty unless it writes. *)
LEMMA QuietFlow ==
    ASSUME Flow, NEW s \in Slots, UNCHANGED <<sendCh, prioCh, hand, pool>>,
           \A t \in Slots \ {s} : writer'[t] = writer[t],
           writer'[s] = writer[s] \/ hand[s] = <<>>
    PROVE  Flow'
<1>1. \A k \in Holders \ {} : Own'[k] = Own[k]
    BY OwnElse
<1>2. Partition(Own')
    BY <1>1 DEF Flow, Partition
<1>3. (\A t \in Slots : Neat(t))'
    BY DEF Flow, Neat
<1> QED
    BY <1>2, <1>3 DEF Flow, Partition

(* A buffer of the pool goes to the end of a queue of slot s: a packet that   *)
(* readLoop read, or a keepalive.                                             *)
LEMMA QueueFlow ==
    ASSUME Flow, PlaceTypes, NEW s \in Slots, NEW b \in pool, pool' = pool \ {b},
           UNCHANGED <<hand, writer>>,
           \/ sendCh' = [sendCh EXCEPT ![s] = Append(@, b)] /\ UNCHANGED prioCh
           \/ prioCh' = [prioCh EXCEPT ![s] = Append(@, b)] /\ UNCHANGED sendCh
    PROVE  Flow'
<1> USE DEF PlaceTypes
<1>1. OwnFacts /\ OwnFacts' /\ Neat(s)
    BY OwnIs, OwnIsNext DEF Flow
<1>2. /\ <<"pool">> \in Holders /\ <<"sendCh", s>> \in Holders /\ <<"prioCh", s>> \in Holders
      /\ <<"sendCh", s>> # <<"pool">> /\ <<"prioCh", s>> # <<"pool">>
    BY HolderCases, KeysDiffer
<1>3. /\ Own[<<"pool">>] = pool /\ Own'[<<"pool">>] = pool \ {b}
      /\ Own[<<"sendCh", s>>] = Range(sendCh[s]) /\ Own[<<"prioCh", s>>] = Range(prioCh[s])
      /\ Own'[<<"sendCh", s>>] = Range(sendCh'[s]) /\ Own'[<<"prioCh", s>>] = Range(prioCh'[s])
    BY <1>1 DEF OwnFacts
<1>4. b \notin Range(sendCh[s]) /\ b \notin Range(prioCh[s]) /\ b \in Bufs
  <2>1. \A k \in Holders : k # <<"pool">> => Own[k] \cap Own[<<"pool">>] = {}
      BY <1>2 DEF Flow, Partition
  <2>2. /\ Own[<<"sendCh", s>>] \cap Own[<<"pool">>] = {}
        /\ Own[<<"prioCh", s>>] \cap Own[<<"pool">>] = {}
      BY <1>2, <2>1
  <2> QED
      BY <1>3, <2>2
<1>5. CASE sendCh' = [sendCh EXCEPT ![s] = Append(@, b)] /\ UNCHANGED prioCh
  <2>1. sendCh'[s] = Append(sendCh[s], b) /\ \A t \in Slots \ {s} : sendCh'[t] = sendCh[t]
      BY <1>5
  <2>2. IsInjective(sendCh'[s]) /\ Range(sendCh'[s]) = Range(sendCh[s]) \cup {b}
      BY <1>1, <1>4, <2>1, AppendNeat DEF Neat
  <2>3. Neat(s)'
      BY <1>1, <1>5, <2>2 DEF Neat
  <2>4. \A k \in Holders \ {<<"pool">>, <<"sendCh", s>>} : Own'[k] = Own[k]
      BY <1>5, <2>1, OwnElse
  <2> DEFINE k == <<"pool">>
             j == <<"sendCh", s>>
  <2>5. /\ k \in Holders /\ j \in Holders /\ k # j /\ {b} \in SUBSET Own[k]
        /\ Own'[k] = Own[k] \ {b} /\ Own'[j] = Own[j] \cup {b}
        /\ \A i \in Holders \ {k, j} : Own'[i] = Own[i]
      BY <1>2, <1>3, <2>2, <2>4
  <2> HIDE DEF k, j
  <2> QED
      BY <1>5, <2>1, <2>3, <2>5, HandOver
<1>6. CASE prioCh' = [prioCh EXCEPT ![s] = Append(@, b)] /\ UNCHANGED sendCh
  <2>1. prioCh'[s] = Append(prioCh[s], b) /\ \A t \in Slots \ {s} : prioCh'[t] = prioCh[t]
      BY <1>6
  <2>2. IsInjective(prioCh'[s]) /\ Range(prioCh'[s]) = Range(prioCh[s]) \cup {b}
      BY <1>1, <1>4, <2>1, AppendNeat DEF Neat
  <2>3. Neat(s)'
      BY <1>1, <1>6, <2>2 DEF Neat
  <2>4. \A k \in Holders \ {<<"pool">>, <<"prioCh", s>>} : Own'[k] = Own[k]
      BY <1>6, <2>1, OwnElse
  <2> DEFINE k == <<"pool">>
             j == <<"prioCh", s>>
  <2>5. /\ k \in Holders /\ j \in Holders /\ k # j /\ {b} \in SUBSET Own[k]
        /\ Own'[k] = Own[k] \ {b} /\ Own'[j] = Own[j] \cup {b}
        /\ \A i \in Holders \ {k, j} : Own'[i] = Own[i]
      BY <1>2, <1>3, <2>2, <2>4
  <2> HIDE DEF k, j
  <2> QED
      BY <1>6, <2>1, <2>3, <2>5, HandOver
<1> QED
    BY <1>5, <1>6

(* Buffers of a queue of slot s leave it, to the writer's hand or the pool. *)
LEMMA UnqueueFlow ==
    ASSUME Flow, NEW s \in Slots, NEW M, NEW c \in {"sendCh", "prioCh"},
           \A t \in Slots \ {s} : /\ sendCh'[t] = sendCh[t] /\ prioCh'[t] = prioCh[t]
                                   /\ hand'[t] = hand[t] /\ writer'[t] = writer[t],
           \/ c = "sendCh" /\ prioCh'[s] = prioCh[s] /\ IsInjective(sendCh'[s])
              /\ M \subseteq Range(sendCh[s]) /\ Range(sendCh'[s]) = Range(sendCh[s]) \ M
           \/ c = "prioCh" /\ sendCh'[s] = sendCh[s] /\ IsInjective(prioCh'[s])
              /\ M \subseteq Range(prioCh[s]) /\ Range(prioCh'[s]) = Range(prioCh[s]) \ M,
           \/ /\ pool' = pool \cup M /\ hand'[s] = hand[s] /\ writer'[s] = writer[s]
           \/ /\ UNCHANGED pool /\ hand[s] = <<>> /\ Range(hand'[s]) = M
              /\ Len(hand'[s]) <= 1 /\ writer'[s] = "write"
    PROVE  Flow'
<1>1. OwnFacts /\ OwnFacts' /\ Neat(s)
    BY OwnIs, OwnIsNext DEF Flow
<1>2. Neat(s)'
    BY <1>1 DEF Neat
<1> DEFINE k == <<c, s>>
<1>3. k \in Holders /\ <<"pool">> \in Holders /\ <<"hand", s>> \in Holders
      /\ k # <<"pool">> /\ k # <<"hand", s>>
    BY HolderCases, KeysDiffer
<1>4. M \in SUBSET Own[k] /\ Own'[k] = Own[k] \ M
  <2>1. CASE c = "sendCh"
    <3>1. Own[k] = Range(sendCh[s]) /\ Own'[k] = Range(sendCh'[s])
        BY <1>1, <2>1 DEF OwnFacts
    <3> QED
        BY <2>1, <3>1
  <2>2. CASE c = "prioCh"
    <3>1. Own[k] = Range(prioCh[s]) /\ Own'[k] = Range(prioCh'[s])
        BY <1>1, <2>2 DEF OwnFacts
    <3> QED
        BY <2>2, <3>1
  <2> QED
      BY <2>1, <2>2
<1>5. ASSUME NEW t \in Slots
      PROVE  /\ <<"sendCh", t>> # k => sendCh'[t] = sendCh[t]
             /\ <<"prioCh", t>> # k => prioCh'[t] = prioCh[t]
    OBVIOUS
<1> HIDE DEF k
<1>6. CASE pool' = pool \cup M /\ hand'[s] = hand[s] /\ writer'[s] = writer[s]
  <2>1. \A i \in Holders \ {k, <<"pool">>} : Own'[i] = Own[i]
    <3>1. \A t \in Slots : hand'[t] = hand[t]
        BY <1>6
    <3> QED
        BY <1>5, <3>1, OwnElse
  <2>2. Own'[<<"pool">>] = Own[<<"pool">>] \cup M
      BY <1>1, <1>6 DEF OwnFacts
  <2>3. \A t \in Slots \ {s} : /\ sendCh'[t] = sendCh[t] /\ prioCh'[t] = prioCh[t]
                                /\ hand'[t] = hand[t] /\ writer'[t] = writer[t]
      OBVIOUS
  <2> DEFINE j == <<"pool">>
  <2>4. /\ j \in Holders /\ k # j /\ Own'[j] = Own[j] \cup M
        /\ \A i \in Holders \ {k, j} : Own'[i] = Own[i]
      BY <1>3, <2>1, <2>2
  <2> HIDE DEF j
  <2> QED
      BY <1>2, <1>3, <1>4, <2>3, <2>4, HandOver
<1>7. CASE /\ UNCHANGED pool /\ hand[s] = <<>> /\ Range(hand'[s]) = M
           /\ Len(hand'[s]) <= 1 /\ writer'[s] = "write"
  <2>1. \A i \in Holders \ {k, <<"hand", s>>} : Own'[i] = Own[i]
    <3>1. \A t \in Slots : <<"hand", t>> \notin {k, <<"hand", s>>} => hand'[t] = hand[t]
        OBVIOUS
    <3> QED
        BY <1>5, <1>7, <3>1, OwnElse
  <2>2. Range(hand[s]) = {}
      BY <1>7, EmptySeq DEF Range
  <2>3. Own'[<<"hand", s>>] = Own[<<"hand", s>>] \cup M
      BY <1>1, <1>7, <2>2 DEF OwnFacts
  <2>4. \A t \in Slots \ {s} : /\ sendCh'[t] = sendCh[t] /\ prioCh'[t] = prioCh[t]
                                /\ hand'[t] = hand[t] /\ writer'[t] = writer[t]
      OBVIOUS
  <2> DEFINE j == <<"hand", s>>
  <2>5. /\ j \in Holders /\ k # j /\ Own'[j] = Own[j] \cup M
        /\ \A i \in Holders \ {k, j} : Own'[i] = Own[i]
      BY <1>3, <2>1, <2>3
  <2> HIDE DEF j
  <2> QED
      BY <1>2, <1>3, <1>4, <2>4, <2>5, HandOver
<1> QED
    BY <1>6, <1>7

(* The writer takes a packet; a drain puts one back, the range over the       *)
(* closed channel all of them.                                                *)
LEMMA TakeFlow ==
    ASSUME Flow, PlaceTypes, NEW s \in Slots,
           \/ TakePrio(s) \/ TakeSend(s) \/ DrainClosed(s)
           \/ (DrainPrio(s) /\ prioCh[s] # <<>>) \/ (DrainSend(s) /\ sendCh[s] # <<>>)
    PROVE  Flow'
<1> USE DEF PlaceTypes
<1>1. Neat(s) /\ sendCh[s] \in Seq(Bufs) /\ prioCh[s] \in Seq(Bufs)
    BY DEF Flow
<1>2. ASSUME NEW q \in Seq(Bufs), q # <<>>, IsInjective(q)
      PROVE  /\ IsInjective(Tail(q)) /\ {Head(q)} \subseteq Range(q)
             /\ Range(Tail(q)) = Range(q) \ {Head(q)}
             /\ Range(<<Head(q)>>) = {Head(q)} /\ Len(<<Head(q)>>) <= 1
  <2>1. Range(<<Head(q)>>) = {Head(q)} /\ Len(<<Head(q)>>) <= 1
      BY DEF Range
  <2> QED
      BY <1>2, <2>1, TailNeat
<1>3. CASE TakePrio(s)
  <2>1. /\ prioCh[s] # <<>> /\ prioCh'[s] = Tail(prioCh[s]) /\ hand'[s] = <<Head(prioCh[s])>>
        /\ writer[s] # "write" /\ writer'[s] = "write" /\ UNCHANGED <<sendCh, pool>>
        /\ \A t \in Slots \ {s} :
               prioCh'[t] = prioCh[t] /\ hand'[t] = hand[t] /\ writer'[t] = writer[t]
      BY <1>3 DEF TakePrio
  <2>2. IsInjective(prioCh[s]) /\ hand[s] = <<>>
      BY <1>1, <2>1 DEF Neat
  <2>3. /\ IsInjective(prioCh'[s]) /\ {Head(prioCh[s])} \subseteq Range(prioCh[s])
        /\ Range(prioCh'[s]) = Range(prioCh[s]) \ {Head(prioCh[s])}
        /\ Range(hand'[s]) = {Head(prioCh[s])} /\ Len(hand'[s]) <= 1
      BY <1>1, <1>2, <2>1, <2>2
  <2> QED
      BY <2>1, <2>2, <2>3, UnqueueFlow
<1>4. CASE TakeSend(s)
  <2>1. /\ sendCh[s] # <<>> /\ sendCh'[s] = Tail(sendCh[s]) /\ hand'[s] = <<Head(sendCh[s])>>
        /\ writer[s] # "write" /\ writer'[s] = "write" /\ UNCHANGED <<prioCh, pool>>
        /\ \A t \in Slots \ {s} :
               sendCh'[t] = sendCh[t] /\ hand'[t] = hand[t] /\ writer'[t] = writer[t]
      BY <1>4 DEF TakeSend
  <2>2. IsInjective(sendCh[s]) /\ hand[s] = <<>>
      BY <1>1, <2>1 DEF Neat
  <2>3. /\ IsInjective(sendCh'[s]) /\ {Head(sendCh[s])} \subseteq Range(sendCh[s])
        /\ Range(sendCh'[s]) = Range(sendCh[s]) \ {Head(sendCh[s])}
        /\ Range(hand'[s]) = {Head(sendCh[s])} /\ Len(hand'[s]) <= 1
      BY <1>1, <1>2, <2>1, <2>2
  <2> QED
      BY <2>1, <2>2, <2>3, UnqueueFlow
<1>5. CASE DrainPrio(s) /\ prioCh[s] # <<>>
  <2>1. /\ prioCh'[s] = Tail(prioCh[s]) /\ UNCHANGED <<sendCh, writer, hand>>
        /\ \A t \in Slots \ {s} : prioCh'[t] = prioCh[t]
        /\ pool' = pool \cup {Head(prioCh[s])}
      BY <1>5 DEF DrainPrio
  <2>2. /\ IsInjective(prioCh'[s]) /\ {Head(prioCh[s])} \subseteq Range(prioCh[s])
        /\ Range(prioCh'[s]) = Range(prioCh[s]) \ {Head(prioCh[s])}
      BY <1>1, <1>2, <1>5, <2>1 DEF Neat
  <2> QED
      BY <2>1, <2>2, UnqueueFlow
<1>6. CASE DrainSend(s) /\ sendCh[s] # <<>>
  <2>1. /\ sendCh'[s] = Tail(sendCh[s]) /\ UNCHANGED <<prioCh, writer, hand>>
        /\ \A t \in Slots \ {s} : sendCh'[t] = sendCh[t]
        /\ pool' = pool \cup {Head(sendCh[s])}
      BY <1>6 DEF DrainSend
  <2>2. /\ IsInjective(sendCh'[s]) /\ {Head(sendCh[s])} \subseteq Range(sendCh[s])
        /\ Range(sendCh'[s]) = Range(sendCh[s]) \ {Head(sendCh[s])}
      BY <1>1, <1>2, <1>6, <2>1 DEF Neat
  <2> QED
      BY <2>1, <2>2, UnqueueFlow
<1>7. CASE DrainClosed(s)
  <2>1. /\ sendCh'[s] = <<>> /\ UNCHANGED <<prioCh, writer, hand>>
        /\ \A t \in Slots \ {s} : sendCh'[t] = sendCh[t]
        /\ pool' = pool \cup Range(sendCh[s])
      BY <1>7 DEF DrainClosed
  <2>2. Range(sendCh'[s]) = Range(sendCh[s]) \ Range(sendCh[s]) /\ IsInjective(sendCh'[s])
      BY <2>1, EmptySeq DEF Range, IsInjective
  <2> QED
      BY <2>1, <2>2, UnqueueFlow
<1> QED
    BY <1>3, <1>4, <1>5, <1>6, <1>7

(* The write is over and the buffer goes back, whether it failed or not. *)
LEMMA WriteFlow ==
    ASSUME Flow, PlaceTypes, NEW s \in Slots, WriteOK(s) \/ WriteFail(s)
    PROVE  Flow'
<1> USE DEF PlaceTypes
<1>1. OwnFacts /\ OwnFacts' /\ Neat(s)
    BY OwnIs, OwnIsNext DEF Flow
<1>2. /\ hand'[s] = <<>> /\ UNCHANGED <<sendCh, prioCh>> /\ pool' = pool \cup Range(hand[s])
      /\ \A t \in Slots \ {s} : hand'[t] = hand[t] /\ writer'[t] = writer[t]
    BY DEF WriteOK, WriteFail, chans
<1>3. Range(hand'[s]) = {} /\ Len(hand'[s]) <= 1
    BY <1>2, EmptySeq DEF Range
<1>4. Neat(s)'
    BY <1>1, <1>2, <1>3 DEF Neat
<1>5. /\ <<"hand", s>> \in Holders /\ <<"pool">> \in Holders /\ <<"hand", s>> # <<"pool">>
    BY HolderCases, KeysDiffer
<1> DEFINE M == Range(hand[s])
<1>6. /\ M \in SUBSET Own[<<"hand", s>>] /\ Own'[<<"hand", s>>] = Own[<<"hand", s>>] \ M
      /\ Own'[<<"pool">>] = Own[<<"pool">>] \cup M
    BY <1>1, <1>2, <1>3 DEF OwnFacts
<1> HIDE DEF M
<1>7. \A i \in Holders \ {<<"hand", s>>, <<"pool">>} : Own'[i] = Own[i]
  <2>1. \A t \in Slots : <<"hand", t>> \notin {<<"hand", s>>, <<"pool">>} => hand'[t] = hand[t]
      BY <1>2
  <2> QED
      BY <1>2, <2>1, OwnElse
<1> QED
    BY <1>2, <1>4, <1>5, <1>6, <1>7, HandOver

(* The steps of a slot that touch no buffer. *)
LEMMA IdleFlow ==
    ASSUME Inv, Flow, NEW s \in Slots,
           \/ Register(s) \/ CancelSession(s) \/ PollEmpty(s) \/ WriterSeesDone(s)
           \/ Unregister(s) \/ CloseSend(s)
           \/ (DrainPrio(s) /\ prioCh[s] = <<>>) \/ (DrainSend(s) /\ sendCh[s] = <<>>)
    PROVE  Flow'
<1>1. Neat(s) /\ writer \in [Slots -> WriterStates]
    BY DEF Flow, Inv, TypeOK
<1>2. UNCHANGED <<sendCh, prioCh, hand, pool>>
    BY DEF Register, CancelSession, PollEmpty, WriterSeesDone, Unregister, CloseSend, DrainPrio,
           DrainSend, chans
<1>3. \A t \in Slots \ {s} : writer'[t] = writer[t]
    BY <1>1 DEF Register, CancelSession, PollEmpty, WriterSeesDone, Unregister, CloseSend, DrainPrio,
                DrainSend
<1>4. writer'[s] = writer[s] \/ writer[s] # "write"
    BY DEF Register, CancelSession, PollEmpty, WriterSeesDone, Unregister, CloseSend, DrainPrio,
           DrainSend, Inv, Registered
<1>5. writer'[s] = writer[s] \/ hand[s] = <<>>
    BY <1>1, <1>4 DEF Neat
<1> QED
    BY <1>2, <1>3, <1>5, QuietFlow

LEMMA NextFlow == Inv /\ Flow /\ [Next]_vars => Flow'
<1> SUFFICES ASSUME Inv, Flow, [Next]_vars PROVE Flow'
    OBVIOUS
<1>1. PlaceTypes
    BY DEF Inv, TypeOK, PlaceTypes
<1>2. ASSUME NEW s \in Slots, \/ Register(s) \/ CancelSession(s) \/ Writer(s) \/ Leave(s)
      PROVE  Flow'
  <2>1. CASE \/ Register(s) \/ CancelSession(s) \/ PollEmpty(s) \/ WriterSeesDone(s)
             \/ Unregister(s) \/ CloseSend(s)
             \/ (DrainPrio(s) /\ prioCh[s] = <<>>) \/ (DrainSend(s) /\ sendCh[s] = <<>>)
      BY <2>1, IdleFlow
  <2>2. CASE \/ TakePrio(s) \/ TakeSend(s) \/ DrainClosed(s)
             \/ (DrainPrio(s) /\ prioCh[s] # <<>>) \/ (DrainSend(s) /\ sendCh[s] # <<>>)
      BY <1>1, <2>2, TakeFlow
  <2>3. CASE WriteOK(s) \/ WriteFail(s)
      BY <1>1, <2>3, WriteFlow
  <2>4. \/ Register(s) \/ CancelSession(s) \/ PollEmpty(s) \/ WriterSeesDone(s)
        \/ Unregister(s) \/ CloseSend(s) \/ DrainPrio(s) \/ DrainSend(s)
        \/ TakePrio(s) \/ TakeSend(s) \/ DrainClosed(s) \/ WriteOK(s) \/ WriteFail(s)
      BY <1>2, Zenon DEF Writer, Leave
  <2> QED
      BY <2>1, <2>2, <2>3, <2>4, Zenon
<1>3. ASSUME NEW s \in Slots, KeepaliveTick(s) PROVE Flow'
    BY <1>1, <1>3, QueueFlow DEF KeepaliveTick, slots
<1>4. CASE UNCHANGED <<sendCh, prioCh, hand, pool, writer>>
  <2>1. \A k \in Holders \ {} : Own'[k] = Own[k]
      BY <1>4, OwnElse
  <2> QED
      BY <1>4, <2>1 DEF Flow, Neat, Partition
<1>5. ASSUME NEW size \in Sizes, NEW gap \in Gaps, ReadPacket(size, gap) PROVE Flow'
  <2>1. UNCHANGED <<hand, writer>>
      BY <1>5 DEF ReadPacket, slots
  <2>2. CASE UNCHANGED <<sendCh, prioCh, pool>>
      BY <1>4, <2>1, <2>2
  <2>3. ASSUME NEW s \in Slots, NEW b \in pool, pool' = pool \ {b},
               \/ sendCh' = [sendCh EXCEPT ![s] = Append(@, b)] /\ UNCHANGED prioCh
               \/ prioCh' = [prioCh EXCEPT ![s] = Append(@, b)] /\ UNCHANGED sendCh
        PROVE  Flow'
      BY <1>1, <2>1, <2>3, QueueFlow
  <2> QED
      BY <1>5, <2>2, <2>3, ReadPacketPuts
<1>6. CASE UNCHANGED vars
    BY <1>4, <1>6 DEF vars, slots, chans
<1> QED
    BY <1>2, <1>3, <1>5, <1>6 DEF Next

(* Both invariants hold in every reachable state: the buffers' places follow  *)
(* the slots' life.                                                           *)
THEOREM FlowInvariance == Spec => [](Inv /\ Flow)
<1>1. Init => Inv /\ Flow
    BY InitInv, InitFlow
<1>2. Inv /\ Flow /\ [Next]_vars => (Inv /\ Flow)'
    BY NextInv, NextFlow
<1> QED
    BY <1>1, <1>2, PTL DEF Spec

(* No buffer is lost, none is in two places, none is put back twice: neither  *)
(* a failed write, a drain racing readLoop nor the drain of the closed        *)
(* channel breaks it.                                                         *)
THEOREM BuffersOwnedOnce == Spec => []BufferOwnedOnce
<1>1. ASSUME Inv, Flow PROVE BufferOwnedOnce
  <2>1. ASSUME NEW b \in Bufs
        PROVE  Cardinality({k \in Holders : b \in Holding(k)}) = 1
    <3>1. \A k \in Holders : Holding(k) = Own[k]
        BY DEF Own
    <3>2. PICK k \in Holders : b \in Own[k]
        BY <1>1 DEF Flow, Partition
    <3>3. \A j \in Holders : j # k => b \notin Own[j]
        BY <1>1, <3>2 DEF Flow, Partition
    <3>4. {j \in Holders : b \in Holding(j)} = {k}
        BY <3>1, <3>2, <3>3
    <3> QED
        BY <3>4, FS_Singleton
  <2>2. ASSUME NEW s \in Slots, NEW q \in {sendCh[s], prioCh[s], hand[s]}
        PROVE  IsInjective(q)
    <3>1. Neat(s) /\ hand[s] \in Seq(Bufs)
        BY <1>1 DEF Flow, Inv, TypeOK
    <3>2. Len(hand[s]) \in Nat /\ DOMAIN hand[s] = 1..Len(hand[s]) /\ Len(hand[s]) <= 1
        BY <3>1, LenProperties DEF Neat
    <3>3. \A i \in 1..Len(hand[s]) : \A j \in 1..Len(hand[s]) : i = j
        BY <3>2
    <3>4. IsInjective(hand[s])
        BY <3>2, <3>3 DEF IsInjective
    <3> QED
        BY <3>1, <3>4 DEF Neat
  <2> QED
      BY <2>1, <2>2 DEF BufferOwnedOnce
<1> QED
    BY <1>1, FlowInvariance, PTL
=============================================================================
