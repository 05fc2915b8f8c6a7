------------------------------ MODULE RtpObfs ------------------------------
(***************************************************************************)
(* internal/core/obfs.go: the RTP-like AEAD framing of one direction of a  *)
(* session.  Several goroutines of the sender seal packets with one        *)
(* ObfsState; the network loses, reorders and duplicates them; the         *)
(* receiver keeps a replayWindow.                                          *)
(*                                                                         *)
(* A packet is named by its 48-bit counter.  AEAD is external: a packet    *)
(* that opens was sealed by the peer.  The field widths, the timestamp     *)
(* step and the window are constants (16 and 32 bits, 960, 4096 * 961 and  *)
(* 8192 in the code) so that wrap-around is within TLC's reach.            *)
(***************************************************************************)
EXTENDS Integers, FiniteSets

CONSTANTS Goroutines, \* those that write to one obfsDirectConn
          SeqMod,     \* 2^16: sequence numbers
          TsMod,      \* 2^32: timestamps
          Step,       \* 960: timestamp units per packet
          StepInverse, \* of Step * SeqMod + 1 modulo TsMod
          Span,       \* replayWindowSpan
          MaxEntries, \* replayWindowMaxEntries
          InitSeqs, InitTss, \* random initial values that are tried
          Lifetime,   \* bound: a datagram arrives while at most this many later ones were sealed
          Burst,      \* bound: packets sealed since the last one the receiver let in
          MaxCount    \* bound: packets sealed in a run

(* Step * SeqMod + 1 is invertible modulo TsMod (it is odd and TsMod a power *)
(* of two: 62914561 * 4232052737 = 61992961 * 2^32 + 1 for the code's        *)
(* constants), and no more packets are sealed than there are nonces (2^48).  *)
ASSUME ObfsAssumption ==
    /\ SeqMod \in Nat \ {0} /\ TsMod \in Nat \ {0} /\ Step \in Nat
    /\ StepInverse \in Nat /\ (StepInverse * (Step * SeqMod + 1)) % TsMod = 1
    /\ InitSeqs \subseteq Nat /\ InitTss \subseteq Nat
    /\ MaxCount \in Nat /\ MaxCount <= SeqMod * TsMod

(* What the window relies on: it is much shorter than half the timestamp     *)
(* circle (2 million packets), and so are the time a datagram lives and the  *)
(* longest run of lost packets; and the table has room for every packet of   *)
(* the window (4096 * 961 < 960 * 8192).                                     *)
ASSUME WindowAssumption ==
    /\ Span \in Nat /\ MaxEntries \in Nat /\ Lifetime \in Nat /\ Burst \in Nat
    /\ 2 * Span < TsMod /\ 2 * (Lifetime + Burst) * (Step + 1) < TsMod
    /\ Span < Step * MaxEntries

VARIABLES
    initSeq, initTs, \* ObfsState.initSeq, ObfsState.initTs
    count,           \* ObfsState.count
    local,           \* the counter c a goroutine drew under state.mu, or None
    wire,            \* the packets that were sealed
    pinned,          \* replayWindow: "none" (not initialized), or whose ssrc it holds
    highestTime,     \* replayWindow.highestTime
    seen,            \* replayWindow.seen, a set of [nonce, time] entries
    epochKnown,      \* history: see EpochKnown
    newest,          \* history: the latest packet the receiver accepted, or None
    accepted,        \* history: the accepted packets that may still arrive again
    replayed,        \* history: packets it accepted a second time
    refused          \* history: packets it refused on first sight although in its window

sender   == <<initSeq, initTs, count, local, wire>>
receiver == <<pinned, highestTime, seen, epochKnown, newest, accepted, replayed, refused>>
vars     == <<sender, receiver>>

None     == -1
Counters == 0..(MaxCount - 1)

(* mutants: the sequence number does not wrap; the c >> 16 term is missing *)
SeqOf_NoWrap(c)  == initSeq + c
TsOf_NoCarry(c)  == (initTs + c * Step) % TsMod

(* uint16(c) wraps in seq; c >> 16 is c \div SeqMod. *)
SeqOf(c) == (initSeq + c) % SeqMod
TsOf(c)  == (initTs + c * Step + c \div SeqMod) % TsMod

obfsBuildNonce(seq, ts) == <<seq, ts>>
Nonce(c) == obfsBuildNonce(SeqOf(c), TsOf(c))

Init ==
    /\ initSeq \in InitSeqs /\ initTs \in InitTss
    /\ count = 0 /\ local = [g \in Goroutines |-> None] /\ wire = {}
    /\ pinned = "none" /\ highestTime = 0 /\ seen = {}
    /\ epochKnown = TRUE /\ newest = None /\ accepted = {} /\ replayed = {} /\ refused = {}

(* the network still holds (copies of) packet c when n packets were drawn *)
Alive(c, n) == n - c <= Lifetime

(* obfsWrapPacket, under state.mu: c := state.count; state.count++ *)
Draw(g) ==
    /\ local[g] = None /\ count < MaxCount
    /\ pinned = "peer" => count - newest <= Burst
    /\ local' = [local EXCEPT ![g] = count]
    /\ count' = count + 1
    /\ accepted' = {c \in accepted : Alive(c, count + 1)}
    /\ UNCHANGED <<initSeq, initTs, wire, pinned, highestTime, seen, epochKnown, newest,
                   replayed, refused>>

(* The rest of it: header and nonce from c, aead.Seal.  When the random bytes *)
(* of the padding fail the packet is used up, as if the network had lost it.  *)
Seal(g) ==
    /\ local[g] # None
    /\ wire' = wire \cup {local[g]}
    /\ local' = [local EXCEPT ![g] = None]
    /\ UNCHANGED <<initSeq, initTs, count, receiver>>

(* mutant: no correction for a wrap between h and the packet *)
Extended_NoWrap(ts, h) == (h - (h % TsMod)) + ts

(* The timestamp, taken to be the one nearest to highestTime h. *)
Extended(ts, h) ==
    LET e    == (h - (h % TsMod)) + ts
        half == TsMod \div 2
    IN  IF e + half < h THEN e + TsMod
        ELSE IF e > h + half /\ e >= TsMod THEN e - TsMod
        ELSE e

(* mutant: entries still inside the window are purged *)
Cutoff_Newest(h) == h

Cutoff(h) == h - (IF h < Span THEN h ELSE Span)
Purge(entries, h) ==
    IF Cardinality(entries) >= MaxEntries
    THEN {x \in entries : x.time >= Cutoff(h)} ELSE entries

(* accept returns true iff Fresh, InWindow and HasRoom hold, checked in order. *)
Fresh(c)       == \A x \in seen : x.nonce # Nonce(c)
InWindow(e, h) == e + Span >= h
HasRoom(entries) == Cardinality(entries) < MaxEntries

(* In the window by the packets' true times, which only the model knows. *)
TrueTime(c)    == initTs + c * Step + c \div SeqMod
TrulyInWindow(c) == newest = None \/ TrueTime(c) + Span >= TrueTime(newest)

(* The timestamp did not wrap between a packet still under way and packet c,   *)
(* which initializes the window.  If it did, the late packet looks like one    *)
(* from the future (highestTime is below 2^32, so 2^32 cannot be subtracted)   *)
(* and the entries before it carry times of the wrong epoch.                   *)
EpochKnown(c) ==
    \A d \in Counters : d <= c /\ Alive(d, count) =>
        TrueTime(d) \div TsMod = TrueTime(c) \div TsMod

Refuse(c) ==
    /\ refused' = IF c \notin accepted /\ TrulyInWindow(c) THEN refused \cup {c} ELSE refused
    /\ UNCHANGED <<newest, accepted, replayed>>

Deliver(c) ==
    LET h  == IF pinned = "none" THEN TsOf(c) ELSE highestTime
        e  == Extended(TsOf(c), h)
        h1 == IF e > h THEN e ELSE h
        kept == Purge(seen, h1)
    IN  /\ c \in wire /\ Alive(c, count)
        /\ pinned' = IF pinned = "none" THEN "peer" ELSE pinned
        /\ epochKnown' = IF pinned = "none" THEN EpochKnown(c) ELSE epochKnown
        /\ IF pinned = "other" \/ ~Fresh(c) \/ ~InWindow(e, h)
           THEN /\ Refuse(c) /\ UNCHANGED <<highestTime, seen>>
           ELSE /\ highestTime' = h1
                /\ IF HasRoom(kept)
                   THEN /\ seen' = kept \cup {[nonce |-> Nonce(c), time |-> e]}
                        /\ accepted' = accepted \cup {c}
                        /\ newest' = IF c > newest THEN c ELSE newest
                        /\ replayed' = IF c \in accepted THEN replayed \cup {c} ELSE replayed
                        /\ UNCHANGED refused
                   ELSE seen' = kept /\ Refuse(c)
        /\ UNCHANGED sender

(* A packet of another ssrc that opens: it pins the window when it is first,  *)
(* and is refused otherwise.                                                  *)
DeliverOther ==
    /\ pinned = "none"
    /\ pinned' = "other"
    /\ UNCHANGED <<sender, highestTime, seen, epochKnown, newest, accepted, replayed, refused>>

Next ==
    \/ \E g \in Goroutines : Draw(g) \/ Seal(g)
    \/ \E c \in wire : Deliver(c)
    \/ DeliverOther

Spec == Init /\ [][Next]_vars

-----------------------------------------------------------------------------
TypeOK ==
    /\ initSeq \in InitSeqs /\ initTs \in InitTss
    /\ count \in 0..MaxCount /\ local \in [Goroutines -> Counters \cup {None}]
    /\ wire \subseteq Counters
    /\ pinned \in {"none", "peer", "other"} /\ highestTime \in Nat
    /\ seen \subseteq [nonce : (0..(SeqMod - 1)) \X (0..(TsMod - 1)), time : Nat]
    /\ epochKnown \in BOOLEAN
    /\ newest \in Counters \cup {None} /\ accepted \subseteq wire /\ replayed \subseteq wire /\ refused \subseteq wire

(* No two packets of a session are sealed under one nonce, however the        *)
(* goroutines that share the ObfsState interleave, until the 48-bit counter   *)
(* is used up: the sequence number wraps every 2^16 packets and the timestamp *)
(* every 2^26, and the c >> 16 term keeps the pair from repeating.  (Two      *)
(* messages under one nonce break ChaCha20-Poly1305.)                         *)
NonceUnique ==
    \A g \in Goroutines : local[g] # None =>
        /\ \A c \in wire : Nonce(c) # Nonce(local[g])
        /\ \A h \in Goroutines : h # g /\ local[h] # None =>
               Nonce(local[h]) # Nonce(local[g])

(* The window never lets a packet in twice, across timestamp wrap-around and  *)
(* the purge of old entries, if it knew the epoch of its first packet.        *)
AcceptedOnce == epochKnown => replayed = {}

(* A packet seen for the first time that is not older than the window is let  *)
(* in: neither wrap-around nor a full table makes the receiver lose data,     *)
(* unless another source pinned the window first.                             *)
InWindowAccepted == pinned # "other" => refused = {}
=============================================================================
