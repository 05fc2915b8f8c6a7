--------------------------- MODULE RtpObfsProofs ---------------------------
(***************************************************************************)
(* Theorems about module RtpObfs, for any widths of the sequence number    *)
(* and the timestamp, any step, any number of goroutines and every packet  *)
(* of the life of the counter.                                             *)
(***************************************************************************)
EXTENDS RtpObfs, FiniteSetTheorems, WellFoundedInduction, TLAPS

-----------------------------------------------------------------------------
(* Division with remainder, as obfsWrapPacket's uint16(c) and c >> 16 use it. *)
LEMMA DivMod ==
    ASSUME NEW a \in Nat, NEW n \in Nat \ {0}
    PROVE  /\ a \div n \in Nat /\ a % n \in 0..(n - 1)
           /\ a = n * (a \div n) + (a % n)
OBVIOUS

(* Quotient and remainder are unique. *)
LEMMA DivUnique ==
    ASSUME NEW n \in Nat \ {0}, NEW p \in Nat, NEW q \in Nat,
           NEW r \in 0..(n - 1), NEW s \in 0..(n - 1), n * p + r = n * q + s
    PROVE  p = q
<1>1. CASE p < q
    <2>1. PICK d \in Nat : q = p + 1 + d
        <3>1. q - p - 1 \in Nat /\ q = p + 1 + (q - p - 1)
            BY <1>1
        <3> QED
            BY <3>1
    <2>2. n * q = n * p + n + n * d /\ n * d \in Nat /\ n * p \in Nat
        BY <2>1
    <2> QED
        BY <2>2
<1>2. CASE q < p
    <2>1. PICK d \in Nat : p = q + 1 + d
        <3>1. p - q - 1 \in Nat /\ p = q + 1 + (p - q - 1)
            BY <1>2
        <3> QED
            BY <3>1
    <2>2. n * p = n * q + n + n * d /\ n * d \in Nat /\ n * q \in Nat
        BY <2>1
    <2> QED
        BY <2>2
<1> QED
    BY <1>1, <1>2

(* Numbers with one remainder differ by a multiple. *)
LEMMA SameRemainder ==
    ASSUME NEW n \in Nat \ {0}, NEW a \in Nat, NEW b \in Nat, a <= b, a % n = b % n
    PROVE  \E k \in Nat : b = a + n * k
<1> DEFINE p == a \div n
           q == b \div n
<1>1. /\ p \in Nat /\ q \in Nat /\ a % n \in 0..(n - 1)
      /\ a = n * p + (a % n) /\ b = n * q + (a % n)
    BY DivMod
<1> HIDE DEF p, q
<1>2. p <= q
    <2> SUFFICES ASSUME q < p PROVE FALSE
        BY <1>1
    <2>1. PICK d \in Nat : p = q + 1 + d
        <3>1. p - q - 1 \in Nat /\ p = q + 1 + (p - q - 1)
            BY <1>1
        <3> QED
            BY <3>1
    <2>2. n * p = n * q + n + n * d /\ n * d \in Nat /\ n * q \in Nat
        BY <2>1, <1>1
    <2> QED
        BY <2>2, <1>1
<1>3. PICK k \in Nat : q = p + k
    <2>1. q - p \in Nat /\ q = p + (q - p)
        BY <1>1, <1>2
    <2> QED
        BY <2>1
<1>4. n * q = n * p + n * k
    BY <1>1, <1>3
<1> QED
    BY <1>1, <1>4

(* Adding a multiple of n adds to the quotient. *)
LEMMA DivShift ==
    ASSUME NEW n \in Nat \ {0}, NEW a \in Nat, NEW k \in Nat
    PROVE  (a + n * k) \div n = (a \div n) + k
<1> DEFINE b == a + n * k
           p == a \div n
           q == b \div n
<1>1. b \in Nat
    OBVIOUS
<1>2. p \in Nat /\ a % n \in 0..(n - 1) /\ a = n * p + (a % n)
    BY DivMod
<1>3. q \in Nat /\ b % n \in 0..(n - 1) /\ b = n * q + (b % n)
    BY <1>1, DivMod
<1>4. b = a + n * k
    OBVIOUS
<1> HIDE DEF b, p, q
<1>5. n * (p + k) = n * p + n * k
    BY <1>2
<1>6. n * (p + k) + (a % n) = n * q + (b % n)
    BY <1>2, <1>3, <1>4, <1>5
<1>7. p + k = q
    <2> DEFINE m == p + k
    <2>1. m \in Nat /\ n * m + (a % n) = n * q + (b % n)
        BY <1>2, <1>6
    <2> HIDE DEF m
    <2>2. m = q
        BY <1>2, <1>3, <2>1, DivUnique
    <2> QED
        BY <2>2 DEF m
<1> QED
    BY <1>7 DEF p, q, b

(* A multiple of t that is strictly between 0 and t does not exist. *)
LEMMA NoMultiple ==
    ASSUME NEW t \in Nat \ {0}, NEW k \in Nat, 0 < k, k < t, NEW x \in Int
    PROVE  k # t * x
<1>1. CASE x <= 0
    <2>1. t * x <= 0
        BY <1>1
    <2> QED
        BY <2>1
<1>2. CASE x > 0
    <2>1. PICK y \in Nat : x = 1 + y
        <3>1. x - 1 \in Nat /\ x = 1 + (x - 1)
            BY <1>2
        <3> QED
            BY <3>1
    <2>2. t * x = t + t * y /\ t * y \in Nat
        BY <2>1
    <2> QED
        BY <2>2
<1> QED
    BY <1>1, <1>2

(* m has an inverse modulo t: only multiples of t are mapped to 0. *)
LEMMA Cancels ==
    ASSUME NEW t \in Nat \ {0}, NEW m \in Nat, NEW inv \in Nat, (inv * m) % t = 1,
           NEW k \in Nat, 0 < k, k < t, NEW j \in Nat
    PROVE  k * m # t * j
<1> SUFFICES ASSUME k * m = t * j PROVE FALSE
    OBVIOUS
<1> DEFINE im == inv * m
           e == im \div t
<1>1. im \in Nat
    OBVIOUS
<1>2. e \in Nat /\ im = t * e + 1
    BY <1>1, DivMod
<1>3. k * im = inv * (k * m)
    OBVIOUS
<1> HIDE DEF im, e
<1>4. k * im = t * (k * e) + k
    BY <1>1, <1>2
<1>5. inv * (k * m) = t * (inv * j)
    OBVIOUS
<1>6. k = t * (inv * j) - t * (k * e)
    BY <1>1, <1>2, <1>3, <1>4, <1>5
<1>7. inv * j - k * e \in Int /\ k = t * (inv * j - k * e)
    BY <1>2, <1>6
<1> QED
    BY <1>7, NoMultiple

(* Two packets of one ObfsState have different nonces until SeqMod * TsMod    *)
(* (2^48) packets have been sealed.                                           *)
LEMMA NonceInjective ==
    ASSUME initSeq \in Nat, initTs \in Nat, NEW c \in Nat, NEW d \in Nat,
           c < d, d < SeqMod * TsMod
    PROVE  Nonce(c) # Nonce(d)
<1> SUFFICES ASSUME Nonce(c) = Nonce(d) PROVE FALSE
    OBVIOUS
<1>1. SeqMod \in Nat \ {0} /\ TsMod \in Nat \ {0} /\ Step \in Nat /\ StepInverse \in Nat
      /\ (StepInverse * (Step * SeqMod + 1)) % TsMod = 1
    BY ObfsAssumption
<1>2. SeqOf(c) = SeqOf(d) /\ TsOf(c) = TsOf(d)
    BY DEF Nonce, obfsBuildNonce
<1>3. PICK k \in Nat : d = c + SeqMod * k
    <2>1. /\ initSeq + c \in Nat /\ initSeq + d \in Nat /\ initSeq + c <= initSeq + d
          /\ (initSeq + c) % SeqMod = (initSeq + d) % SeqMod
        BY <1>2 DEF SeqOf
    <2>2. PICK k \in Nat : initSeq + d = (initSeq + c) + SeqMod * k
        BY <1>1, <2>1, SameRemainder
    <2>3. SeqMod * k \in Nat
        BY <1>1
    <2>4. d = c + SeqMod * k
        BY <2>2, <2>3
    <2> QED
        BY <2>4
<1>4. 0 < k /\ k < TsMod
    <2>1. k # 0
        BY <1>1, <1>3
    <2>2. ASSUME k >= TsMod PROVE FALSE
        <3>1. PICK y \in Nat : k = TsMod + y
            <4>1. k - TsMod \in Nat /\ k = TsMod + (k - TsMod)
                BY <1>1, <2>2
            <4> QED
                BY <4>1
        <3>2. SeqMod * k = SeqMod * TsMod + SeqMod * y /\ SeqMod * y \in Nat /\ SeqMod * TsMod \in Nat
            BY <1>1, <3>1
        <3> QED
            BY <1>3, <3>2
    <2> QED
        BY <2>1, <2>2, <1>1
<1>5. d \div SeqMod = (c \div SeqMod) + k /\ c \div SeqMod \in Nat
    BY <1>1, <1>3, DivShift, DivMod
<1> DEFINE u == initTs + c * Step + c \div SeqMod
           v == initTs + d * Step + d \div SeqMod
           m == Step * SeqMod + 1
<1>6. u \in Nat /\ m \in Nat /\ c * Step \in Nat
    BY <1>1, <1>5
<1>7. d * Step = c * Step + k * (Step * SeqMod)
    BY <1>1, <1>3
<1>8. k * m = k * (Step * SeqMod) + k /\ k * (Step * SeqMod) \in Nat
    BY <1>1
<1>9. v = u + k * m
    <2> DEFINE w == c * Step
               q == c \div SeqMod
               x == k * (Step * SeqMod)
    <2>1. v = initTs + (w + x) + (q + k)
        BY <1>5, <1>7
    <2>2. u = initTs + w + q /\ k * m = x + k
        BY <1>8
    <2>3. w \in Nat /\ q \in Nat /\ x \in Nat
        BY <1>5, <1>6, <1>8
    <2> HIDE DEF w, q, x, u, v
    <2>4. initTs + (w + x) + (q + k) = (initTs + w + q) + (x + k)
        BY <2>3
    <2> QED
        BY <2>1, <2>2, <2>4
<1>10. u % TsMod = v % TsMod
    BY <1>2 DEF TsOf
<1>11. (StepInverse * m) % TsMod = 1 /\ k * m \in Nat
    BY <1>1, <1>8
<1> HIDE DEF u, v, m
<1>12. v \in Nat /\ u <= v
    BY <1>6, <1>9, <1>11
<1>13. PICK j \in Nat : v = u + TsMod * j
    BY <1>1, <1>6, <1>10, <1>12, SameRemainder
<1>14. TsMod * j \in Nat
    BY <1>1
<1>15. k * m = TsMod * j
    BY <1>6, <1>9, <1>11, <1>13, <1>14
<1> QED
    BY <1>1, <1>4, <1>6, <1>11, <1>15, Cancels

-----------------------------------------------------------------------------
(* The sender's inductive invariant: every counter was drawn once, and one    *)
(* that a goroutine holds is not yet on the wire.                             *)
Drawn ==
    /\ initSeq \in Nat /\ initTs \in Nat /\ count \in 0..MaxCount
    /\ local \in [Goroutines -> (0..(count - 1)) \cup {None}]
    /\ wire \subseteq 0..(count - 1)
    /\ \A g \in Goroutines : local[g] # None =>
          /\ local[g] \notin wire
          /\ \A h \in Goroutines : h # g => local[h] # local[g]

(* Nothing is drawn at first. *)
LEMMA InitDrawn == Init => Drawn
BY ObfsAssumption DEF Init, Drawn, None

(* Draw takes a fresh counter, Seal moves it to the wire, and the receiver    *)
(* does not touch the ObfsState.                                              *)
LEMMA NextDrawn == Drawn /\ [Next]_vars => Drawn'
<1> SUFFICES ASSUME Drawn, [Next]_vars PROVE Drawn'
    OBVIOUS
<1>1. MaxCount \in Nat /\ None = -1
    BY ObfsAssumption DEF None
<1>2. ASSUME NEW g \in Goroutines, Draw(g) PROVE Drawn'
    <2>1. /\ count < MaxCount /\ local' = [local EXCEPT ![g] = count] /\ count' = count + 1
          /\ wire' = wire /\ initSeq' = initSeq /\ initTs' = initTs
        BY <1>2 DEF Draw
    <2>2. count' \in 0..MaxCount /\ 0..(count - 1) \subseteq 0..(count' - 1)
          /\ count \in 0..(count' - 1) /\ count \notin 0..(count - 1) /\ count # None
        BY <1>1, <2>1 DEF Drawn
    <2>3. local' \in [Goroutines -> (0..(count' - 1)) \cup {None}] /\ wire' \subseteq 0..(count' - 1)
        BY <2>1, <2>2 DEF Drawn
    <2>4. ASSUME NEW f \in Goroutines, local'[f] # None
          PROVE  local'[f] \notin wire' /\ \A h \in Goroutines : h # f => local'[h] # local'[f]
        <3>1. \A h \in Goroutines : local[h] # count
            BY <2>2 DEF Drawn
        <3>2. \A h \in Goroutines : local'[h] = IF h = g THEN count ELSE local[h]
            BY <2>1 DEF Drawn
        <3>3. count \notin wire
            BY <2>2 DEF Drawn
        <3> QED
            BY <2>1, <2>4, <3>1, <3>2, <3>3 DEF Drawn
    <2> QED
        BY <2>1, <2>2, <2>3, <2>4 DEF Drawn
<1>3. ASSUME NEW g \in Goroutines, Seal(g) PROVE Drawn'
    <2>1. /\ local[g] # None /\ wire' = wire \cup {local[g]} /\ local' = [local EXCEPT ![g] = None]
          /\ count' = count /\ initSeq' = initSeq /\ initTs' = initTs
        BY <1>3 DEF Seal
    <2>2. local[g] \in 0..(count - 1)
        BY <2>1 DEF Drawn
    <2>3. \A h \in Goroutines : local'[h] = IF h = g THEN None ELSE local[h]
        BY <2>1 DEF Drawn
    <2>4. local' \in [Goroutines -> (0..(count - 1)) \cup {None}] /\ wire' \subseteq 0..(count - 1)
        BY <2>1, <2>2 DEF Drawn
    <2>5. ASSUME NEW f \in Goroutines, local'[f] # None
          PROVE  local'[f] \notin wire' /\ \A h \in Goroutines : h # f => local'[h] # local'[f]
        BY <2>1, <2>3, <2>5 DEF Drawn
    <2> QED
        BY <2>1, <2>4, <2>5 DEF Drawn
<1>4. CASE UNCHANGED sender
    BY <1>4 DEF sender, Drawn
<1>5. CASE UNCHANGED vars
    BY <1>4, <1>5 DEF vars
<1> QED
    BY <1>2, <1>3, <1>4, <1>5 DEF Next, Deliver, DeliverOther

(* No two packets of a session are sealed under one nonce: the property TLC   *)
(* checks for narrow fields holds for the 16- and 32-bit fields of the code,  *)
(* up to the 2^48-th packet.                                                  *)
THEOREM NoncesNeverRepeat == Spec => []NonceUnique
<1>1. Drawn => NonceUnique
    <2> SUFFICES ASSUME Drawn, NEW g \in Goroutines, local[g] # None
                 PROVE  /\ \A c \in wire : Nonce(c) # Nonce(local[g])
                        /\ \A h \in Goroutines : h # g /\ local[h] # None =>
                               Nonce(local[h]) # Nonce(local[g])
        BY DEF NonceUnique
    <2>1. initSeq \in Nat /\ initTs \in Nat /\ count \in Nat
        BY ObfsAssumption DEF Drawn
    <2>2. ASSUME NEW a \in 0..(count - 1), NEW b \in 0..(count - 1), a # b
          PROVE  Nonce(a) # Nonce(b)
        <3>1. a \in Nat /\ b \in Nat /\ a < MaxCount /\ b < MaxCount
            BY <2>1, ObfsAssumption DEF Drawn
        <3>2. SeqMod * TsMod \in Nat /\ a < SeqMod * TsMod /\ b < SeqMod * TsMod
            BY <3>1, ObfsAssumption
        <3>3. a < b \/ b < a
            BY <3>1, <2>2
        <3> QED
            BY <2>1, <3>1, <3>2, <3>3, NonceInjective
    <2>3. local[g] \in 0..(count - 1)
        BY DEF Drawn
    <2>4. ASSUME NEW c \in wire PROVE Nonce(c) # Nonce(local[g])
        BY <2>2, <2>3 DEF Drawn
    <2>5. ASSUME NEW h \in Goroutines, h # g, local[h] # None PROVE Nonce(local[h]) # Nonce(local[g])
        <3>1. local[h] \in 0..(count - 1) /\ local[h] # local[g]
            BY <2>5 DEF Drawn
        <3> QED
            BY <2>2, <2>3, <3>1
    <2> QED
        BY <2>4, <2>5
<1> QED
    BY <1>1, InitDrawn, NextDrawn, PTL DEF Spec

-----------------------------------------------------------------------------
(***************************************************************************)
(* The receiver.  K counts the times the timestamp had wrapped when the    *)
(* window was initialized (the epoch the window is off by) and m is the    *)
(* packet that highestTime belongs to.                                     *)
(***************************************************************************)
Entry(x, K) ==
    /\ x.time <= highestTime
    /\ \E d \in wire :
          /\ x.nonce = Nonce(d) /\ (Alive(d, count) => d \in accepted)
          /\ x.time + K * TsMod = TrueTime(d) \/ x.time + Span < highestTime

(* An accepted packet is in the table or too old for the window. *)
Remembered(c, K, m) ==
    \/ \E x \in seen : x.nonce = Nonce(c) /\ x.time + K * TsMod = TrueTime(c)
    \/ TrueTime(c) + Span < TrueTime(m)

Near(m) ==
    /\ m \in wire /\ newest \in wire /\ m <= newest
    /\ m = newest \/ newest - m < Lifetime
    /\ count - m <= Lifetime \/ count - newest <= Burst + 1

Window(K, m) ==
    /\ Near(m) /\ highestTime + K * TsMod = TrueTime(m)
    /\ IsFiniteSet(seen) /\ \A x \in seen : Entry(x, K)
    /\ epochKnown =>
          /\ \A d \in 0..(count - 1) : Alive(d, count) => TrueTime(d) >= K * TsMod
          /\ \A c \in accepted : Remembered(c, K, m)

Pinned ==
    /\ pinned # "peer" => seen = {} /\ accepted = {} /\ replayed = {} /\ newest = None
    /\ pinned = "peer" => \E K \in Nat, m \in wire : Window(K, m)

RInv == TypeOK /\ Drawn /\ Pinned /\ AcceptedOnce /\ InWindowAccepted

(* What the assumptions say about the window, in plain facts. *)
LEMMA ObfsFacts ==
    /\ SeqMod \in Nat \ {0} /\ TsMod \in Nat \ {0} /\ Step \in Nat \ {0}
    /\ Span \in Nat /\ MaxEntries \in Nat \ {0} /\ Lifetime \in Nat /\ Burst \in Nat
    /\ MaxCount \in Nat /\ None = -1 /\ 2 * Span < TsMod /\ Span < Step * MaxEntries
    /\ 2 * ((Lifetime + Burst) * (Step + 1)) < TsMod
<1>1. /\ SeqMod \in Nat \ {0} /\ TsMod \in Nat \ {0} /\ Step \in Nat /\ MaxCount \in Nat
      /\ Span \in Nat /\ MaxEntries \in Nat /\ Lifetime \in Nat /\ Burst \in Nat
      /\ 2 * Span < TsMod /\ Span < Step * MaxEntries
      /\ 2 * (Lifetime + Burst) * (Step + 1) < TsMod
    BY ObfsAssumption, WindowAssumption
<1>2. Step # 0 /\ MaxEntries # 0
    BY <1>1
<1>3. 2 * (Lifetime + Burst) * (Step + 1) = 2 * ((Lifetime + Burst) * (Step + 1))
    BY <1>1
<1> QED
    BY <1>1, <1>2, <1>3 DEF None

(* c >> 16 grows with c, and by no more than c does. *)
LEMMA DivGrows ==
    ASSUME NEW n \in Nat \ {0}, NEW c \in Nat, NEW i \in Nat
    PROVE  /\ c \div n \in Nat /\ (c + i) \div n \in Nat
           /\ c \div n <= (c + i) \div n /\ (c + i) \div n <= (c \div n) + i
<1> DEFINE d == c + i
           p == c \div n
           q == d \div n
           r == c % n
           s == d % n
<1>1. p \in Nat /\ r \in 0..(n - 1) /\ c = n * p + r
    BY DivMod
<1>2. d \in Nat /\ d = c + i
    OBVIOUS
<1>3. q \in Nat /\ s \in 0..(n - 1) /\ d = n * q + s
    BY <1>2, DivMod
<1> HIDE DEF d, p, q, r, s
<1>4. p <= q
  <2> SUFFICES ASSUME q < p PROVE FALSE
      BY <1>1, <1>3
  <2>1. PICK k \in Nat : p = q + 1 + k
    <3>1. p - q - 1 \in Nat /\ p = q + 1 + (p - q - 1)
        BY <1>1, <1>3
    <3> QED
        BY <3>1
  <2>2. n * p = n * q + n + n * k /\ n * k \in Nat /\ n * q \in Nat
      BY <1>3, <2>1
  <2> QED
      BY <1>1, <1>2, <1>3, <2>2
<1>5. q <= p + i
  <2> SUFFICES ASSUME p + i < q PROVE FALSE
      BY <1>1, <1>3
  <2>1. PICK k \in Nat : q = p + i + 1 + k
    <3>1. q - (p + i + 1) \in Nat /\ q = p + i + 1 + (q - (p + i + 1))
        BY <1>1, <1>3
    <3> QED
        BY <3>1
  <2>2. n * q = n * p + n * i + n + n * k /\ n * k \in Nat /\ n * p \in Nat
      BY <1>1, <2>1
  <2>3. n * i >= i
    <3>1. PICK z \in Nat : n = 1 + z
      <4>1. n - 1 \in Nat /\ n = 1 + (n - 1)
          OBVIOUS
      <4> QED
          BY <4>1
    <3>2. n * i = i + z * i /\ z * i \in Nat
        BY <3>1
    <3> QED
        BY <3>2
  <2>4. n * i \in Nat
      OBVIOUS
  <2> QED
      BY <1>1, <1>2, <1>3, <2>2, <2>3, <2>4
<1> QED
    BY <1>1, <1>3, <1>4, <1>5 DEF d, p, q

(* Each packet is Step or Step + 1 units later than the one before it. *)
LEMMA TimeGrows ==
    ASSUME initTs \in Nat, NEW c \in Nat, NEW i \in Nat
    PROVE  /\ TrueTime(c) \in Nat /\ TrueTime(c + i) \in Nat
           /\ TrueTime(c) + i * Step <= TrueTime(c + i)
           /\ TrueTime(c + i) <= TrueTime(c) + i * (Step + 1)
<1> DEFINE p == c \div SeqMod
           q == (c + i) \div SeqMod
           u == c * Step
           v == i * Step
<1>1. SeqMod \in Nat \ {0} /\ Step \in Nat
    BY ObfsFacts
<1>2. p \in Nat /\ q \in Nat /\ p <= q /\ q <= p + i
    BY <1>1, DivGrows
<1>3. u \in Nat /\ v \in Nat /\ (c + i) * Step = u + v /\ i * (Step + 1) = v + i
    BY <1>1
<1>4. TrueTime(c) = initTs + u + p /\ TrueTime(c + i) = initTs + (c + i) * Step + q
    BY DEF TrueTime
<1>5. i * Step = v
    OBVIOUS
<1> HIDE DEF p, q, u, v
<1> QED
    BY <1>2, <1>3, <1>4, <1>5

(* Times order packets as their counters do. *)
LEMMA TimeOrder ==
    ASSUME initTs \in Nat, NEW c \in Nat, NEW d \in Nat
    PROVE  /\ TrueTime(c) \in Nat /\ TrueTime(d) \in Nat
           /\ c < d => TrueTime(c) < TrueTime(d)
           /\ c <= d => TrueTime(c) <= TrueTime(d)
           /\ c <= d => (d - c) * Step <= TrueTime(d) - TrueTime(c)
           /\ c <= d => TrueTime(d) - TrueTime(c) <= (d - c) * (Step + 1)
<1>1. TrueTime(c) \in Nat /\ TrueTime(d) \in Nat /\ Step \in Nat \ {0}
    BY TimeGrows, ObfsFacts
<1>2. ASSUME c <= d
      PROVE  /\ TrueTime(c) <= TrueTime(d)
             /\ c < d => TrueTime(c) < TrueTime(d)
             /\ (d - c) * Step <= TrueTime(d) - TrueTime(c)
             /\ TrueTime(d) - TrueTime(c) <= (d - c) * (Step + 1)
  <2> DEFINE i == d - c
             v == i * Step
             w == i * (Step + 1)
  <2>1. i \in Nat /\ c + i = d
      BY <1>2
  <2> HIDE DEF i
  <2>2. TrueTime(c) + v <= TrueTime(d) /\ TrueTime(d) <= TrueTime(c) + w
      BY <2>1, TimeGrows
  <2>3. v \in Nat /\ w \in Nat /\ (i # 0 => v # 0)
      BY <1>1, <2>1
  <2> HIDE DEF v, w
  <2>4. c < d => i # 0
      BY DEF i
  <2>5. v <= TrueTime(d) - TrueTime(c) /\ TrueTime(d) - TrueTime(c) <= w
        /\ TrueTime(c) <= TrueTime(d) /\ (c < d => TrueTime(c) < TrueTime(d))
      BY <1>1, <2>2, <2>3, <2>4
  <2> QED
      BY <2>5 DEF v, w, i
<1> QED
    BY <1>1, <1>2

(* A multiple of t closer to 0 than 2 * t. *)
LEMMA SmallMultiple ==
    ASSUME NEW t \in Nat \ {0}, NEW z \in Int, -(2 * t) < t * z, t * z < 2 * t
    PROVE  z \in {-1, 0, 1}
<1>1. CASE z >= 2
  <2>1. PICK y \in Nat : z = 2 + y
    <3>1. z - 2 \in Nat /\ z = 2 + (z - 2)
        BY <1>1
    <3> QED
        BY <3>1
  <2>2. t * z = 2 * t + t * y /\ t * y \in Nat
      BY <2>1
  <2> QED
      BY <2>2
<1>2. CASE z <= -2
  <2>1. PICK y \in Nat : z = -2 - y
    <3>1. -2 - z \in Nat /\ z = -2 - (-2 - z)
        BY <1>2
    <3> QED
        BY <3>1
  <2>2. t * z = -(2 * t) - t * y /\ t * y \in Nat
      BY <2>1
  <2> QED
      BY <2>2
<1> QED
    BY <1>1, <1>2

(* The timestamp of a packet less than half the circle away from highestTime  *)
(* h is extended to its true time, up to the window's epoch K; the exception  *)
(* is a packet from before the epoch, which is taken for one a circle later.  *)
LEMMA Nearest ==
    ASSUME NEW h \in Nat, NEW K \in Nat, NEW X \in Nat,
           2 * (X - (h + K * TsMod)) < TsMod, 2 * ((h + K * TsMod) - X) < TsMod
    PROVE  /\ X >= K * TsMod => Extended(X % TsMod, h) = X - K * TsMod
           /\ X < K * TsMod =>
                 /\ Extended(X % TsMod, h) = (X - K * TsMod) + TsMod
                 /\ Extended(X % TsMod, h) > h + (TsMod \div 2)
<1> DEFINE T == TsMod
           ts == X % T
           j == X \div T
           q == h \div T
           r == h % T
           half == T \div 2
           A == X - K * T
           z == (j - K) - q
<1>1. T \in Nat \ {0}
    BY ObfsFacts
<1>2. j \in Nat /\ ts \in 0..(T - 1) /\ X = T * j + ts
    BY <1>1, DivMod
<1>3. q \in Nat /\ r \in 0..(T - 1) /\ h = T * q + r
    BY <1>1, DivMod
<1>4. half \in Nat /\ (T = 2 * half \/ T = 2 * half + 1)
    BY <1>1
<1>5. K * T \in Nat /\ A \in Int /\ 2 * (A - h) < T /\ 2 * (h - A) < T /\ A = X - K * T
    BY <1>1
<1> DEFINE e == (h - r) + ts
<1>6. Extended(ts, h) = IF e + half < h THEN e + T
                        ELSE IF e > h + half /\ e >= T THEN e - T ELSE e
    BY DEF Extended
<1> HIDE DEF T, ts, j, q, r, half, A, e
<1>7. e = T * q + ts /\ T * q \in Nat
    BY <1>1, <1>3 DEF e
<1>8. A = e + T * z /\ z \in Int
  <2>1. T * z = T * j - K * T - T * q
      BY <1>1, <1>2, <1>3
  <2>2. T * j \in Int /\ T * q \in Int /\ K * T \in Int /\ ts \in Int
      BY <1>1, <1>2, <1>3
  <2>3. A = (T * j + ts) - K * T
      BY <1>2, <1>5
  <2>4. z \in Int
      BY <1>2, <1>3
  <2> HIDE DEF z
  <2> QED
      BY <1>7, <2>1, <2>2, <2>3, <2>4
<1> HIDE DEF z
<1>9. T * z \in Int
    BY <1>1, <1>8
<1>10. -(2 * T) < T * z /\ T * z < 2 * T
  <2>1. e \in Int /\ -T < h - e /\ h - e < T
      BY <1>1, <1>2, <1>3 DEF e
  <2> QED
      BY <1>1, <1>5, <1>8, <1>9, <2>1
<1>11. z \in {-1, 0, 1}
    BY <1>1, <1>8, <1>10, SmallMultiple
<1>12. e \in Nat /\ (q # 0 => e >= T) /\ (q = 0 => e < T)
  <2>1. q # 0 => T * q >= T
    <3> SUFFICES ASSUME q # 0 PROVE T * q >= T
        OBVIOUS
    <3>1. q - 1 \in Nat /\ q = (q - 1) + 1
        BY <1>3
    <3>2. T * q = T * (q - 1) + T /\ T * (q - 1) \in Nat
        BY <1>1, <3>1
    <3> QED
        BY <1>1, <3>2
  <2>2. q = 0 => T * q = 0
      BY <1>1
  <2> QED
      BY <1>1, <1>2, <1>7, <2>1, <2>2
<1>13. CASE z = 0
  <2>1. A = e
      BY <1>8, <1>13, <1>1, <1>12
  <2>2. ~(e + half < h) /\ ~(e > h + half)
      BY <1>1, <1>4, <1>5, <1>12, <2>1
  <2>3. Extended(ts, h) = A /\ A >= 0
      BY <1>6, <1>12, <2>1, <2>2
  <2> QED
      BY <1>5, <2>3 DEF T, ts, half
<1>14. CASE z = 1
  <2>1. A = e + T
      BY <1>8, <1>14, <1>1, <1>12
  <2>2. e + half < h
      BY <1>1, <1>4, <1>5, <1>12, <2>1
  <2>3. Extended(ts, h) = A /\ A >= 0
      BY <1>1, <1>6, <1>12, <2>1, <2>2
  <2> QED
      BY <1>5, <2>3 DEF T, ts, half
<1>15. CASE z = -1
  <2>1. A = e - T
      BY <1>8, <1>15, <1>1, <1>12
  <2>2. e > h + half /\ ~(e + half < h)
      BY <1>1, <1>4, <1>5, <1>12, <2>1
  <2>3. CASE e >= T
    <3>1. Extended(ts, h) = A /\ A >= 0
        BY <1>1, <1>6, <1>12, <2>1, <2>2, <2>3
    <3> QED
        BY <1>5, <3>1 DEF T, ts, half
  <2>4. CASE e < T
    <3>1. Extended(ts, h) = A + T /\ A < 0 /\ Extended(ts, h) > h + half
        BY <1>1, <1>6, <1>12, <2>1, <2>2, <2>4
    <3> QED
        BY <1>5, <3>1 DEF T, ts, half
  <2> QED
      BY <1>1, <1>12, <2>3, <2>4
<1> QED
    BY <1>11, <1>13, <1>14, <1>15

(* The first packet's timestamp is its own extension. *)
LEMMA FirstExtended ==
    ASSUME NEW ts \in 0..(TsMod - 1)
    PROVE  Extended(ts, ts) = ts
<1>1. ts % TsMod = ts /\ TsMod \div 2 \in Nat /\ ts \in Nat
    BY ObfsFacts
<1> DEFINE half == TsMod \div 2
<1>2. (ts - (ts % TsMod)) + ts = ts
    BY <1>1
<1>3. Extended(ts, ts) = IF ts + half < ts THEN ts + TsMod
                         ELSE IF ts > ts + half /\ ts >= TsMod THEN ts - TsMod ELSE ts
    BY <1>2 DEF Extended
<1> HIDE DEF half
<1>4. half \in Nat
    BY <1>1 DEF half
<1> QED
    BY <1>1, <1>3, <1>4

(* The extension is never negative. *)
LEMMA ExtendedNat ==
    ASSUME NEW ts \in 0..(TsMod - 1), NEW h \in Nat
    PROVE  Extended(ts, h) \in Nat
<1>1. TsMod \in Nat \ {0} /\ h % TsMod \in 0..(TsMod - 1) /\ h = TsMod * (h \div TsMod) + (h % TsMod)
      /\ h \div TsMod \in Nat
    BY ObfsFacts, DivMod
<1>2. h - (h % TsMod) \in Nat
  <2>1. TsMod * (h \div TsMod) \in Nat
      BY <1>1
  <2> QED
      BY <1>1, <2>1
<1> DEFINE e == (h - (h % TsMod)) + ts
           half == TsMod \div 2
<1>3. Extended(ts, h) = IF e + half < h THEN e + TsMod
                        ELSE IF e > h + half /\ e >= TsMod THEN e - TsMod ELSE e
    BY DEF Extended
<1>4. e \in Nat
    BY <1>1, <1>2
<1> HIDE DEF e, half
<1> QED
    BY <1>1, <1>3, <1>4

(* A non-empty set of naturals has a least element. *)
LEMMA LeastExists ==
    ASSUME NEW S \in SUBSET Nat, S # {}
    PROVE  \E x \in S : \A y \in S : x =< y
<1>1. PICK x \in S : \A y \in S : ~(<<y, x>> \in OpToRel(<, Nat))
    BY NatLessThanWellFounded, WFMin
<1>2. \A y \in S : ~(y < x)
    BY <1>1 DEF OpToRel
<1> QED
    BY <1>2

(* The entry of packet d in a window that is K epochs off. *)
EntryOf(d, K) == [nonce |-> Nonce(d), time |-> TrueTime(d) - K * TsMod]

(* Fewer than replayWindowMaxEntries packets other than c fit into a window   *)
(* that c is in.                                                              *)
LEMMA RoomInWindow ==
    ASSUME initTs \in Nat, NEW c \in Nat, NEW K \in Nat, NEW L \in Int, NEW entries,
           L <= TrueTime(c), TrueTime(c) <= L + Span,
           \A x \in entries : \E d \in Nat \ {c} :
               x = EntryOf(d, K) /\ L <= TrueTime(d) /\ TrueTime(d) <= L + Span
    PROVE  Cardinality(entries) < MaxEntries
<1>1. Step \in Nat \ {0} /\ Span \in Nat /\ MaxEntries \in Nat \ {0} /\ Span < Step * MaxEntries
    BY ObfsFacts
<1> DEFINE S == {d \in Nat : L <= TrueTime(d)}
<1>2. PICK lo \in S : \A d \in S : lo =< d
  <2>1. S \in SUBSET Nat /\ c \in S
      OBVIOUS
  <2> QED
      BY <2>1, LeastExists
<1> DEFINE I == lo..(lo + MaxEntries - 1)
           D == I \ {c}
<1>3. ASSUME NEW d \in Nat, L <= TrueTime(d), TrueTime(d) <= L + Span PROVE d \in I
  <2>1. lo \in Nat /\ lo <= d /\ L <= TrueTime(lo)
      BY <1>2, <1>3
  <2>2. /\ (d - lo) * Step <= TrueTime(d) - TrueTime(lo)
        /\ TrueTime(d) \in Nat /\ TrueTime(lo) \in Nat
      BY <2>1, TimeOrder
  <2>3. (d - lo) * Step \in Int /\ (d - lo) * Step <= Span
    <3> DEFINE w == (d - lo) * Step
    <3>1. w \in Int
        BY <1>1, <2>1
    <3>2. w <= TrueTime(d) - TrueTime(lo)
        BY <2>2
    <3> HIDE DEF w
    <3>3. w <= Span
        BY <1>1, <1>3, <2>1, <2>2, <3>1, <3>2
    <3> QED
        BY <3>1, <3>3 DEF w
  <2>4. d - lo < MaxEntries
    <3> SUFFICES ASSUME d - lo >= MaxEntries PROVE FALSE
        BY <1>1, <2>1
    <3>1. PICK y \in Nat : d - lo = MaxEntries + y
      <4>1. (d - lo) - MaxEntries \in Nat /\ d - lo = MaxEntries + ((d - lo) - MaxEntries)
          BY <1>1, <2>1
      <4> QED
          BY <4>1
    <3>2. (d - lo) * Step = Step * MaxEntries + y * Step
        BY <1>1, <3>1
    <3>3. y * Step \in Nat /\ Step * MaxEntries \in Nat
        BY <1>1
    <3> QED
        BY <1>1, <2>3, <3>2, <3>3
  <2> QED
      BY <1>1, <2>1, <2>4
<1>4. c \in I
    BY <1>3
<1>5. IsFiniteSet(I) /\ Cardinality(I) = MaxEntries
  <2>1. lo \in Int /\ lo + MaxEntries - 1 \in Int /\ ~(lo > lo + MaxEntries - 1)
        /\ (lo + MaxEntries - 1) - lo + 1 = MaxEntries
      BY <1>1
  <2> QED
      BY <2>1, FS_Interval
<1> HIDE DEF I
<1>6. IsFiniteSet(D) /\ Cardinality(D) = MaxEntries - 1
    BY <1>4, <1>5, FS_RemoveElement
<1>7. \A x \in entries : \E d \in D : x = EntryOf(d, K)
    BY <1>3
<1> HIDE DEF D
<1> DEFINE f == [x \in entries |-> CHOOSE d \in D : x = EntryOf(d, K)]
<1>8. \A x \in entries : f[x] \in D /\ x = EntryOf(f[x], K)
    BY <1>7
<1>9. f \in Injection(entries, D)
  <2>1. f \in [entries -> D]
      BY <1>8
  <2>2. \A x, y \in entries : f[x] = f[y] => x = y
      BY <1>8
  <2> HIDE DEF f
  <2> QED
      BY <2>1, <2>2 DEF Injection, IsInjective
<1> HIDE DEF f
<1>10. IsFiniteSet(entries) /\ Cardinality(entries) <= Cardinality(D)
    BY <1>6, <1>9, FS_Injection
<1>11. Cardinality(entries) \in Nat
    BY <1>10, FS_CardinalityType
<1> QED
    BY <1>1, <1>6, <1>10, <1>11

(* Products keep the order. *)
LEMMA TimesOrder ==
    ASSUME NEW a \in Nat, NEW b \in Nat, a <= b, NEW k \in Nat
    PROVE  a * k \in Nat /\ b * k \in Nat /\ a * k <= b * k
<1>1. b - a \in Nat /\ b = a + (b - a)
    OBVIOUS
<1> DEFINE y == b - a
<1> HIDE DEF y
<1>2. y \in Nat /\ b = a + y
    BY <1>1 DEF y
<1>3. b * k = a * k + y * k /\ y * k \in Nat /\ a * k \in Nat
    BY <1>2
<1> QED
    BY <1>3

(* A packet that can still arrive is less than half the circle away from the  *)
(* one that highestTime belongs to, so accept extends its timestamp right.    *)
LEMMA WindowTimes ==
    ASSUME TypeOK, Drawn, NEW K \in Nat, NEW m \in wire, Window(K, m),
           NEW c \in wire, Alive(c, count)
    PROVE  /\ c \in Nat /\ m \in Nat /\ TrueTime(c) \in Nat /\ TrueTime(m) \in Nat
           /\ K * TsMod \in Nat
           /\ TrueTime(c) >= K * TsMod =>
                  Extended(TsOf(c), highestTime) = TrueTime(c) - K * TsMod
           /\ TrueTime(c) < K * TsMod =>
                  /\ Extended(TsOf(c), highestTime) = (TrueTime(c) - K * TsMod) + TsMod
                  /\ Extended(TsOf(c), highestTime) > highestTime + (TsMod \div 2)
<1>1. /\ initTs \in Nat /\ count \in Nat /\ wire \subseteq 0..(count - 1)
      /\ highestTime \in Nat
    BY ObfsFacts DEF Drawn, TypeOK
<1>2. c \in Nat /\ m \in Nat /\ c <= count - 1 /\ m <= count - 1 /\ newest \in Nat
    BY <1>1 DEF Window, Near
<1>3. TrueTime(c) \in Nat /\ TrueTime(m) \in Nat /\ K * TsMod \in Nat
    BY <1>1, <1>2, TimeOrder, ObfsFacts
<1>4. c <= m => m - c \in Nat /\ m - c <= Lifetime + Burst
    BY <1>1, <1>2, ObfsFacts DEF Alive
<1>5. m <= c => c - m \in Nat /\ c - m <= Lifetime + Burst
  <2>1. m = newest \/ newest - m < Lifetime
      BY DEF Window, Near
  <2>2. count - m <= Lifetime \/ count - newest <= Burst + 1
      BY DEF Window, Near
  <2> QED
      BY <1>1, <1>2, <2>1, <2>2, ObfsFacts
<1> DEFINE B == (Lifetime + Burst) * (Step + 1)
<1>6. B \in Nat /\ 2 * B < TsMod /\ Lifetime + Burst \in Nat /\ Step + 1 \in Nat
    BY ObfsFacts
<1> HIDE DEF B
<1>7. TrueTime(c) - TrueTime(m) <= B /\ TrueTime(m) - TrueTime(c) <= B
  <2>1. CASE c <= m
    <3> DEFINE w == (m - c) * (Step + 1)
    <3>1. TrueTime(m) - TrueTime(c) <= w /\ TrueTime(c) <= TrueTime(m)
        BY <1>1, <1>2, <2>1, TimeOrder
    <3>2. w \in Nat /\ w <= B
        BY <1>4, <1>6, <2>1, TimesOrder DEF B
    <3> HIDE DEF w
    <3> QED
        BY <1>3, <1>6, <3>1, <3>2
  <2>2. CASE m <= c
    <3> DEFINE w == (c - m) * (Step + 1)
    <3>1. TrueTime(c) - TrueTime(m) <= w /\ TrueTime(m) <= TrueTime(c)
        BY <1>1, <1>2, <2>2, TimeOrder
    <3>2. w \in Nat /\ w <= B
        BY <1>5, <1>6, <2>2, TimesOrder DEF B
    <3> HIDE DEF w
    <3> QED
        BY <1>3, <1>6, <3>1, <3>2
  <2> QED
      BY <1>2, <2>1, <2>2
<1>8. highestTime + K * TsMod = TrueTime(m)
    BY DEF Window
<1>9. TsMod \in Nat
    BY ObfsFacts
<1>10. /\ 2 * (TrueTime(c) - (highestTime + K * TsMod)) < TsMod
       /\ 2 * ((highestTime + K * TsMod) - TrueTime(c)) < TsMod
    BY <1>3, <1>6, <1>7, <1>8, <1>9
<1>11. TsOf(c) = TrueTime(c) % TsMod
    BY DEF TsOf, TrueTime
<1> QED
    BY <1>1, <1>2, <1>3, <1>10, <1>11, Nearest

(* A nonce names one packet of the session. *)
LEMMA NonceNames ==
    ASSUME Drawn, NEW c \in wire, NEW d \in wire, Nonce(c) = Nonce(d)
    PROVE  c = d
<1>1. initSeq \in Nat /\ initTs \in Nat /\ count \in 0..MaxCount /\ wire \subseteq 0..(count - 1)
    BY DEF Drawn
<1>2. /\ c \in Nat /\ d \in Nat /\ SeqMod * TsMod \in Nat
      /\ c < SeqMod * TsMod /\ d < SeqMod * TsMod
  <2>1. c \in Nat /\ d \in Nat /\ c < MaxCount /\ d < MaxCount
      BY <1>1, ObfsFacts
  <2>2. SeqMod * TsMod \in Nat /\ MaxCount <= SeqMod * TsMod /\ MaxCount \in Nat
      BY ObfsAssumption
  <2> QED
      BY <2>1, <2>2
<1>3. ~(c < d) /\ ~(d < c)
    BY <1>1, <1>2, NonceInjective
<1> QED
    BY <1>2, <1>3

(* Nothing of the packets' headers changes while the ObfsState stays. *)
LEMMA SameHeaders ==
    ASSUME initSeq' = initSeq, initTs' = initTs
    PROVE  \A d : /\ TrueTime(d)' = TrueTime(d) /\ Nonce(d)' = Nonce(d)
                  /\ (\A n : Alive(d, n)' = Alive(d, n))
    BY DEF TrueTime, Nonce, obfsBuildNonce, SeqOf, TsOf, Alive

(* accept, step by step, once the window is initialized. *)
LEMMA DeliverShape ==
    ASSUME NEW c, pinned = "peer", Deliver(c)
    PROVE  LET e == Extended(TsOf(c), highestTime)
               h1 == IF e > highestTime THEN e ELSE highestTime
               kept == Purge(seen, h1)
           IN  /\ c \in wire /\ Alive(c, count)
               /\ pinned' = pinned /\ epochKnown' = epochKnown /\ UNCHANGED sender
               /\ ~Fresh(c) \/ ~InWindow(e, highestTime) =>
                     Refuse(c) /\ UNCHANGED <<highestTime, seen>>
               /\ Fresh(c) /\ InWindow(e, highestTime) /\ HasRoom(kept) =>
                     /\ highestTime' = h1 /\ UNCHANGED refused
                     /\ seen' = kept \cup {[nonce |-> Nonce(c), time |-> e]}
                     /\ accepted' = accepted \cup {c}
                     /\ newest' = IF c > newest THEN c ELSE newest
                     /\ replayed' = IF c \in accepted THEN replayed \cup {c} ELSE replayed
    BY DEF Deliver

(* The purge drops only entries that are too old for the window, and when the *)
(* table was full all that are.                                               *)
LEMMA Purged ==
    ASSUME NEW entries, IsFiniteSet(entries), NEW h \in Nat, \A x \in entries : x.time \in Nat
    PROVE  /\ Purge(entries, h) \subseteq entries /\ IsFiniteSet(Purge(entries, h))
           /\ \A x \in entries : x \notin Purge(entries, h) => x.time + Span < h
           /\ HasRoom(Purge(entries, h)) \/ \A x \in Purge(entries, h) : x.time + Span >= h
<1>1. Cardinality(entries) \in Nat /\ MaxEntries \in Nat /\ Span \in Nat
    BY FS_CardinalityType, ObfsFacts
<1>2. \A x \in entries : x.time >= Cutoff(h) <=> x.time + Span >= h
    BY <1>1 DEF Cutoff
<1>3. CASE Cardinality(entries) >= MaxEntries
  <2>1. Purge(entries, h) = {x \in entries : x.time >= Cutoff(h)}
      BY <1>3 DEF Purge
  <2>2. Purge(entries, h) \subseteq entries
      BY <2>1
  <2>3. IsFiniteSet(Purge(entries, h))
      BY <2>2, FS_Subset
  <2>4. \A x \in entries : x \notin Purge(entries, h) => x.time + Span < h
      BY <1>1, <1>2, <2>1
  <2>5. \A x \in Purge(entries, h) : x.time + Span >= h
      BY <1>2, <2>1
  <2> QED
      BY <2>2, <2>3, <2>4, <2>5
<1>4. CASE ~(Cardinality(entries) >= MaxEntries)
  <2>1. Purge(entries, h) = entries
      BY <1>4 DEF Purge
  <2>2. HasRoom(entries)
      BY <1>1, <1>4 DEF HasRoom
  <2> QED
      BY <2>1, <2>2
<1> QED
    BY <1>3, <1>4

(* The receiver's state is of its types. *)
LEMMA EntryTypes ==
    ASSUME TypeOK
    PROVE  /\ \A x \in seen : x.time \in Nat /\ x = [nonce |-> x.nonce, time |-> x.time]
           /\ \A c \in Nat : initTs \in Nat /\ initSeq \in Nat /\ TsOf(c) \in 0..(TsMod - 1)
                                /\ Nonce(c) \in (0..(SeqMod - 1)) \X (0..(TsMod - 1))
<1>1. \A x \in seen : x.time \in Nat /\ x = [nonce |-> x.nonce, time |-> x.time]
    BY DEF TypeOK
<1>2. initTs \in Nat /\ initSeq \in Nat
    BY ObfsAssumption DEF TypeOK
<1>3. ASSUME NEW c \in Nat
      PROVE  TsOf(c) \in 0..(TsMod - 1) /\ SeqOf(c) \in 0..(SeqMod - 1)
  <2>1. TrueTime(c) \in Nat /\ initSeq + c \in Nat
      BY <1>2, TimeOrder
  <2>2. TrueTime(c) % TsMod \in 0..(TsMod - 1)
      BY <2>1, ObfsFacts, DivMod
  <2>3. (initSeq + c) % SeqMod \in 0..(SeqMod - 1)
      BY <2>1, ObfsFacts, DivMod
  <2> QED
      BY <2>2, <2>3 DEF TsOf, TrueTime, SeqOf
<1> QED
    BY <1>1, <1>2, <1>3 DEF Nonce, obfsBuildNonce

(* Steps that change nothing. *)
LEMMA UnchangedInv == ASSUME RInv, UNCHANGED vars PROVE RInv'
<1> USE DEF vars, sender, receiver
<1>1. TypeOK' /\ Drawn' /\ AcceptedOnce' /\ InWindowAccepted'
    BY DEF RInv, TypeOK, Drawn, AcceptedOnce, InWindowAccepted
<1>2. \A d : TrueTime(d)' = TrueTime(d) /\ Nonce(d)' = Nonce(d) /\ (\A n : Alive(d, n)' = Alive(d, n))
    BY SameHeaders
<1>3. ASSUME NEW K \in Nat, NEW m \in wire, Window(K, m) PROVE Window(K, m)'
    BY <1>2, <1>3 DEF Window, Near, Entry, Remembered
<1>4. Pinned'
    BY <1>3 DEF RInv, Pinned
<1> QED
    BY <1>1, <1>4 DEF RInv

(* The refusals of an initialized window: a packet in the table was accepted, *)
(* one behind the window is too old.                                          *)
LEMMA RefuseInv ==
    ASSUME RInv, pinned = "peer", NEW c \in wire, Deliver(c),
           LET e == Extended(TsOf(c), highestTime)
           IN  ~Fresh(c) \/ ~InWindow(e, highestTime)
    PROVE  RInv'
<1> DEFINE e == Extended(TsOf(c), highestTime)
<1>1. /\ Alive(c, count) /\ pinned' = pinned /\ epochKnown' = epochKnown /\ UNCHANGED sender
      /\ Refuse(c) /\ UNCHANGED <<highestTime, seen>>
    BY DeliverShape
<1>2. PICK K \in Nat, m \in wire : Window(K, m)
    BY DEF RInv, Pinned
<1>3. TypeOK /\ Drawn
    BY DEF RInv
<1>4. /\ c \in Nat /\ m \in Nat /\ TrueTime(c) \in Nat /\ TrueTime(m) \in Nat
      /\ K * TsMod \in Nat /\ highestTime \in Nat /\ newest \in Nat /\ initTs \in Nat
  <2>1. newest \in wire /\ wire \subseteq Nat
      BY <1>2, <1>3 DEF Window, Near, Drawn
  <2> QED
      BY <1>1, <1>2, <1>3, <2>1, WindowTimes, EntryTypes DEF TypeOK
<1>5. c \in accepted \/ ~TrulyInWindow(c)
  <2>1. CASE ~Fresh(c)
    <3>1. PICK x \in seen : x.nonce = Nonce(c)
        BY <2>1 DEF Fresh
    <3>2. PICK d \in wire : x.nonce = Nonce(d) /\ (Alive(d, count) => d \in accepted)
        BY <1>2 DEF Window, Entry
    <3>3. c = d
        BY <1>3, <3>1, <3>2, NonceNames
    <3> QED
        BY <1>1, <3>2, <3>3
  <2>2. CASE ~InWindow(e, highestTime)
    <3>1. e \in Nat
        BY <1>3, <1>4, EntryTypes, ExtendedNat
    <3>2. e + Span < highestTime
        BY <1>4, <2>2, <3>1, ObfsFacts DEF InWindow
    <3>3. TrueTime(c) >= K * TsMod /\ e = TrueTime(c) - K * TsMod
      <4>1. TsMod \div 2 \in Nat /\ Span \in Nat
          BY ObfsFacts
      <4>2. ~(e > highestTime + (TsMod \div 2))
          BY <1>4, <3>1, <3>2, <4>1
      <4> QED
          BY <1>1, <1>2, <1>3, <1>4, <4>2, WindowTimes
    <3>4. TrueTime(m) <= TrueTime(newest) /\ TrueTime(newest) \in Nat
        BY <1>2, <1>4, TimeOrder DEF Window, Near
    <3>5. highestTime = TrueTime(m) - K * TsMod
        BY <1>2, <1>4 DEF Window
    <3>6. TrueTime(c) + Span < TrueTime(newest)
        BY <1>4, <3>2, <3>3, <3>4, <3>5, ObfsFacts
    <3>7. newest # None
        BY <1>4, ObfsFacts
    <3> QED
        BY <1>4, <3>4, <3>6, <3>7, ObfsFacts DEF TrulyInWindow
  <2> QED
      BY <2>1, <2>2
<1>6. UNCHANGED vars
    BY <1>1, <1>5 DEF Refuse, vars, receiver
<1> QED
    BY <1>6, UnchangedInv

(* A packet that accept finds fresh and in the window has room in the table:  *)
(* what the purge keeps is in the window too, and the table is larger.        *)
LEMMA AcceptRoom ==
    ASSUME TypeOK, Drawn, NEW K \in Nat, NEW m \in wire, Window(K, m), NEW c \in wire,
           Alive(c, count), Fresh(c), NEW e \in Nat, e = Extended(TsOf(c), highestTime),
           InWindow(e, highestTime),
           NEW h1 \in Nat, h1 = IF e > highestTime THEN e ELSE highestTime
    PROVE  HasRoom(Purge(seen, h1))
<1>1. /\ c \in Nat /\ m \in Nat /\ TrueTime(c) \in Nat /\ TrueTime(m) \in Nat
      /\ K * TsMod \in Nat /\ highestTime \in Nat /\ initTs \in Nat /\ wire \subseteq Nat
  <2>1. wire \subseteq Nat /\ highestTime \in Nat /\ initTs \in Nat
      BY DEF TypeOK, Drawn
  <2> QED
      BY <2>1, WindowTimes
<1>2. /\ Purge(seen, h1) \subseteq seen
      /\ HasRoom(Purge(seen, h1)) \/ \A x \in Purge(seen, h1) : x.time + Span >= h1
    BY EntryTypes, Purged DEF Window
<1>3. Span \in Nat /\ TsMod \in Nat /\ 2 * Span < TsMod
    BY ObfsFacts
<1>4. e + Span >= h1 /\ e <= h1 /\ highestTime <= h1
    BY <1>1, <1>3 DEF InWindow
<1> SUFFICES ASSUME \A x \in Purge(seen, h1) : x.time + Span >= h1
             PROVE  HasRoom(Purge(seen, h1))
    BY <1>2
<1>5. CASE TrueTime(c) < K * TsMod
  <2>1. e > highestTime + (TsMod \div 2)
      BY <1>5, WindowTimes
  <2>2. TsMod \div 2 \in Nat /\ Span <= TsMod \div 2
      BY <1>3
  <2>3. ASSUME NEW x \in Purge(seen, h1) PROVE FALSE
    <3>1. x \in seen /\ x.time \in Nat /\ x.time <= highestTime
        BY <1>2, EntryTypes DEF Window, Entry
    <3> QED
        BY <1>1, <1>3, <1>4, <2>1, <2>2, <3>1
  <2>4. Purge(seen, h1) = {}
      BY <2>3
  <2>5. Cardinality({}) = 0
      BY FS_EmptySet
  <2> QED
      BY <2>4, <2>5, ObfsFacts DEF HasRoom
<1>6. CASE TrueTime(c) >= K * TsMod
  <2>1. e = TrueTime(c) - K * TsMod
      BY <1>6, WindowTimes
  <2> DEFINE L == (h1 + K * TsMod) - Span
  <2>2. L \in Int /\ L <= TrueTime(c) /\ TrueTime(c) <= L + Span
      BY <1>1, <1>3, <1>4, <2>1
  <2>3. ASSUME NEW x \in Purge(seen, h1)
        PROVE  \E d \in Nat \ {c} :
                   x = EntryOf(d, K) /\ L <= TrueTime(d) /\ TrueTime(d) <= L + Span
    <3>1. /\ x \in seen /\ x.time \in Nat /\ x.time <= highestTime
          /\ x = [nonce |-> x.nonce, time |-> x.time]
        BY <1>2, EntryTypes DEF Window, Entry
    <3>2. PICK d \in wire : /\ x.nonce = Nonce(d)
                            /\ x.time + K * TsMod = TrueTime(d) \/ x.time + Span < highestTime
        BY <3>1 DEF Window, Entry
    <3>3. d \in Nat /\ TrueTime(d) \in Nat
        BY <1>1, TimeOrder
    <3>4. x.time + K * TsMod = TrueTime(d)
        BY <1>1, <1>3, <1>4, <3>1, <3>2
    <3>5. x.time = TrueTime(d) - K * TsMod
        BY <1>1, <3>1, <3>3, <3>4
    <3>6. d # c
        BY <3>1, <3>2 DEF Fresh
    <3>7. L <= TrueTime(d) /\ TrueTime(d) <= L + Span
      <4>1. x.time + Span >= h1
          OBVIOUS
      <4> QED
          BY <1>1, <1>3, <1>4, <3>1, <3>4, <4>1
    <3>8. x = EntryOf(d, K)
        BY <3>1, <3>2, <3>5 DEF EntryOf
    <3> QED
        BY <3>3, <3>6, <3>7, <3>8
  <2> HIDE DEF L
  <2>4. Cardinality(Purge(seen, h1)) < MaxEntries
      BY <1>1, <2>2, <2>3, RoomInWindow
  <2> QED
      BY <2>4 DEF HasRoom
<1> QED
    BY <1>1, <1>5, <1>6

(* A packet is let in: the window follows it, in its own epoch or, when it    *)
(* comes from before the first packet's wrap, in the epoch before.            *)
LEMMA AcceptInv ==
    ASSUME RInv, pinned = "peer", NEW c \in wire, Deliver(c), Fresh(c),
           InWindow(Extended(TsOf(c), highestTime), highestTime)
    PROVE  RInv'
<1> DEFINE e == Extended(TsOf(c), highestTime)
           h1 == IF e > highestTime THEN e ELSE highestTime
           kept == Purge(seen, h1)
           new == [nonce |-> Nonce(c), time |-> e]
<1>1. PICK K \in Nat, m \in wire : Window(K, m)
    BY DEF RInv, Pinned
<1>2. TypeOK /\ Drawn
    BY DEF RInv
<1>3. /\ Alive(c, count) /\ pinned' = pinned /\ epochKnown' = epochKnown /\ UNCHANGED sender
      /\ HasRoom(kept) =>
            /\ highestTime' = h1 /\ UNCHANGED refused /\ seen' = kept \cup {new}
            /\ accepted' = accepted \cup {c}
            /\ newest' = IF c > newest THEN c ELSE newest
            /\ replayed' = IF c \in accepted THEN replayed \cup {c} ELSE replayed
    BY DeliverShape
<1>4. /\ c \in Nat /\ m \in Nat /\ TrueTime(c) \in Nat /\ TrueTime(m) \in Nat
      /\ K * TsMod \in Nat /\ highestTime \in Nat /\ newest \in Nat /\ newest \in wire
      /\ initTs \in Nat /\ count \in Nat /\ wire \subseteq 0..(count - 1) /\ wire \subseteq Nat
  <2>1. newest \in wire /\ wire \subseteq Nat /\ wire \subseteq 0..(count - 1) /\ count \in Nat
      BY <1>1, <1>2, ObfsFacts DEF Window, Near, Drawn
  <2> QED
      BY <1>1, <1>2, <1>3, <2>1, WindowTimes, EntryTypes DEF TypeOK
<1>5. e \in Nat
    BY <1>2, <1>4, EntryTypes, ExtendedNat
<1>6. h1 \in Nat /\ highestTime <= h1 /\ e <= h1
    BY <1>4, <1>5
<1>7. HasRoom(kept)
    BY <1>1, <1>2, <1>3, <1>5, <1>6, AcceptRoom
<1>8. /\ kept \subseteq seen /\ IsFiniteSet(kept)
      /\ \A x \in seen : x.time \in Nat /\ (x \notin kept => x.time + Span < h1)
  <2>1. IsFiniteSet(seen) /\ \A x \in seen : x.time \in Nat
      BY <1>1, <1>2, EntryTypes DEF Window
  <2> QED
      BY <1>6, <2>1, Purged
<1>9. highestTime' = h1 /\ seen' = kept \cup {new} /\ accepted' = accepted \cup {c}
      /\ newest' = IF c > newest THEN c ELSE newest
    BY <1>3, <1>7
<1>10. refused' = refused
    BY <1>3, <1>7
<1>11. replayed' = IF c \in accepted THEN replayed \cup {c} ELSE replayed
    BY <1>3, <1>7
<1>12. new.nonce = Nonce(c) /\ new.time = e
    OBVIOUS
<1>13. IsFiniteSet(seen')
    BY <1>8, <1>9, FS_AddElement
<1>14. TypeOK'
  <2>1. new \in [nonce : (0..(SeqMod - 1)) \X (0..(TsMod - 1)), time : Nat]
      BY <1>2, <1>4, <1>5, EntryTypes
  <2>2. kept \subseteq [nonce : (0..(SeqMod - 1)) \X (0..(TsMod - 1)), time : Nat]
      BY <1>2, <1>8 DEF TypeOK
  <2> HIDE DEF new, kept, h1, e
  <2> QED
      BY <1>2, <1>3, <1>6, <1>9, <1>10, <1>11, <2>1, <2>2 DEF TypeOK, sender
<1>15. Drawn'
    BY <1>2, <1>3 DEF Drawn, sender
<1>16. \A d : TrueTime(d)' = TrueTime(d) /\ Nonce(d)' = Nonce(d) /\ (\A n : Alive(d, n)' = Alive(d, n))
    BY <1>3, SameHeaders DEF sender
<1>17. UNCHANGED <<count, wire>>
    BY <1>3 DEF sender
<1>18. Span \in Nat /\ TsMod \in Nat /\ 2 * Span < TsMod /\ TsMod \div 2 \in Nat
       /\ Span <= TsMod \div 2 /\ Lifetime \in Nat
    BY ObfsFacts
<1>19. count - c <= Lifetime
    BY <1>3 DEF Alive
<1> HIDE DEF new, kept, h1
<1>20. CASE TrueTime(c) >= K * TsMod
  <2>0. PICK m2 \in wire : m2 = IF e > highestTime THEN c ELSE m
      OBVIOUS
  <2>1. e + K * TsMod = TrueTime(c) /\ highestTime + K * TsMod = TrueTime(m)
      BY <1>1, <1>2, <1>3, <1>4, <1>20, WindowTimes DEF Window
  <2> HIDE DEF e
  <2>2. h1 + K * TsMod = TrueTime(m2)
      BY <1>4, <1>5, <2>0, <2>1 DEF h1
  <2>3. m2 \in wire /\ m2 \in Nat /\ TrueTime(m2) \in Nat /\ TrueTime(m) <= TrueTime(m2)
      BY <1>4, <1>5, <2>0, <2>1
  <2>4. e > highestTime <=> c > m
    <3>1. e > highestTime <=> TrueTime(c) > TrueTime(m)
        BY <1>4, <1>5, <2>1
    <3>2. TrueTime(c) > TrueTime(m) <=> c > m
      <4>1. c < m => TrueTime(c) < TrueTime(m)
          BY <1>4, TimeOrder
      <4>2. m < c => TrueTime(m) < TrueTime(c)
          BY <1>4, TimeOrder
      <4> QED
          BY <1>4, <4>1, <4>2
    <3> QED
        BY <3>1, <3>2
  <2>5. Near(m2)'
    <3>1. m <= newest /\ (m = newest \/ newest - m < Lifetime)
          /\ (count - m <= Lifetime \/ count - newest <= Burst + 1)
        BY <1>1 DEF Window, Near
    <3>2. newest <= count - 1 /\ c <= count - 1
        BY <1>4
    <3>3. CASE c > newest
      <4>1. m2 = c /\ newest' = c
          BY <1>4, <1>9, <2>0, <2>4, <3>1, <3>3
      <4> QED
          BY <1>4, <1>17, <1>19, <4>1 DEF Near
    <3>4. CASE c <= newest /\ c > m
      <4>1. m2 = c /\ newest' = newest
          BY <1>4, <1>9, <2>0, <2>4, <3>1, <3>4
      <4>2. c = newest \/ newest - c < Lifetime
          BY <1>4, <1>18, <1>19, <3>2, <3>4
      <4> QED
          BY <1>4, <1>17, <1>19, <3>4, <4>1, <4>2 DEF Near
    <3>5. CASE c <= newest /\ c <= m
      <4>1. m2 = m /\ newest' = newest
          BY <1>4, <1>9, <2>0, <2>4, <3>1, <3>5
      <4> QED
          BY <1>4, <1>17, <3>1, <4>1 DEF Near
    <3> QED
        BY <1>4, <3>3, <3>4, <3>5
  <2>6. ASSUME NEW x \in seen' PROVE Entry(x, K)'
    <3>1. CASE x = new
      <4>1. x.time <= highestTime' /\ x.nonce = Nonce(c) /\ x.time + K * TsMod = TrueTime(c)
          BY <1>6, <1>9, <1>12, <2>1, <3>1
      <4> QED
          BY <1>9, <1>16, <1>17, <4>1 DEF Entry
    <3>2. CASE x \in seen
      <4>1. x.time <= highestTime /\ x.time \in Nat
          BY <1>1, <1>8, <3>2 DEF Window, Entry
      <4>2. PICK d \in wire : /\ x.nonce = Nonce(d) /\ (Alive(d, count) => d \in accepted)
                              /\ x.time + K * TsMod = TrueTime(d) \/ x.time + Span < highestTime
          BY <1>1, <3>2 DEF Window, Entry
      <4>3. x.time <= h1 /\ (x.time + Span < highestTime => x.time + Span < h1)
          BY <1>4, <1>6, <1>18, <4>1
      <4> QED
          BY <1>9, <1>16, <1>17, <4>2, <4>3 DEF Entry
    <3> QED
        BY <1>8, <1>9, <3>1, <3>2
  <2>7. ASSUME epochKnown'
        PROVE  /\ (\A d \in 0..(count - 1) : Alive(d, count) => TrueTime(d) >= K * TsMod)'
               /\ \A d \in accepted' : Remembered(d, K, m2)'
    <3>1. epochKnown
        BY <1>3, <2>7
    <3>2. \A d \in 0..(count - 1) : Alive(d, count) => TrueTime(d) >= K * TsMod
        BY <1>1, <3>1 DEF Window
    <3>3. ASSUME NEW d \in accepted' PROVE Remembered(d, K, m2)'
      <4>1. CASE d = c
          BY <1>9, <1>12, <1>16, <2>1, <4>1 DEF Remembered
      <4>2. CASE d \in accepted
        <5>1. Remembered(d, K, m)
            BY <1>1, <3>1, <4>2 DEF Window
        <5>2. d \in Nat /\ TrueTime(d) \in Nat
            BY <1>2, <1>4, <4>2, TimeOrder DEF TypeOK
        <5>3. CASE TrueTime(d) + Span < TrueTime(m)
          <6>1. TrueTime(d) + Span < TrueTime(m2)
              BY <1>4, <1>18, <2>3, <5>2, <5>3
          <6> QED
              BY <1>16, <6>1 DEF Remembered
        <5>4. ASSUME NEW x \in seen, x.nonce = Nonce(d), x.time + K * TsMod = TrueTime(d)
              PROVE  Remembered(d, K, m2)'
          <6>1. CASE x \in kept
              BY <1>9, <1>16, <5>4, <6>1 DEF Remembered
          <6>2. CASE x \notin kept
            <7>1. x.time + Span < h1 /\ x.time \in Nat
                BY <1>8, <6>2
            <7>2. TrueTime(d) + Span < TrueTime(m2)
                BY <1>4, <1>6, <1>18, <2>2, <2>3, <5>2, <5>4, <7>1
            <7> QED
                BY <1>16, <7>2 DEF Remembered
          <6> QED
              BY <6>1, <6>2
        <5> QED
            BY <5>1, <5>3, <5>4 DEF Remembered
      <4> QED
          BY <1>9, <4>1, <4>2
    <3> QED
        BY <1>16, <1>17, <3>2, <3>3
  <2>8. Window(K, m2)'
      BY <1>9, <1>13, <1>16, <2>2, <2>5, <2>6, <2>7 DEF Window
  <2>9. Pinned'
      BY <1>3, <1>17, <2>3, <2>8 DEF Pinned
  <2>10. AcceptedOnce'
    <3> SUFFICES ASSUME epochKnown PROVE c \notin accepted
        BY <1>3, <1>11 DEF AcceptedOnce, RInv
    <3> SUFFICES ASSUME c \in accepted PROVE FALSE
        OBVIOUS
    <3>1. Remembered(c, K, m)
        BY <1>1 DEF Window
    <3>2. ~(\E x \in seen : x.nonce = Nonce(c))
        BY DEF Fresh
    <3>3. TrueTime(c) + Span < TrueTime(m)
        BY <3>1, <3>2 DEF Remembered
    <3>4. e + Span >= highestTime
        BY DEF InWindow, e
    <3> QED
        BY <1>4, <1>5, <1>18, <2>1, <3>3, <3>4
  <2> QED
      BY <1>3, <1>10, <1>14, <1>15, <2>9, <2>10 DEF RInv, InWindowAccepted
<1>21. CASE TrueTime(c) < K * TsMod
  <2>1. K # 0
    <3>1. K = 0 => K * TsMod = 0
        BY <1>18
    <3> QED
        BY <1>4, <1>21, <3>1
  <2>2. K - 1 \in Nat /\ (K - 1) * TsMod = K * TsMod - TsMod
    <3>1. K - 1 \in Nat
        BY <2>1
    <3> QED
        BY <1>18, <3>1
  <2>3. e = (TrueTime(c) - K * TsMod) + TsMod /\ e > highestTime + (TsMod \div 2)
      BY <1>1, <1>2, <1>3, <1>21, WindowTimes
  <2> HIDE DEF e
  <2>4. h1 = e
      BY <1>4, <1>5, <1>18, <2>3 DEF h1
  <2>5. h1 + (K - 1) * TsMod = TrueTime(c)
      BY <1>4, <1>5, <1>18, <2>2, <2>3, <2>4
  <2>6. c < m
    <3>1. TrueTime(c) < TrueTime(m)
        BY <1>1, <1>4, <1>21 DEF Window
    <3>2. m <= c => TrueTime(m) <= TrueTime(c)
        BY <1>4, TimeOrder
    <3> QED
        BY <1>4, <3>1, <3>2
  <2>7. Near(c)'
    <3>1. m <= newest /\ newest <= count - 1
        BY <1>1, <1>4 DEF Window, Near
    <3> QED
        BY <1>4, <1>9, <1>17, <1>18, <1>19, <2>6, <3>1 DEF Near
  <2>8. ASSUME NEW x \in seen' PROVE Entry(x, K - 1)'
    <3>1. CASE x = new
      <4>1. x.time <= highestTime' /\ x.nonce = Nonce(c) /\ x.time + (K - 1) * TsMod = TrueTime(c)
          BY <1>6, <1>9, <1>12, <2>4, <2>5, <3>1
      <4> QED
          BY <1>9, <1>16, <1>17, <4>1 DEF Entry
    <3>2. CASE x \in seen
      <4>1. x.time <= highestTime /\ x.time \in Nat
          BY <1>1, <1>8, <3>2 DEF Window, Entry
      <4>2. PICK d \in wire : x.nonce = Nonce(d) /\ (Alive(d, count) => d \in accepted)
          BY <1>1, <3>2 DEF Window, Entry
      <4>3. x.time <= h1 /\ x.time + Span < h1
          BY <1>4, <1>5, <1>6, <1>18, <2>3, <2>4, <4>1
      <4> QED
          BY <1>9, <1>16, <1>17, <4>2, <4>3 DEF Entry
    <3> QED
        BY <1>8, <1>9, <3>1, <3>2
  <2>9. ~epochKnown
    <3>1. c \in 0..(count - 1)
        BY <1>4
    <3> QED
        BY <1>1, <1>3, <1>4, <1>21, <3>1 DEF Window
  <2>10. Window(K - 1, c)'
      BY <1>3, <1>9, <1>13, <1>16, <2>5, <2>7, <2>8, <2>9 DEF Window
  <2>11. Pinned'
      BY <1>3, <1>17, <2>2, <2>10 DEF Pinned
  <2> QED
      BY <1>3, <1>10, <1>14, <1>15, <2>9, <2>11 DEF RInv, InWindowAccepted, AcceptedOnce
<1> QED
    BY <1>4, <1>20, <1>21

(* The first packet initializes the window. *)
LEMMA FirstInv ==
    ASSUME RInv, pinned = "none", NEW c \in wire, Deliver(c)
    PROVE  RInv'
<1>1. TypeOK /\ Drawn
    BY DEF RInv
<1>2. seen = {} /\ accepted = {} /\ replayed = {} /\ newest = None /\ refused = {}
    BY DEF RInv, Pinned, InWindowAccepted
<1> DEFINE ts == TsOf(c)
           new == [nonce |-> Nonce(c), time |-> ts]
<1>3. /\ initTs \in Nat /\ initSeq \in Nat /\ c \in Nat /\ ts \in 0..(TsMod - 1)
      /\ Nonce(c) \in (0..(SeqMod - 1)) \X (0..(TsMod - 1)) /\ TrueTime(c) \in Nat
      /\ count \in Nat /\ wire \subseteq 0..(count - 1) /\ c <= count - 1
  <2>1. count \in Nat /\ wire \subseteq 0..(count - 1)
      BY <1>1, ObfsFacts DEF Drawn
  <2>2. c \in Nat /\ c <= count - 1
      BY <2>1
  <2>3. initTs \in Nat /\ initSeq \in Nat /\ ts \in 0..(TsMod - 1)
        /\ Nonce(c) \in (0..(SeqMod - 1)) \X (0..(TsMod - 1))
      BY <1>1, <2>2, EntryTypes
  <2> QED
      BY <2>1, <2>2, <2>3, TimeOrder
<1>4. Extended(ts, ts) = ts
    BY <1>3, FirstExtended
<1>5. Fresh(c) /\ InWindow(ts, ts)
    BY <1>2, <1>3, ObfsFacts DEF Fresh, InWindow
<1>6. Purge(seen, ts) = {} /\ HasRoom(Purge(seen, ts))
  <2>1. Purge(seen, ts) = {}
      BY <1>2 DEF Purge
  <2> QED
      BY <2>1, FS_EmptySet, ObfsFacts DEF HasRoom
<1>7. /\ Alive(c, count) /\ pinned' = "peer" /\ epochKnown' = EpochKnown(c) /\ UNCHANGED sender
      /\ highestTime' = ts /\ seen' = {new} /\ accepted' = {c}
      /\ newest' = (IF c > newest THEN c ELSE newest) /\ replayed' = {} /\ refused' = {}
  <2>1. (IF Extended(ts, ts) > ts THEN Extended(ts, ts) ELSE ts) = ts
      BY <1>4
  <2> QED
      BY <1>2, <1>4, <1>5, <1>6, <2>1 DEF Deliver
<1>8. newest' = c
    BY <1>2, <1>3, <1>7, ObfsFacts
<1>9. TypeOK'
  <2>1. new \in [nonce : (0..(SeqMod - 1)) \X (0..(TsMod - 1)), time : Nat]
      BY <1>3
  <2>2. ts \in Nat /\ epochKnown' \in BOOLEAN /\ c \in Counters
      BY <1>1, <1>3, <1>7 DEF EpochKnown, TypeOK
  <2> HIDE DEF new, ts
  <2> QED
      BY <1>1, <1>7, <1>8, <2>1, <2>2 DEF TypeOK, sender
<1>10. Drawn'
    BY <1>1, <1>7 DEF Drawn, sender
<1>11. \A d : TrueTime(d)' = TrueTime(d) /\ Nonce(d)' = Nonce(d) /\ (\A n : Alive(d, n)' = Alive(d, n))
    BY <1>7, SameHeaders DEF sender
<1>12. UNCHANGED <<count, wire>>
    BY <1>7 DEF sender
<1>13. PICK K \in Nat : K = TrueTime(c) \div TsMod /\ ts + K * TsMod = TrueTime(c)
  <2>1. TrueTime(c) \div TsMod \in Nat /\ TsMod \in Nat \ {0}
        /\ TrueTime(c) = TsMod * (TrueTime(c) \div TsMod) + (TrueTime(c) % TsMod)
      BY <1>3, ObfsFacts, DivMod
  <2>2. ts = TrueTime(c) % TsMod
      BY DEF TsOf, TrueTime
  <2> DEFINE q == TrueTime(c) \div TsMod
  <2>3. q \in Nat /\ TrueTime(c) = TsMod * q + ts
      BY <2>1, <2>2
  <2> HIDE DEF q, ts
  <2>4. ts + q * TsMod = TrueTime(c)
    <3>1. q * TsMod = TsMod * q /\ TsMod * q \in Nat /\ ts \in Nat
        BY <1>3, <2>1, <2>3
    <3> QED
        BY <2>3, <3>1
  <2> QED
      BY <2>3, <2>4 DEF q
<1>14. K * TsMod \in Nat /\ TsMod \in Nat \ {0} /\ Span \in Nat
    BY ObfsFacts
<1>15. new.nonce = Nonce(c) /\ new.time = ts /\ ts \in Nat
    BY <1>3
<1> HIDE DEF new, ts
<1>16. Near(c)'
    BY <1>3, <1>7, <1>8, <1>12 DEF Near, Alive
<1>17. ASSUME NEW x \in seen' PROVE Entry(x, K)'
  <2>1. x.nonce = Nonce(c) /\ x.time = highestTime' /\ x.time <= highestTime'
        /\ x.time + K * TsMod = TrueTime(c)
      BY <1>7, <1>13, <1>15
  <2> QED
      BY <1>7, <1>11, <1>12, <2>1 DEF Entry
<1>18. ASSUME epochKnown'
       PROVE  /\ (\A d \in 0..(count - 1) : Alive(d, count) => TrueTime(d) >= K * TsMod)'
              /\ \A d \in accepted' : Remembered(d, K, c)'
  <2>1. EpochKnown(c)
      BY <1>7, <1>18
  <2>2. ASSUME NEW d \in 0..(count - 1), Alive(d, count) PROVE TrueTime(d) >= K * TsMod
    <3>1. d \in Nat /\ TrueTime(d) \in Nat
      <4>1. d \in Nat
          BY <1>3
      <4> QED
          BY <1>3, <4>1, TimeOrder
    <3>2. CASE d <= c
      <4>1. d \in Counters
          BY <1>1, <1>3, ObfsFacts DEF Drawn, Counters
      <4>2. TrueTime(d) \div TsMod = K
          BY <1>13, <2>1, <2>2, <3>2, <4>1 DEF EpochKnown
      <4>3. TrueTime(d) % TsMod \in Nat /\ TrueTime(d) = TsMod * K + (TrueTime(d) % TsMod)
        <5>1. TrueTime(d) % TsMod \in 0..(TsMod - 1)
              /\ TrueTime(d) = TsMod * (TrueTime(d) \div TsMod) + (TrueTime(d) % TsMod)
            BY <1>14, <3>1, DivMod
        <5> QED
            BY <1>14, <4>2, <5>1
      <4>4. TsMod * K = K * TsMod
          BY <1>14
      <4> QED
          BY <1>14, <3>1, <4>3, <4>4
    <3>3. CASE c < d
      <4>1. TrueTime(c) < TrueTime(d)
          BY <1>3, <3>1, <3>3, TimeOrder
      <4> QED
          BY <1>3, <1>13, <1>14, <1>15, <3>1, <4>1
    <3> QED
        BY <1>3, <3>1, <3>2, <3>3
  <2>3. ASSUME NEW d \in accepted' PROVE Remembered(d, K, c)'
    <3>1. d = c
        BY <1>7
    <3> QED
        BY <1>7, <1>11, <1>13, <1>15, <3>1 DEF Remembered
  <2> QED
      BY <1>11, <1>12, <2>2, <2>3
<1>19. IsFiniteSet(seen')
    BY <1>7, FS_Singleton
<1>20. Window(K, c)'
    BY <1>7, <1>11, <1>13, <1>16, <1>17, <1>18, <1>19 DEF Window
<1>21. Pinned'
    BY <1>7, <1>12, <1>20 DEF Pinned
<1> QED
    BY <1>7, <1>9, <1>10, <1>21 DEF RInv, AcceptedOnce, InWindowAccepted

(* A window that another source pinned lets nothing in. *)
LEMMA OtherInv ==
    ASSUME RInv, DeliverOther \/ (pinned = "other" /\ \E c \in wire : Deliver(c))
    PROVE  RInv'
<1>1. pinned # "peer" /\ TypeOK /\ Drawn
    BY DEF RInv, DeliverOther
<1>2. seen = {} /\ accepted = {} /\ replayed = {} /\ newest = None
    BY <1>1 DEF RInv, Pinned
<1>3. CASE DeliverOther
  <2>1. TypeOK' /\ Drawn'
      BY <1>1, <1>3 DEF DeliverOther, TypeOK, Drawn, sender
  <2>2. Pinned' /\ AcceptedOnce' /\ InWindowAccepted'
      BY <1>2, <1>3 DEF DeliverOther, Pinned, AcceptedOnce, InWindowAccepted
  <2> QED
      BY <2>1, <2>2 DEF RInv
<1>4. ASSUME pinned = "other", NEW c \in wire, Deliver(c) PROVE RInv'
  <2>1. /\ pinned' = pinned /\ epochKnown' = epochKnown /\ UNCHANGED sender
        /\ Refuse(c) /\ UNCHANGED <<highestTime, seen>>
      BY <1>4 DEF Deliver
  <2>2. /\ UNCHANGED <<newest, accepted, replayed>>
        /\ refused' = refused \/ refused' = refused \cup {c}
      BY <2>1 DEF Refuse
  <2>3. TypeOK' /\ Drawn'
      BY <1>1, <1>4, <2>1, <2>2 DEF TypeOK, Drawn, sender
  <2>4. Pinned' /\ AcceptedOnce' /\ InWindowAccepted'
      BY <1>2, <1>4, <2>1, <2>2 DEF Pinned, AcceptedOnce, InWindowAccepted
  <2> QED
      BY <2>3, <2>4 DEF RInv
<1> QED
    BY <1>3, <1>4

(* The sender draws a counter: old datagrams leave the network, and the burst *)
(* since the newest accepted packet stays short.                              *)
LEMMA DrawInv ==
    ASSUME RInv, NEW g \in Goroutines, Draw(g)
    PROVE  RInv'
<1>1. TypeOK /\ Drawn
    BY DEF RInv
<1>2. /\ count < MaxCount /\ local' = [local EXCEPT ![g] = count] /\ count' = count + 1
      /\ pinned = "peer" => count - newest <= Burst
      /\ accepted' = {c \in accepted : Alive(c, count + 1)}
      /\ UNCHANGED <<initSeq, initTs, wire, pinned, highestTime, seen, epochKnown, newest,
                     replayed, refused>>
    BY DEF Draw
<1>3. Drawn'
    BY <1>1, NextDrawn DEF Next
<1>4. count \in Nat /\ wire \subseteq 0..(count - 1) /\ initTs \in Nat
    BY <1>1, ObfsFacts DEF Drawn
<1>5. TypeOK'
  <2>1. count' \in 0..MaxCount /\ count \in Counters
      BY <1>2, <1>4, ObfsFacts DEF Counters
  <2>2. local' \in [Goroutines -> Counters \cup {None}]
      BY <1>1, <1>2, <2>1 DEF TypeOK
  <2>3. accepted' \subseteq wire'
      BY <1>1, <1>2 DEF TypeOK
  <2> QED
      BY <1>1, <1>2, <2>1, <2>2, <2>3 DEF TypeOK
<1>6. \A d : TrueTime(d)' = TrueTime(d) /\ Nonce(d)' = Nonce(d)
    BY <1>2, SameHeaders
<1>7. \A d \in Nat : Alive(d, count + 1) => Alive(d, count)
    BY <1>4, ObfsFacts DEF Alive
<1>8. ASSUME NEW K \in Nat, NEW m \in wire, Window(K, m), pinned = "peer" PROVE Window(K, m)'
  <2>1. m \in Nat /\ newest \in Nat /\ K * TsMod \in Nat /\ highestTime \in Nat
      BY <1>1, <1>4, <1>8, ObfsFacts DEF Window, Near, TypeOK
  <2>2. Near(m)'
      BY <1>2, <1>4, <1>8, <2>1, ObfsFacts DEF Window, Near
  <2>3. ASSUME NEW x \in seen' PROVE Entry(x, K)'
    <3>1. x.time <= highestTime /\ x \in seen
        BY <1>2, <1>8 DEF Window, Entry
    <3>2. PICK d \in wire : /\ x.nonce = Nonce(d) /\ (Alive(d, count) => d \in accepted)
                            /\ x.time + K * TsMod = TrueTime(d) \/ x.time + Span < highestTime
        BY <1>8, <3>1 DEF Window, Entry
    <3>3. Alive(d, count + 1) => d \in accepted'
        BY <1>2, <1>4, <1>7, <3>2
    <3>4. Alive(d, count)' => d \in accepted'
        BY <1>2, <3>3 DEF Alive
    <3> QED
        BY <1>2, <1>6, <3>1, <3>2, <3>4 DEF Entry
  <2>4. ASSUME epochKnown'
        PROVE  /\ (\A d \in 0..(count - 1) : Alive(d, count) => TrueTime(d) >= K * TsMod)'
               /\ \A d \in accepted' : Remembered(d, K, m)'
    <3>1. /\ epochKnown
          /\ \A d \in 0..(count - 1) : Alive(d, count) => TrueTime(d) >= K * TsMod
          /\ \A d \in accepted : Remembered(d, K, m)
        BY <1>2, <1>8, <2>4 DEF Window
    <3>2. ASSUME NEW d \in 0..count, Alive(d, count + 1) PROVE TrueTime(d) >= K * TsMod
      <4>1. CASE d \in 0..(count - 1)
          BY <1>4, <1>7, <3>1, <3>2, <4>1
      <4>2. CASE d = count
        <5>1. TrueTime(m) <= TrueTime(d) /\ TrueTime(m) \in Nat /\ TrueTime(d) \in Nat
            BY <1>4, <2>1, <4>2, TimeOrder
        <5>2. highestTime + K * TsMod = TrueTime(m)
            BY <1>8 DEF Window
        <5> QED
            BY <2>1, <5>1, <5>2
      <4> QED
          BY <1>4, <4>1, <4>2
    <3>3. (\A d \in 0..(count - 1) : Alive(d, count) => TrueTime(d) >= K * TsMod)'
      <4>1. 0..(count' - 1) = 0..count
          BY <1>2, <1>4
      <4>2. \A d : Alive(d, count)' <=> Alive(d, count + 1)
          BY <1>2 DEF Alive
      <4> QED
          BY <1>6, <3>2, <4>1, <4>2
    <3>4. ASSUME NEW d \in accepted' PROVE Remembered(d, K, m)'
      <4>1. Remembered(d, K, m)
          BY <1>2, <3>1
      <4> QED
          BY <1>2, <1>6, <4>1 DEF Remembered
    <3> QED
        BY <3>3, <3>4
  <2> QED
      BY <1>2, <1>6, <1>8, <2>2, <2>3, <2>4 DEF Window
<1>9. Pinned'
    BY <1>2, <1>8 DEF RInv, Pinned
<1> QED
    BY <1>2, <1>3, <1>5, <1>9 DEF RInv, AcceptedOnce, InWindowAccepted

(* The datagram goes out. *)
LEMMA SealInv ==
    ASSUME RInv, NEW g \in Goroutines, Seal(g)
    PROVE  RInv'
<1>1. TypeOK /\ Drawn
    BY DEF RInv
<1>2. /\ local[g] # None /\ wire' = wire \cup {local[g]} /\ local' = [local EXCEPT ![g] = None]
      /\ UNCHANGED <<initSeq, initTs, count, pinned, highestTime, seen, epochKnown, newest,
                     accepted, replayed, refused>>
    BY DEF Seal, receiver
<1>3. Drawn'
    BY <1>1, NextDrawn DEF Next
<1>4. TypeOK'
    BY <1>1, <1>2 DEF TypeOK
<1>5. \A d : TrueTime(d)' = TrueTime(d) /\ Nonce(d)' = Nonce(d) /\ (\A n : Alive(d, n)' = Alive(d, n))
    BY <1>2, SameHeaders
<1>6. ASSUME NEW K \in Nat, NEW m \in wire, Window(K, m) PROVE Window(K, m)'
  <2>1. Near(m)'
      BY <1>2, <1>6 DEF Window, Near
  <2>2. ASSUME NEW x \in seen' PROVE Entry(x, K)'
    <3>1. x.time <= highestTime /\ x \in seen
        BY <1>2, <1>6 DEF Window, Entry
    <3>2. PICK d \in wire : /\ x.nonce = Nonce(d) /\ (Alive(d, count) => d \in accepted)
                            /\ x.time + K * TsMod = TrueTime(d) \/ x.time + Span < highestTime
        BY <1>6, <3>1 DEF Window, Entry
    <3>3. Alive(d, count)' = Alive(d, count) /\ d \in wire'
        BY <1>2 DEF Alive
    <3> QED
        BY <1>2, <1>5, <3>1, <3>2, <3>3 DEF Entry
  <2>3. ASSUME epochKnown'
        PROVE  /\ (\A d \in 0..(count - 1) : Alive(d, count) => TrueTime(d) >= K * TsMod)'
               /\ \A d \in accepted' : Remembered(d, K, m)'
    <3>1. \A d : Alive(d, count)' = Alive(d, count)
        BY <1>2 DEF Alive
    <3>2. /\ \A d \in 0..(count - 1) : Alive(d, count) => TrueTime(d) >= K * TsMod
          /\ \A d \in accepted : Remembered(d, K, m)
        BY <1>2, <1>6, <2>3 DEF Window
    <3>3. ASSUME NEW d \in accepted' PROVE Remembered(d, K, m)'
        BY <1>2, <1>5, <3>2 DEF Remembered
    <3> QED
        BY <1>2, <1>5, <3>1, <3>2, <3>3
  <2> QED
      BY <1>2, <1>5, <1>6, <2>1, <2>2, <2>3 DEF Window
<1>7. Pinned'
    BY <1>2, <1>6 DEF RInv, Pinned
<1> QED
    BY <1>2, <1>3, <1>4, <1>7 DEF RInv, AcceptedOnce, InWindowAccepted

LEMMA InitRInv == Init => RInv
<1> SUFFICES ASSUME Init PROVE RInv
    OBVIOUS
<1>1. Drawn
    BY InitDrawn
<1>2. TypeOK
    BY ObfsFacts DEF Init, TypeOK
<1>3. Pinned /\ AcceptedOnce /\ InWindowAccepted
    BY DEF Init, Pinned, AcceptedOnce, InWindowAccepted
<1> QED
    BY <1>1, <1>2, <1>3 DEF RInv

LEMMA NextRInv == RInv /\ [Next]_vars => RInv'
<1> SUFFICES ASSUME RInv, [Next]_vars PROVE RInv'
    OBVIOUS
<1>1. ASSUME NEW c \in wire, Deliver(c) PROVE RInv'
  <2>1. CASE pinned = "none"
      BY <1>1, <2>1, FirstInv
  <2>2. CASE pinned = "other"
      BY <1>1, <2>2, OtherInv
  <2>3. CASE pinned = "peer"
      BY <1>1, <2>3, RefuseInv, AcceptInv
  <2> QED
      BY <2>1, <2>2, <2>3 DEF RInv, TypeOK
<1> QED
    BY <1>1, DrawInv, SealInv, OtherInv, UnchangedInv DEF Next

(* The receiver's invariant holds in every reachable state. *)
THEOREM WindowInvariance == Spec => []RInv
    BY InitRInv, NextRInv, PTL DEF Spec

(* The variables of both ends keep their types; highestTime never becomes     *)
(* negative, whatever wraps are added or taken away.                          *)
THEOREM TypeCorrect == Spec => []TypeOK
<1>1. RInv => TypeOK
    BY DEF RInv
<1> QED
    BY <1>1, WindowInvariance, PTL

(* No packet gets past the window twice, for any widths, span and table size  *)
(* the assumptions allow, the code's among them, if the window knew the epoch *)
(* of its first packet.                                                       *)
THEOREM NeverReplayed == Spec => []AcceptedOnce
<1>1. RInv => AcceptedOnce
    BY DEF RInv
<1> QED
    BY <1>1, WindowInvariance, PTL

(* No packet of the window is refused on first sight: the timestamps of those *)
(* that can still arrive are extended right up to the epoch, and the purge    *)
(* leaves room for every packet of the window.                                *)
THEOREM NothingInWindowLost == Spec => []InWindowAccepted
<1>1. RInv => InWindowAccepted
    BY DEF RInv
<1> QED
    BY <1>1, WindowInvariance, PTL
=============================================================================
