---------------------------- MODULE DaemonProofs ----------------------------
(***************************************************************************)
(* Proofs about Daemon, for any set of daemons, whatever they are.  The    *)
(* inductive invariant ties each process to the kernel it shares: a        *)
(* process whose tunnel is not set up keeps no route that a teardown would *)
(* have to clear, wg-qwdtt belongs to a daemon that is set up or dead and  *)
(* raw-qwdtt to a living one, and a command knows which of its daemons can *)
(* still be alive.  Every step of a process is then shown to be a          *)
(* ProcStep, from which the properties follow.                             *)
(***************************************************************************)
EXTENDS Daemon, TLAPS

(* A process m with settings s.  Without a configured tunnel no route to a *)
(* TURN server is kept, and no bypass route but a late BL_RELOAD's.        *)
Settled(m, s) ==
    /\ m.pc = "off" => m = NewProcess
    /\ m.conf => m.pc \in {"open", "probe"}
    /\ m.turn \subseteq s.turn
    /\ ~m.conf => m.turn = {} /\ (m.split = {} \/ m.reload = "late")

(* The interfaces of d in the kernel w.                                    *)
Linked(w, d, m, s) ==
    /\ w.wg = d => s.mode = "tun" /\ (m.pc # "off" => m.conf)
    /\ w.raw = d => m.pc # "off"

(* Of the daemons a command is about, those it has come to are dead, but   *)
(* for the one whose two seconds it waits and the one it does not kill.    *)
Commanding ==
    /\ cmd.pc = "idle" => cmd.names = {}
    /\ cmd.pc = "next" => cmd.kind = "all"
    /\ cmd.kind # "all" => cmd.rest = {} /\ cmd.names \subseteq {cmd.target}
    /\ cmd.kind = "toggle" => cmd.act = None
    /\ cmd.kind # "all" => cmd.current = None
    /\ \A d \in cmd.names :
         Alive(d) => d \in cmd.rest \/ skipKill(d) \/ (cmd.pc = "wait" /\ cmd.target = d)

Each(d) == Settled(p[d], fleet[d]) /\ Linked(k, d, p[d], fleet[d])

Inv == TypeOK /\ Commanding /\ \A d \in Daemons : Each(d)

(* What a step in which process d becomes m does to the rest.              *)
KernelStep(d, m) ==
    /\ k' \in Kernels
    /\ k'.wg \in {k.wg, None, d} /\ k'.raw \in {k.raw, None, d}
    /\ Linked(k', d, m, fleet[d])
    /\ \A h \in k'.host :
         /\ h \in k.host \/ h \in m.split \/ h \in m.turn
         /\ h \in mine(d) => h \in m.split \/ h \in m.turn \/ m.pc = "off"

(* A process that is gone left nothing.                                    *)
Leaves(d, m) ==
    m.pc = "off" => /\ k'.wg # d
                    /\ p[d].turn = {}
                    /\ p[d].split = {} \/ p[d].reload = "late"

ProcStep(d, m) ==
    /\ p' = [p EXCEPT ![d] = m] /\ m \in Memories /\ Settled(m, fleet[d])
    /\ KernelStep(d, m) /\ Leaves(d, m)
    /\ fleet' = fleet /\ cmd' = cmd
    /\ Alive(d) \/ d \notin cmd.names
    /\ active' \in Daemons \cup {None} /\ cur' \in Daemons \cup {None}
    /\ file' \in [Daemons -> SUBSET Hosts]

(* What RoutesTracked, ExitClean and DisconnectFrees say of one step.      *)
Tracked ==
    \A h \in k'.host : (h \in k.host => h \in Kept) =>
         h \in Kept' \/ \E d \in Daemons : h \in mine(d) /\ ~Alive(d)'

Exits ==
    \A d \in Daemons :
         Alive(d) /\ ~Alive(d)' /\ cmd'.pc = cmd.pc =>
            /\ k'.wg # d /\ k'.raw # d /\ p[d].turn = {}
            /\ p[d].split = {} \/ p[d].reload = "late"

Frees ==
    \A d \in cmd.names :
         cmd'.pc = "idle" /\ ~skipKill(d) =>
            /\ ~Alive(d)' /\ k'.raw # d
            /\ cmd.act = d \/ (cmd.kind = "toggle" /\ (auto(d) \/ active = d)) => k'.wg # d

Sound == Inv' /\ Tracked /\ Exits /\ Frees

-----------------------------------------------------------------------------
(* The functions of Network                                                *)

LEMMA Links ==
    ASSUME NEW w \in Kernels, NEW dev \in {"wg", "raw"}
    PROVE  /\ NoHalf(w, dev) \in Kernels
           /\ NoHalf(w, dev).wg = w.wg
           /\ NoHalf(w, dev).raw = w.raw
           /\ NoHalf(w, dev).host = w.host
           /\ AddHalf(w, dev) \in Kernels
           /\ AddHalf(w, dev).wg = w.wg
           /\ AddHalf(w, dev).raw = w.raw
           /\ AddHalf(w, dev).host = w.host
<1> DEFINE n == IF w.half = dev THEN "none" ELSE w.half
           a == IF w.half = "none" THEN dev ELSE w.half
<1>1. n \in {"none", "wg", "raw"} /\ a \in {"none", "wg", "raw"}
  BY DEF Kernels
<1>2. NoHalf(w, dev) = [w EXCEPT !.half = n] /\ AddHalf(w, dev) = [w EXCEPT !.half = a]
  BY DEF NoHalf, AddHalf, Kernels
<1> HIDE DEF n, a
<1> QED
  BY <1>1, <1>2, SMT DEF Kernels

LEMMA HostRoutes ==
    ASSUME NEW w \in Kernels, NEW R \in SUBSET Hosts
    PROVE  /\ addHostRoutes(w, R) \in Kernels
           /\ addHostRoutes(w, R).wg = w.wg
           /\ addHostRoutes(w, R).raw = w.raw
           /\ addHostRoutes(w, R).host = w.host \cup R
           /\ ClearBypassRoutes(w, R) \in Kernels
           /\ ClearBypassRoutes(w, R).wg = w.wg
           /\ ClearBypassRoutes(w, R).raw = w.raw
           /\ ClearBypassRoutes(w, R).host = w.host \ R
BY SMT DEF addHostRoutes, ClearBypassRoutes, Kernels

LEMMA Teardown ==
    ASSUME NEW w \in Kernels, NEW R \in SUBSET Hosts
    PROVE  /\ teardownTunnelRoutes(w, R) \in Kernels
           /\ teardownTunnelRoutes(w, R).wg = w.wg
           /\ teardownTunnelRoutes(w, R).raw = w.raw
           /\ teardownTunnelRoutes(w, R).host = w.host \ R
           /\ teardownWG(w, R) \in Kernels
           /\ teardownWG(w, R).wg = None
           /\ teardownWG(w, R).raw = w.raw
           /\ teardownWG(w, R).host = w.host \ R
<1> DEFINE t == teardownTunnelRoutes(w, R)
           n == NoHalf(t, "wg")
<1>1. t \in Kernels /\ t.wg = w.wg /\ t.raw = w.raw /\ t.host = w.host \ R
  <2>1. PICK c \in Kernels : c = ClearBypassRoutes(w, R)
    BY HostRoutes
  <2>2. t = [c EXCEPT !.half = "none"]
    BY <2>1 DEF teardownTunnelRoutes
  <2> QED
    BY <2>1, <2>2, HostRoutes, SMT DEF Kernels
<1> HIDE DEF t
<1>2. n \in Kernels /\ n.raw = t.raw /\ n.host = t.host
  BY <1>1, Links
<1>3. teardownWG(w, R) = [n EXCEPT !.wg = None]
  BY DEF teardownWG, LinkDelWG, t
<1> HIDE DEF n
<1>4. /\ teardownWG(w, R) \in Kernels /\ teardownWG(w, R).wg = None
      /\ teardownWG(w, R).raw = n.raw /\ teardownWG(w, R).host = n.host
  BY <1>2, <1>3, SMT DEF Kernels
<1> QED
  BY <1>1, <1>2, <1>4 DEF t

LEMMA WGConfig ==
    ASSUME NEW w \in Kernels, NEW d \in Daemons, NEW R \in SUBSET Hosts, NEW H \in SUBSET Hosts
    PROVE  /\ applyWGConfig(w, d, R, H) \in Kernels
           /\ applyWGConfig(w, d, R, H).wg = d
           /\ applyWGConfig(w, d, R, H).raw = w.raw
           /\ applyWGConfig(w, d, R, H).host =
                (IF w.wg # None THEN w.host \ R ELSE w.host) \cup H
<1> DEFINE c == IF isKernelInterfaceActive(w) THEN teardownWG(w, R) ELSE w
           x == [c EXCEPT !.wg = d]
           y == addHostRoutes(x, H)
<1>1. /\ c \in Kernels /\ c.raw = w.raw
      /\ c.host = IF w.wg # None THEN w.host \ R ELSE w.host
  BY Teardown DEF isKernelInterfaceActive
<1>2. applyWGConfig(w, d, R, H) = AddHalf(y, "wg")
  BY DEF applyWGConfig
<1> HIDE DEF c
<1>3. x \in Kernels /\ x.wg = d /\ x.raw = c.raw /\ x.host = c.host
  BY <1>1, SMT DEF Kernels
<1> HIDE DEF x
<1>4. y \in Kernels /\ y.wg = x.wg /\ y.raw = x.raw /\ y.host = x.host \cup H
  BY <1>3, HostRoutes
<1> HIDE DEF y
<1> QED
  BY <1>1, <1>2, <1>3, <1>4, Links

LEMMA RawTUN ==
    ASSUME NEW w \in Kernels, NEW d \in Daemons
    PROVE  /\ createRawTUN(w, d) \in Kernels
           /\ createRawTUN(w, d).wg = w.wg
           /\ createRawTUN(w, d).raw = d
           /\ createRawTUN(w, d).host = w.host
           /\ setupRawTUN(w) \in Kernels
           /\ setupRawTUN(w).wg = w.wg
           /\ setupRawTUN(w).raw = w.raw
           /\ setupRawTUN(w).host = w.host
           /\ LinkDelRaw(w) \in Kernels
           /\ LinkDelRaw(w).wg = w.wg
           /\ LinkDelRaw(w).raw = None
           /\ LinkDelRaw(w).host = w.host
<1>1. /\ createRawTUN(w, d) \in Kernels /\ createRawTUN(w, d).wg = w.wg
      /\ createRawTUN(w, d).raw = d /\ createRawTUN(w, d).host = w.host
  BY SMT DEF createRawTUN, Kernels
<1>2. /\ setupRawTUN(w) \in Kernels /\ setupRawTUN(w).wg = w.wg
      /\ setupRawTUN(w).raw = w.raw /\ setupRawTUN(w).host = w.host
  BY Links DEF setupRawTUN
<1>3. PICK n \in Kernels : n = NoHalf(w, "raw")
  BY Links
<1>4. LinkDelRaw(w) = [n EXCEPT !.raw = None]
  BY <1>3 DEF LinkDelRaw
<1>5. /\ LinkDelRaw(w) \in Kernels /\ LinkDelRaw(w).wg = n.wg
      /\ LinkDelRaw(w).raw = None /\ LinkDelRaw(w).host = n.host
  BY <1>4, SMT DEF Kernels
<1> QED
  BY <1>1, <1>2, <1>3, <1>5, Links

LEMMA TUNGoes ==
    ASSUME NEW w \in Kernels, NEW d \in Daemons
    PROVE  /\ ProcessEnds(w, d) \in Kernels
           /\ ProcessEnds(w, d).wg = w.wg
           /\ ProcessEnds(w, d).raw = IF w.raw = d THEN None ELSE w.raw
           /\ ProcessEnds(w, d).host = w.host
BY RawTUN DEF ProcessEnds

-----------------------------------------------------------------------------
(* The memory of a process                                                 *)

LEMMA ClearedMemory ==
    ASSUME NEW m \in Memories
    PROVE  /\ Cleared(m) \in Memories
           /\ Cleared(m).split = {} /\ Cleared(m).turn = {}
           /\ Cleared(m).pc = m.pc /\ Cleared(m).conf = m.conf
<1>1. PICK r \in {"idle", "busy", "late"} : r = IF m.reload = "late" THEN "idle" ELSE m.reload
  BY DEF Memories
<1>2. Cleared(m) = [m EXCEPT !.split = {}, !.turn = {}, !.reload = r]
  BY <1>1 DEF Cleared, Memories
<1>3. [m EXCEPT !.split = {}, !.turn = {}, !.reload = r] \in Memories
  BY Zenon DEF Memories
<1>4. /\ Cleared(m).split = {} /\ Cleared(m).turn = {}
      /\ Cleared(m).pc = m.pc
  BY <1>2, SMT DEF Memories
<1>5. Cleared(m).conf = m.conf
  BY <1>2 DEF Memories
<1> QED
  BY <1>2, <1>3, <1>4, <1>5

LEMMA NewMemory ==
    ASSUME NEW s \in Settings
    PROVE  /\ NewProcess \in Memories /\ Settled(NewProcess, s)
           /\ NewProcess.pc = "off" /\ ~NewProcess.conf
           /\ NewProcess.split = {} /\ NewProcess.turn = {}
BY SMT DEF NewProcess, Memories, Settled, Settings

LEMMA Types ==
    ASSUME Inv, NEW d \in Daemons
    PROVE  /\ fleet[d] \in Settings /\ mode(d) \in Modes /\ auto(d) \in BOOLEAN
           /\ dom(d) \in SUBSET Hosts /\ fleet[d].turn \in SUBSET Hosts
           /\ p[d] \in Memories /\ mine(d) \in SUBSET Hosts
           /\ p[d].split \in SUBSET Hosts /\ p[d].turn \in SUBSET Hosts
           /\ file[d] \in SUBSET Hosts /\ k \in Kernels
           /\ p[d].list \in SUBSET Daemons /\ p[d].on \in Daemons \cup {None}
<1>1. fleet[d] \in Settings /\ p[d] \in Memories /\ file[d] \in SUBSET Hosts /\ k \in Kernels
  BY DaemonAssumption DEF Inv, TypeOK
<1>2. /\ mode(d) \in Modes /\ auto(d) \in BOOLEAN
      /\ dom(d) \in SUBSET Hosts /\ fleet[d].turn \in SUBSET Hosts
  BY <1>1 DEF Settings, mode, auto, dom
<1>3. /\ p[d].split \in SUBSET Hosts /\ p[d].turn \in SUBSET Hosts
      /\ p[d].list \in SUBSET Daemons /\ p[d].on \in Daemons \cup {None}
  BY <1>1 DEF Memories
<1> QED
  BY <1>1, <1>2, <1>3 DEF mine

-----------------------------------------------------------------------------
(* What follows from a ProcStep                                            *)

LEMMA ProcInv ==
    ASSUME Inv, NEW d \in Daemons, NEW m, ProcStep(d, m)
    PROVE  Inv'
<1>1. TypeOK'
  BY DEF Inv, TypeOK, ProcStep, KernelStep
<1>2. \A e \in Daemons : p'[e] = IF e = d THEN m ELSE p[e]
  BY DEF Inv, TypeOK, ProcStep
<1>3. Commanding'
  <2>1. cmd' = cmd /\ (Alive(d) \/ d \notin cmd.names) /\ cmd.names \subseteq Daemons
    BY DEF ProcStep, Inv, TypeOK, Commanders
  <2>2. \A e \in cmd.names : Alive(e)' => Alive(e)
    BY <1>2, <2>1 DEF Alive
  <2> QED
    BY <2>1, <2>2 DEF Inv, Commanding, skipKill, auto, ProcStep
<1>4. ASSUME NEW e \in Daemons PROVE Each(e)'
  <2>1. k'.wg \in {k.wg, None, d} /\ k'.raw \in {k.raw, None, d} /\ fleet' = fleet
    BY DEF ProcStep, KernelStep
  <2>2. Each(e)
    BY DEF Inv
  <2>3. CASE e = d
    BY <1>2, <2>1, <2>3 DEF Each, ProcStep, KernelStep
  <2>4. CASE e # d
    BY <1>2, <2>1, <2>2, <2>4, NetworkAssumption DEF Each, Linked
  <2> QED
    BY <2>3, <2>4
<1> QED
  BY <1>1, <1>3, <1>4 DEF Inv

LEMMA ProcTracked ==
    ASSUME Inv, NEW d \in Daemons, NEW m, ProcStep(d, m)
    PROVE  Tracked
<1>1. \A e \in Daemons : p'[e] = IF e = d THEN m ELSE p[e]
  BY DEF Inv, TypeOK, ProcStep
<1> SUFFICES ASSUME NEW h \in k'.host, h \in k.host => h \in Kept
             PROVE  h \in Kept' \/ \E e \in Daemons : h \in mine(e) /\ ~Alive(e)'
  BY DEF Tracked
<1>2. /\ h \in k.host \/ h \in m.split \/ h \in m.turn
      /\ h \in mine(d) => h \in m.split \/ h \in m.turn \/ m.pc = "off"
  BY DEF ProcStep, KernelStep
<1>3. CASE h \in m.split \/ h \in m.turn
  BY <1>1, <1>3 DEF Kept, mine
<1>4. CASE ~(h \in m.split \/ h \in m.turn)
  <2>1. PICK e \in Daemons : h \in mine(e)
    BY <1>2, <1>4 DEF Kept
  <2>2. CASE e = d
    BY <1>1, <1>2, <1>4, <2>1, <2>2 DEF Alive
  <2>3. CASE e # d
    BY <1>1, <2>1, <2>3 DEF Kept, mine
  <2> QED
    BY <2>2, <2>3
<1> QED
  BY <1>3, <1>4

LEMMA ProcExit ==
    ASSUME Inv, NEW d \in Daemons, NEW m, ProcStep(d, m), NEW e \in Daemons,
           Alive(e), ~Alive(e)'
    PROVE  /\ k'.wg # e /\ k'.raw # e /\ p[e].turn = {}
           /\ p[e].split = {} \/ p[e].reload = "late"
<1>1. e = d /\ m.pc = "off"
  BY DEF Inv, TypeOK, ProcStep, Alive
<1> QED
  BY <1>1 DEF ProcStep, Leaves, KernelStep, Linked

(* No command ends in a process's step.                                    *)
LEMMA ProcCommand ==
    ASSUME Inv, NEW d \in Daemons, NEW m, ProcStep(d, m), NEW e \in cmd.names
    PROVE  cmd'.pc # "idle"
BY DEF Inv, Commanding, ProcStep

-----------------------------------------------------------------------------
(* tryConnectProfile returns                                               *)

LEMMA ReturnStep ==
    ASSUME Inv, NEW d \in Daemons, NEW m \in Memories, Alive(d),
           NEW r \in {"next", "resume", "fatal"},
           NEW clears \in BOOLEAN, NEW ran \in BOOLEAN,
           Return(d, m, r, clears, ran),
           m.turn = {}, m.split = {} \/ m.reload = "late",
           k' \in Kernels, k'.wg \in {k.wg, None}, k'.wg # d, k'.raw = k.raw,
           \A h \in k'.host : h \in k.host /\ (h \in mine(d) => h \in m.split)
    PROVE  \E n : ProcStep(d, n)
<1> DEFINE o == m.old \/ (ran /\ mode(d) = "raw")
           n == [m EXCEPT !.pc = "ret", !.ret = r, !.conf = FALSE, !.sw = FALSE, !.old = o]
<1>1. o \in BOOLEAN
  BY DEF Memories
<1>2. p' = [p EXCEPT ![d] = n]
  BY Zenon DEF Return, Set, Memories
<1> HIDE DEF o
<1>3. n \in Memories
  BY <1>1, Zenon DEF Memories
<1>4. /\ n.pc = "ret" /\ n.conf = FALSE /\ n.turn = {}
      /\ n.split = m.split /\ n.reload = m.reload
  BY DEF Memories
<1>5. Settled(n, fleet[d])
  BY <1>4 DEF Settled
<1> HIDE DEF n
<1>6. KernelStep(d, n)
  BY <1>4, NetworkAssumption DEF KernelStep, Linked
<1>7. /\ fleet' = fleet /\ cmd' = cmd /\ cur' \in Daemons \cup {None}
      /\ active' \in Daemons \cup {None} /\ file' \in [Daemons -> SUBSET Hosts]
  BY DEF Return, Inv, TypeOK
<1> QED
  BY <1>2, <1>3, <1>4, <1>5, <1>6, <1>7 DEF ProcStep, Leaves

(* Without a configured tunnel a living process has no wg-qwdtt.           *)
LEMMA Unset ==
    ASSUME Inv, NEW d \in Daemons, Alive(d), ~p[d].conf
    PROVE  /\ k.wg # d /\ p[d].turn = {}
           /\ p[d].split = {} \/ p[d].reload = "late"
BY DEF Inv, Each, Settled, Linked, Alive

(* Outside the event loop no tunnel is configured.                         *)
LEMMA Outside ==
    ASSUME Inv, NEW d \in Daemons, p[d].pc \in {"loop", "again", "ret", "exiting"}
    PROVE  Alive(d) /\ ~p[d].conf
BY DEF Inv, Each, Settled, Alive

LEMMA ReturnUnset ==
    ASSUME Inv, NEW d \in Daemons, Alive(d), ~p[d].conf,
           NEW r \in {"next", "resume", "fatal"},
           NEW clears \in BOOLEAN, NEW ran \in BOOLEAN,
           Return(d, p[d], r, clears, ran), k' = k
    PROVE  \E m : ProcStep(d, m)
<1>1. /\ p[d] \in Memories /\ p[d].turn = {}
      /\ p[d].split = {} \/ p[d].reload = "late"
  BY Types, Unset
<1>2. k' \in Kernels /\ k'.wg \in {k.wg, None} /\ k'.wg # d /\ k'.raw = k.raw
  BY Types, Unset
<1>3. \A h \in k'.host : h \in k.host /\ (h \in mine(d) => h \in p[d].split)
  BY Unset DEF mine
<1> QED
  BY <1>1, <1>2, <1>3, ReturnStep, Zenon

LEMMA LoadFailsStep ==
    ASSUME Inv, NEW d \in Daemons, LoadFails(d)
    PROVE  \E m : ProcStep(d, m)
<1>1. Alive(d) /\ ~p[d].conf
  BY Outside DEF LoadFails, Begins
<1>2. PICK r \in {"next", FatalIfAuto(d)} : Return(d, p[d], r, TRUE, FALSE)
  BY DEF LoadFails
<1>3. r \in {"next", "resume", "fatal"}
  BY <1>2 DEF FatalIfAuto
<1>4. k' = k
  BY DEF LoadFails
<1> QED
  BY <1>1, <1>2, <1>3, <1>4, ReturnUnset

LEMMA StartFailsStep ==
    ASSUME Inv, NEW d \in Daemons, StartFails(d)
    PROVE  \E m : ProcStep(d, m)
<1>1. Alive(d)
  BY Outside DEF StartFails, Begins
<1>2. Return(d, Cleared(p[d]), FatalIfAuto(d), TRUE, FALSE) /\ k' = teardownWG(k, mine(d))
  BY DEF StartFails
<1>3. FatalIfAuto(d) \in {"next", "resume", "fatal"}
  BY DEF FatalIfAuto
<1>4. /\ k' \in Kernels /\ k'.wg = None /\ k'.raw = k.raw /\ k'.host = k.host \ mine(d)
  BY <1>2, Types, Teardown
<1> QED
  <2>1. PICK c \in Memories : c = Cleared(p[d]) /\ c.split = {} /\ c.turn = {}
    BY Types, ClearedMemory
  <2>2. Return(d, c, FatalIfAuto(d), TRUE, FALSE)
    BY <1>2, <2>1
  <2> QED
    BY <1>1, <1>3, <1>4, <2>1, <2>2, ReturnStep, NetworkAssumption

LEMMA TryEndsStep ==
    ASSUME Inv, NEW d \in Daemons, Open(d), NEW r \in {"next", "resume", "fatal"},
           NEW clears \in BOOLEAN, TryEnds(d, r, clears)
    PROVE  \E m : ProcStep(d, m)
<1>1. Alive(d)
  BY DEF Open, Alive
<1>2. Return(d, TornDown(d), r, clears, TRUE) /\ teardownMode(d)
  BY DEF TryEnds
<1>3. CASE ~p[d].conf
  <2>1. TornDown(d) = p[d] /\ k' = k
    BY <1>2, <1>3 DEF TornDown, teardownMode
  <2>2. Return(d, p[d], r, clears, TRUE)
    BY <1>2, <2>1
  <2> QED
    BY <1>1, <1>3, <2>1, <2>2, ReturnUnset
<1>4. CASE p[d].conf
  <2>1. TornDown(d) = Cleared(p[d])
    BY <1>4 DEF TornDown
  <2>2. k' \in Kernels /\ k'.raw = k.raw /\ k'.host = k.host \ mine(d)
    BY <1>2, <1>4, Types, Teardown DEF teardownMode
  <2>3. k'.wg \in {k.wg, None} /\ k'.wg # d
    <3>1. CASE mode(d) = "raw"
      <4>1. k'.wg = k.wg
        BY <1>2, <1>4, <3>1, Types, Teardown DEF teardownMode
      <4>2. k.wg # d
        BY <3>1 DEF Inv, Each, Linked, mode
      <4> QED
        BY <4>1, <4>2
    <3>2. CASE mode(d) # "raw"
      BY <1>2, <1>4, <3>2, Types, Teardown, NetworkAssumption DEF teardownMode
    <3> QED
      BY <3>1, <3>2
  <2> QED
    BY <1>1, <1>2, <2>1, <2>2, <2>3, Types, ClearedMemory, ReturnStep
<1> QED
  BY <1>3, <1>4

LEMMA ConfigFailsStep ==
    ASSUME Inv, NEW d \in Daemons, ConfigTunFails(d) \/ ProbeFails(d) \/ ConfigSocksFails(d)
    PROVE  \E m : ProcStep(d, m)
<1>1. Alive(d)
  BY DEF ConfigTunFails, ProbeFails, ConfigSocksFails, Open, Alive
<1>2. CASE ConfigTunFails(d)
  <2>1. Return(d, Cleared(p[d]), "fatal", TRUE, TRUE) /\ k' = teardownWG(k, mine(d))
    BY <1>2 DEF ConfigTunFails
  <2>2. k' \in Kernels /\ k'.wg = None /\ k'.raw = k.raw /\ k'.host = k.host \ mine(d)
    BY <2>1, Types, Teardown
  <2> QED
    BY <1>1, <2>1, <2>2, Types, ClearedMemory, ReturnStep, NetworkAssumption
<1>3. CASE ProbeFails(d)
  <2>1. /\ Return(d, Cleared(p[d]), FatalIfAuto(d), TRUE, TRUE)
        /\ FatalIfAuto(d) \in {"next", "resume", "fatal"}
    BY <1>3 DEF ProbeFails, FatalIfAuto
  <2>2. k' \in Kernels /\ k'.raw = k.raw /\ k'.host = k.host \ mine(d)
    BY <1>3, Types, Teardown DEF ProbeFails
  <2>3. k'.wg \in {k.wg, None} /\ k'.wg # d
    <3>1. CASE mode(d) = "raw"
      <4>1. k'.wg = k.wg
        BY <1>3, <3>1, Types, Teardown DEF ProbeFails
      <4>2. k.wg # d
        BY <3>1 DEF Inv, Each, Linked, mode
      <4> QED
        BY <4>1, <4>2
    <3>2. CASE mode(d) # "raw"
      BY <1>3, <3>2, Types, Teardown, NetworkAssumption DEF ProbeFails
    <3> QED
      BY <3>1, <3>2
  <2> QED
    BY <1>1, <2>1, <2>2, <2>3, Types, ClearedMemory, ReturnStep
<1>4. CASE ConfigSocksFails(d)
  <2>1. Return(d, p[d], "next", TRUE, TRUE) /\ k' = k /\ ~p[d].conf
    BY <1>4 DEF ConfigSocksFails
  <2> QED
    BY <1>1, <2>1, ReturnUnset
<1> QED
  BY <1>2, <1>3, <1>4

-----------------------------------------------------------------------------
(* Steps that leave the lists of routes alone                              *)

LEMMA QuietStep ==
    ASSUME Inv, NEW d \in Daemons, NEW m \in Memories, Alive(d),
           p' = [p EXCEPT ![d] = m],
           m.pc # "off",
           m.pc = p[d].pc \/ m.pc \in {"open", "probe"} \/ ~p[d].conf,
           m.conf = p[d].conf, m.split = p[d].split, m.turn = p[d].turn,
           m.reload = p[d].reload,
           k' \in Kernels, k'.wg = k.wg, k'.raw \in {k.raw, None, d}, k'.host = k.host,
           fleet' = fleet, cmd' = cmd, active' \in Daemons \cup {None},
           cur' \in Daemons \cup {None}, file' \in [Daemons -> SUBSET Hosts]
    PROVE  ProcStep(d, m)
<1>1. Each(d)
  BY DEF Inv
<1>2. Settled(m, fleet[d])
  BY <1>1 DEF Each, Settled
<1>3. KernelStep(d, m)
  BY <1>1 DEF Each, Linked, KernelStep, mine, Alive
<1> QED
  BY <1>2, <1>3 DEF ProcStep, Leaves

(* A Core or a BL_RELOAD handler at work belongs to a living process.      *)
LEMMA Living ==
    ASSUME Inv, NEW d \in Daemons, p[d].old \/ p[d].tear \/ p[d].reload = "busy"
    PROVE  Alive(d)
<1>1. p[d].pc = "off" => p[d] = NewProcess
  BY DEF Inv, Each, Settled
<1> QED
  BY <1>1 DEF NewProcess, Alive

LEMMA NextTryStep ==
    ASSUME Inv, NEW d \in Daemons, TryAgain(d) \/ NextProfile(d)
    PROVE  \E m : ProcStep(d, m)
<1>0. p[d] \in Memories
  BY Types
<1>1. PICK m : /\ \/ m = [p[d] EXCEPT !.pc = "again", !.ret = "next"]
                  \/ \E x \in p[d].list : m = [p[d] EXCEPT !.pc = "loop", !.ret = "next", !.on = x]
               /\ p' = [p EXCEPT ![d] = m]
  BY Zenon DEF TryAgain, NextProfile, Set
<1>2. Alive(d) /\ ~p[d].conf
  BY Outside DEF TryAgain, NextProfile, Failed
<1>3. m \in Memories
  <2>1. [p[d] EXCEPT !.pc = "again", !.ret = "next"] \in Memories
    BY <1>0, Zenon DEF Memories
  <2>2. ASSUME NEW x \in p[d].list
        PROVE  [p[d] EXCEPT !.pc = "loop", !.ret = "next", !.on = x] \in Memories
    <3>1. x \in Daemons \cup {None}
      BY Types
    <3> QED
      BY <1>0, <3>1, Zenon DEF Memories
  <2> QED
    BY <1>1, <2>1, <2>2
<1>4. /\ m.pc \in {"again", "loop"} /\ m.conf = p[d].conf /\ m.split = p[d].split
      /\ m.turn = p[d].turn /\ m.reload = p[d].reload
  BY <1>0, <1>1 DEF Memories
<1>5. /\ fleet' = fleet /\ cmd' = cmd /\ active' = active /\ cur' = cur /\ file' = file
      /\ k' \in Kernels /\ k'.wg = k.wg /\ k'.raw = k.raw /\ k'.host = k.host
  BY Types DEF TryAgain, NextProfile
<1>6. /\ active' \in Daemons \cup {None} /\ cur' \in Daemons \cup {None}
      /\ file' \in [Daemons -> SUBSET Hosts]
  BY <1>5 DEF Inv, TypeOK
<1>7. ProcStep(d, m)
  BY <1>1, <1>2, <1>3, <1>4, <1>5, <1>6, QuietStep
<1> QED
  BY <1>7

LEMMA StartWorksStep ==
    ASSUME Inv, NEW d \in Daemons, StartWorks(d)
    PROVE  \E m : ProcStep(d, m)
<1>0. p[d] \in Memories
  BY Types
<1>1. PICK b \in BOOLEAN : b = (mode(d) = "raw")
  OBVIOUS
<1> DEFINE m == [p[d] EXCEPT !.pc = "open", !.got = FALSE, !.name = b]
<1>2. p' = [p EXCEPT ![d] = m]
  BY <1>1 DEF StartWorks, Set
<1>3. Alive(d) /\ ~p[d].conf
  BY Outside DEF StartWorks, Begins
<1>4. m \in Memories
  BY <1>0, Zenon DEF Memories
<1>5. /\ m.pc = "open" /\ m.conf = p[d].conf /\ m.split = p[d].split /\ m.turn = p[d].turn
      /\ m.reload = p[d].reload
  BY Types DEF Memories
<1>6. /\ fleet' = fleet /\ cmd' = cmd /\ active' = active /\ cur' = cur /\ file' = file
      /\ k' = (IF mode(d) = "raw" THEN createRawTUN(k, d) ELSE k)
  BY DEF StartWorks
<1>7. k' \in Kernels /\ k'.wg = k.wg /\ k'.raw \in {k.raw, None, d} /\ k'.host = k.host
  BY <1>6, Types, RawTUN
<1> HIDE DEF m
<1>8. /\ active' \in Daemons \cup {None} /\ cur' \in Daemons \cup {None}
      /\ file' \in [Daemons -> SUBSET Hosts]
  BY <1>6 DEF Inv, TypeOK
<1>9. ProcStep(d, m)
  BY <1>2, <1>3, <1>4, <1>5, <1>6, <1>7, <1>8, QuietStep
<1> QED
  BY <1>9

LEMMA ProbeWorksStep ==
    ASSUME Inv, NEW d \in Daemons, ProbeWorks(d)
    PROVE  \E m : ProcStep(d, m)
<1>0. p[d] \in Memories
  BY Types
<1> DEFINE m == [p[d] EXCEPT !.pc = "open"]
<1>1. p' = [p EXCEPT ![d] = m] /\ Alive(d)
  BY DEF ProbeWorks, Set, Alive
<1>2. m \in Memories
  BY <1>0, Zenon DEF Memories
<1>3. /\ m.pc = "open" /\ m.conf = p[d].conf /\ m.split = p[d].split /\ m.turn = p[d].turn
      /\ m.reload = p[d].reload
  BY Types DEF Memories
<1> HIDE DEF m
<1>4. /\ fleet' = fleet /\ cmd' = cmd /\ active' = active
      /\ k' \in Kernels /\ k'.wg = k.wg /\ k'.raw = k.raw /\ k'.host = k.host
  BY Types DEF ProbeWorks
<1>5. active' \in Daemons \cup {None} /\ cur' \in Daemons \cup {None}
  BY Types DEF Inv, TypeOK, ProbeWorks, SetCurrent
<1>6. file' \in [Daemons -> SUBSET Hosts]
  BY Types DEF Inv, TypeOK, ProbeWorks
<1>7. ProcStep(d, m)
  BY <1>1, <1>2, <1>3, <1>4, <1>5, <1>6, QuietStep
<1> QED
  BY <1>7

(* The event "running", and a BL_RELOAD that touches no route.             *)
LEMMA FilesStep ==
    ASSUME Inv, NEW d \in Daemons, Running(d) \/ ReloadSocks(d)
    PROVE  \E m : ProcStep(d, m)
<1>1. p' = p /\ Alive(d)
  BY DEF Running, ReloadSocks, Open, Alive
<1>2. p' = [p EXCEPT ![d] = p[d]]
  BY <1>1 DEF Inv, TypeOK
<1>3. /\ fleet' = fleet /\ cmd' = cmd /\ active' = active
      /\ k' \in Kernels /\ k'.wg = k.wg /\ k'.raw = k.raw /\ k'.host = k.host
  BY Types DEF Running, ReloadSocks
<1>4. active' \in Daemons \cup {None} /\ cur' \in Daemons \cup {None}
  BY Types DEF Inv, TypeOK, Running, ReloadSocks, SetCurrent
<1>5. file' \in [Daemons -> SUBSET Hosts]
  BY DEF Inv, TypeOK, Running, ReloadSocks
<1>6. p[d] \in Memories /\ p[d].pc # "off"
  BY <1>1, Types DEF Alive
<1>7. ProcStep(d, p[d])
  BY <1>1, <1>2, <1>3, <1>4, <1>5, <1>6, QuietStep
<1> QED
  BY <1>7

LEMMA RawCoreStep ==
    ASSUME Inv, NEW d \in Daemons, CoreRawSetup(d) \/ CoreCloses(d) \/ teardownRawTUN(d)
    PROVE  \E m : ProcStep(d, m)
<1>0. p[d] \in Memories
  BY Types
<1>1. Alive(d)
  BY Living DEF CoreRawSetup, CoreCloses, teardownRawTUN, Open, Alive
<1>2. PICK m : /\ m \in {[p[d] EXCEPT !.got = TRUE], [p[d] EXCEPT !.old = FALSE, !.tear = TRUE],
                         [p[d] EXCEPT !.tear = FALSE, !.name = FALSE]}
               /\ p' = [p EXCEPT ![d] = m]
  BY Zenon DEF CoreRawSetup, CoreCloses, teardownRawTUN, Set
<1>3. m \in Memories
  <2>1. /\ [p[d] EXCEPT !.got = TRUE] \in Memories
        /\ [p[d] EXCEPT !.old = FALSE, !.tear = TRUE] \in Memories
        /\ [p[d] EXCEPT !.tear = FALSE, !.name = FALSE] \in Memories
    BY <1>0, Zenon DEF Memories
  <2> QED
    BY <1>2, <2>1
<1>4. /\ m.pc = p[d].pc /\ m.conf = p[d].conf /\ m.split = p[d].split /\ m.turn = p[d].turn
      /\ m.reload = p[d].reload
  BY <1>2, Types DEF Memories
<1>5. /\ fleet' = fleet /\ cmd' = cmd /\ active' = active /\ cur' = cur /\ file' = file
  BY DEF CoreRawSetup, CoreCloses, teardownRawTUN
<1>6. k' \in {k, setupRawTUN(k), ProcessEnds(k, d), LinkDelRaw(k)}
  BY DEF CoreRawSetup, CoreCloses, teardownRawTUN
<1>7. k' \in Kernels /\ k'.wg = k.wg /\ k'.raw \in {k.raw, None, d} /\ k'.host = k.host
  BY <1>6, Types, RawTUN, TUNGoes
<1>8. /\ active' \in Daemons \cup {None} /\ cur' \in Daemons \cup {None}
      /\ file' \in [Daemons -> SUBSET Hosts]
  BY <1>5 DEF Inv, TypeOK
<1>9. ProcStep(d, m)
  BY <1>1, <1>2, <1>3, <1>4, <1>5, <1>7, <1>8, QuietStep DEF Alive
<1> QED
  BY <1>9

LEMMA SwitchStep ==
    ASSUME Inv, NEW d \in Daemons, switchCmd(d)
    PROVE  \E m : ProcStep(d, m)
<1>0. p[d] \in Memories
  BY Types
<1> DEFINE b == Inside(d)
           m == [p[d] EXCEPT !.sw = b]
<1>1. b \in BOOLEAN
  BY SMT DEF Inside
<1>2. p' = [p EXCEPT ![d] = m] /\ Alive(d)
  BY DEF switchCmd, Set
<1> HIDE DEF b
<1>3. m \in Memories
  BY <1>0, <1>1, Zenon DEF Memories
<1>4. /\ m.pc = p[d].pc /\ m.conf = p[d].conf /\ m.split = p[d].split /\ m.turn = p[d].turn
      /\ m.reload = p[d].reload
  BY Types DEF Memories
<1> HIDE DEF m
<1>5. /\ fleet' = fleet /\ cmd' = cmd /\ active' = active /\ cur' = None /\ file' = file
      /\ k' \in Kernels /\ k'.wg = k.wg /\ k'.raw = k.raw /\ k'.host = k.host
  BY Types DEF switchCmd
<1>6. /\ active' \in Daemons \cup {None} /\ cur' \in Daemons \cup {None}
      /\ file' \in [Daemons -> SUBSET Hosts]
  BY <1>5 DEF Inv, TypeOK
<1>7. ProcStep(d, m)
  BY <1>2, <1>3, <1>4, <1>5, <1>6, QuietStep DEF Alive
<1> QED
  BY <1>7

-----------------------------------------------------------------------------
(* The way out of connectCmd                                               *)

LEMMA ExitingStep ==
    ASSUME Inv, NEW d \in Daemons,
           LoopStops(d) \/ StopAfterTry(d) \/ FatalExit(d)
    PROVE  \E m : ProcStep(d, m)
<1> DEFINE c == Cleared(p[d])
           m == [c EXCEPT !.pc = "exiting", !.ret = "next"]
<1>1. Alive(d) /\ ~p[d].conf
  BY Outside DEF LoopStops, StopAfterTry, FatalExit, Failed
<1>2. c \in Memories /\ c.split = {} /\ c.turn = {} /\ c.conf = p[d].conf
  BY Types, ClearedMemory
<1>3. p' = [p EXCEPT ![d] = m]
  BY DEF LoopStops, StopAfterTry, FatalExit, deferredExit, Set
<1> HIDE DEF c
<1>4. m \in Memories
  BY <1>2, Zenon DEF Memories
<1>5. m.pc = "exiting" /\ m.conf = c.conf /\ m.split = c.split /\ m.turn = c.turn
  BY <1>2 DEF Memories
<1> HIDE DEF m
<1>6. /\ fleet' = fleet /\ cmd' = cmd /\ active' = active /\ file' = file
      /\ k' \in {teardownTunnelRoutes(k, mine(d)), teardownWG(k, mine(d))}
  BY DEF LoopStops, StopAfterTry, FatalExit, deferredExit
<1>7. cur' \in Daemons \cup {None}
  BY DEF LoopStops, StopAfterTry, FatalExit, deferredExit, Inv, TypeOK
<1>8. /\ k' \in Kernels /\ k'.wg \in {k.wg, None} /\ k'.raw = k.raw
      /\ k'.host = k.host \ mine(d)
  BY <1>6, Types, Teardown
<1>9. Settled(m, fleet[d]) /\ KernelStep(d, m) /\ Leaves(d, m)
  <2>1. Settled(m, fleet[d])
    BY <1>1, <1>2, <1>5 DEF Settled
  <2>2. KernelStep(d, m)
    BY <1>1, <1>5, <1>8, Unset, NetworkAssumption DEF KernelStep, Linked
  <2> QED
    BY <1>5, <2>1, <2>2 DEF Leaves
<1>10. active' \in Daemons \cup {None} /\ file' \in [Daemons -> SUBSET Hosts]
  BY <1>6 DEF Inv, TypeOK
<1>11. ProcStep(d, m)
  BY <1>1, <1>3, <1>4, <1>6, <1>7, <1>9, <1>10 DEF ProcStep
<1> QED
  BY <1>11

(* The end of a process, by itself or by SIGKILL.                          *)
LEMMA Ending ==
    ASSUME Inv, NEW d \in Daemons, NEW q, Ends(d, q)
    PROVE  /\ p' = [p EXCEPT ![d] = NewProcess] /\ NewProcess \in Memories
           /\ Settled(NewProcess, fleet[d]) /\ NewProcess.pc = "off"
           /\ k' \in Kernels /\ k'.wg = k.wg /\ k'.host = k.host
           /\ k'.raw \in {k.raw, None} /\ k'.raw # d
           /\ fleet' = fleet /\ cmd' = q
           /\ active' \in Daemons \cup {None} /\ cur' \in Daemons \cup {None}
           /\ file' \in [Daemons -> SUBSET Hosts]
<1>1. /\ p' = [p EXCEPT ![d] = NewProcess] /\ NewProcess \in Memories
      /\ Settled(NewProcess, fleet[d]) /\ NewProcess.pc = "off"
  BY Types, NewMemory DEF Ends, Set
<1>2. k' = ProcessEnds(k, d)
  BY DEF Ends
<1>3. /\ k' \in Kernels /\ k'.wg = k.wg /\ k'.host = k.host
      /\ k'.raw \in {k.raw, None} /\ k'.raw # d
  BY <1>2, Types, TUNGoes, NetworkAssumption
<1>4. /\ fleet' = fleet /\ cmd' = q
      /\ active' \in Daemons \cup {None} /\ cur' \in Daemons \cup {None}
      /\ file' \in [Daemons -> SUBSET Hosts]
  BY DEF Ends, Inv, TypeOK
<1> QED
  BY <1>1, <1>3, <1>4

LEMMA EndStep ==
    ASSUME Inv, NEW d \in Daemons, Leave(d) \/ GiveUp(d)
    PROVE  \E m : ProcStep(d, m)
<1>1. Alive(d) /\ ~p[d].conf /\ Ends(d, cmd)
  BY Outside DEF Leave, GiveUp, Failed
<1>2. KernelStep(d, NewProcess)
  BY <1>1, Ending, Unset DEF KernelStep, Linked
<1>3. Leaves(d, NewProcess)
  BY <1>1, Ending, Unset DEF Leaves
<1>4. ProcStep(d, NewProcess)
  BY <1>1, <1>2, <1>3, Ending DEF ProcStep
<1> QED
  BY <1>4

(* A process that is not there keeps nothing; a tun daemon only starts     *)
(* where there is no wg-qwdtt.                                             *)
LEMMA ConnectStep ==
    ASSUME Inv, NEW d \in Daemons, Connect(d)
    PROVE  \E m : ProcStep(d, m)
<1>0. PICK l \in SUBSET Daemons : l = profileList(d)
  BY DEF profileList
<1>00. PICK x \in Daemons \cup {None} :
        p' = [p EXCEPT ![d] = [NewProcess EXCEPT !.pc = "loop", !.list = l, !.on = x]]
  BY <1>0 DEF Connect, Set
<1> DEFINE m == [NewProcess EXCEPT !.pc = "loop", !.list = l, !.on = x]
<1>1. /\ p' = [p EXCEPT ![d] = m] /\ ~Alive(d) /\ d \notin cmd.names
      /\ fleet' = fleet /\ cmd' = cmd /\ k' = k /\ cur' = cur /\ file' = file
  BY <1>00 DEF Connect
<1>2. active' \in Daemons \cup {None} /\ cur' \in Daemons \cup {None} /\ file' \in [Daemons -> SUBSET Hosts]
  BY DEF Connect, Inv, TypeOK
<1>3. NewProcess \in Memories /\ m \in Memories
  <2>1. NewProcess \in Memories
    BY Types, NewMemory
  <2> QED
    BY <2>1, Zenon DEF Memories
<1>4. m.pc = "loop" /\ ~m.conf /\ m.split = {} /\ m.turn = {}
  BY DEF NewProcess
<1> HIDE DEF m
<1>5. p[d] = NewProcess
  BY <1>1 DEF Inv, Each, Settled, Alive
<1>6. mine(d) = {}
  BY <1>5 DEF mine, NewProcess
<1>7. k.wg # d
  <2>1. CASE mode(d) = "tun"
    BY <2>1, NetworkAssumption
       DEF Connect, preChecks, noKernelTunnel, isKernelInterfaceActive
  <2>2. CASE mode(d) # "tun"
    BY <2>2 DEF Inv, Each, Linked, mode
  <2> QED
    BY <2>1, <2>2
<1>8. KernelStep(d, m)
  BY <1>1, <1>4, <1>6, <1>7, Types DEF KernelStep, Linked
<1>9. Settled(m, fleet[d]) /\ Leaves(d, m)
  BY <1>4 DEF Settled, Leaves
<1>10. ProcStep(d, m)
  BY <1>1, <1>2, <1>3, <1>8, <1>9 DEF ProcStep
<1> QED
  BY <1>10

-----------------------------------------------------------------------------
(* Steps that set up or change routes                                      *)

LEMMA ForeignDomains ==
    ASSUME Inv, NEW d \in Daemons, NEW asked \in SUBSET Daemons
    PROVE  dom(d) \cup foreignDomains(d, asked) \in SUBSET Hosts
<1>1. \A e \in Daemons : dom(e) \in SUBSET Hosts
  BY Types
<1> QED
  BY <1>1 DEF foreignDomains

(* A process that becomes m, whose routes in the kernel are those m keeps. *)
LEMMA RoutesStep ==
    ASSUME Inv, NEW d \in Daemons, NEW m \in Memories, Alive(d),
           p' = [p EXCEPT ![d] = m], m.pc # "off", Settled(m, fleet[d]),
           k' \in Kernels, k'.wg = k.wg \/ (k'.wg = d /\ mode(d) = "tun" /\ m.conf),
           p[d].conf => m.conf,
           k'.raw = k.raw,
           \A h \in k'.host :
             /\ h \in k.host \/ h \in m.split \/ h \in m.turn
             /\ h \in mine(d) => h \in m.split \/ h \in m.turn,
           fleet' = fleet, cmd' = cmd, active' = active,
           cur' \in Daemons \cup {None}, file' \in [Daemons -> SUBSET Hosts]
    PROVE  ProcStep(d, m)
<1>1. Linked(k', d, m, fleet[d])
  BY DEF Inv, Each, Linked, mode, Alive
<1>2. KernelStep(d, m)
  BY <1>1 DEF KernelStep
<1>3. active' \in Daemons \cup {None}
  BY DEF Inv, TypeOK
<1> QED
  BY <1>2, <1>3 DEF ProcStep, Leaves

LEMMA ConfigTunStep ==
    ASSUME Inv, NEW d \in Daemons, ConfigTun(d)
    PROVE  \E m : ProcStep(d, m)
<1>0. p[d] \in Memories /\ p[d].split \in SUBSET Hosts /\ p[d].turn \subseteq fleet[d].turn
  BY Types DEF Inv, Each, Settled
<1>1. PICK asked \in SUBSET Daemons :
        LET split == dom(d) \cup foreignDomains(d, asked)
            turn  == fleet[d].turn
            kept  == IF isKernelInterfaceActive(k) THEN {} ELSE p[d].split
        IN  /\ k' = applyWGConfig(k, d, mine(d), split \cup turn)
            /\ p' = [p EXCEPT ![d] = [p[d] EXCEPT !.pc = "probe", !.conf = TRUE,
                                                  !.split = kept \cup split, !.turn = turn]]
  BY DEF ConfigTun, Set
<1>2. PICK split \in SUBSET Hosts : split = dom(d) \cup foreignDomains(d, asked)
  BY ForeignDomains
<1>3. PICK kept \in SUBSET Hosts : kept = IF isKernelInterfaceActive(k) THEN {} ELSE p[d].split
  BY <1>0
<1>4. PICK turn \in SUBSET Hosts : turn = fleet[d].turn
  BY Types
<1> DEFINE all == kept \cup split
           m == [p[d] EXCEPT !.pc = "probe", !.conf = TRUE, !.split = all, !.turn = turn]
<1>5. k' = applyWGConfig(k, d, mine(d), split \cup turn) /\ p' = [p EXCEPT ![d] = m]
  BY <1>1, <1>2, <1>3, <1>4
<1>6. all \in SUBSET Hosts
  OBVIOUS
<1> HIDE DEF all
<1>7. m \in Memories
  BY <1>0, <1>6, Zenon DEF Memories
<1>8. m.pc = "probe" /\ m.conf = TRUE /\ m.split = all /\ m.turn = turn
  BY <1>0 DEF Memories
<1> HIDE DEF m
<1>9. /\ k' \in Kernels /\ k'.wg = d /\ k'.raw = k.raw
      /\ k'.host = (IF isKernelInterfaceActive(k) THEN k.host \ mine(d) ELSE k.host)
                      \cup (split \cup turn)
  <2>1. PICK H \in SUBSET Hosts, R \in SUBSET Hosts : H = split \cup turn /\ R = mine(d)
    BY Types
  <2>2. k \in Kernels /\ k' = applyWGConfig(k, d, R, H)
    BY <1>5, <2>1, Types
  <2>3. /\ k' \in Kernels /\ k'.wg = d /\ k'.raw = k.raw
        /\ k'.host = (IF k.wg # None THEN k.host \ R ELSE k.host) \cup H
    BY <2>2, WGConfig
  <2> QED
    BY <2>1, <2>3 DEF isKernelInterfaceActive
<1>10. \A h \in k'.host :
         /\ h \in k.host \/ h \in m.split \/ h \in m.turn
         /\ h \in mine(d) => h \in m.split \/ h \in m.turn
  BY <1>0, <1>3, <1>4, <1>8, <1>9 DEF mine, all
<1>11. Settled(m, fleet[d])
  BY <1>4, <1>8 DEF Settled
<1>12. /\ fleet' = fleet /\ cmd' = cmd /\ active' = active /\ cur' \in Daemons \cup {None}
       /\ file' \in [Daemons -> SUBSET Hosts] /\ Alive(d) /\ mode(d) = "tun"
  BY DEF ConfigTun, Open, Alive, Inv, TypeOK
<1>13. ProcStep(d, m)
  BY <1>5, <1>7, <1>8, <1>9, <1>10, <1>11, <1>12, RoutesStep
<1> QED
  BY <1>13

LEMMA ConfigRawStep ==
    ASSUME Inv, NEW d \in Daemons, ConfigRaw(d)
    PROVE  \E m : ProcStep(d, m)
<1>0. p[d] \in Memories /\ p[d].split \in SUBSET Hosts /\ p[d].turn \subseteq fleet[d].turn
  BY Types DEF Inv, Each, Settled
<1>1. PICK asked \in SUBSET Daemons :
        LET split == dom(d) \cup foreignDomains(d, asked)
            turn  == fleet[d].turn
        IN  /\ k' = addHostRoutes(k, split \cup turn)
            /\ p' = [p EXCEPT ![d] = [p[d] EXCEPT !.pc = "probe", !.conf = TRUE,
                                                  !.split = @ \cup split, !.turn = turn]]
  BY DEF ConfigRaw, Set
<1>2. PICK split \in SUBSET Hosts : split = dom(d) \cup foreignDomains(d, asked)
  BY ForeignDomains
<1>3. PICK turn \in SUBSET Hosts : turn = fleet[d].turn
  BY Types
<1> DEFINE all == p[d].split \cup split
           m == [p[d] EXCEPT !.pc = "probe", !.conf = TRUE, !.split = all, !.turn = turn]
<1>4. k' = addHostRoutes(k, split \cup turn) /\ p' = [p EXCEPT ![d] = m]
  BY <1>0, <1>1, <1>2, <1>3 DEF Memories
<1>5. all \in SUBSET Hosts
  BY <1>0
<1> HIDE DEF all
<1>6. m \in Memories
  BY <1>0, <1>5, Zenon DEF Memories
<1>7. m.pc = "probe" /\ m.conf = TRUE /\ m.split = all /\ m.turn = turn
  BY <1>0 DEF Memories
<1> HIDE DEF m
<1>8. /\ k' \in Kernels /\ k'.wg = k.wg /\ k'.raw = k.raw
      /\ k'.host = k.host \cup (split \cup turn)
  BY <1>4, Types, HostRoutes
<1>9. \A h \in k'.host :
         /\ h \in k.host \/ h \in m.split \/ h \in m.turn
         /\ h \in mine(d) => h \in m.split \/ h \in m.turn
  BY <1>0, <1>3, <1>7, <1>8 DEF mine, all
<1>10. Settled(m, fleet[d])
  BY <1>3, <1>7 DEF Settled
<1>11. /\ fleet' = fleet /\ cmd' = cmd /\ active' = active /\ cur' \in Daemons \cup {None}
       /\ file' \in [Daemons -> SUBSET Hosts] /\ Alive(d)
  BY DEF ConfigRaw, Open, Alive, Inv, TypeOK
<1>12. ProcStep(d, m)
  BY <1>4, <1>6, <1>7, <1>8, <1>9, <1>10, <1>11, RoutesStep
<1> QED
  BY <1>12

LEMMA ConfigSocksStep ==
    ASSUME Inv, NEW d \in Daemons, ConfigSocks(d)
    PROVE  \E m : ProcStep(d, m)
<1>0. p[d] \in Memories /\ p[d].split \in SUBSET Hosts /\ p[d].turn \subseteq fleet[d].turn
  BY Types DEF Inv, Each, Settled
<1>1. PICK split \in SUBSET Hosts : split = IF noKernelTunnel THEN {} ELSE dom(d)
  BY Types
<1> DEFINE all == p[d].split \cup split
           m == [p[d] EXCEPT !.conf = TRUE, !.router = TRUE, !.split = all]
<1>2. k' = addHostRoutes(k, split) /\ p' = [p EXCEPT ![d] = m]
  BY <1>0, <1>1 DEF ConfigSocks, Set, Memories
<1>3. all \in SUBSET Hosts
  BY <1>0
<1> HIDE DEF all
<1>4. m \in Memories
  BY <1>0, <1>3, Zenon DEF Memories
<1>5. m.pc = p[d].pc /\ m.conf = TRUE /\ m.split = all /\ m.turn = p[d].turn
  BY <1>0 DEF Memories
<1> HIDE DEF m
<1>6. /\ k' \in Kernels /\ k'.wg = k.wg /\ k'.raw = k.raw /\ k'.host = k.host \cup split
  BY <1>2, Types, HostRoutes
<1>7. \A h \in k'.host :
         /\ h \in k.host \/ h \in m.split \/ h \in m.turn
         /\ h \in mine(d) => h \in m.split \/ h \in m.turn
  BY <1>5, <1>6 DEF mine, all
<1>8. p[d].pc = "open" /\ Alive(d) /\ fleet' = fleet /\ cmd' = cmd /\ active' = active
  BY DEF ConfigSocks, Open, Alive
<1>9. Settled(m, fleet[d])
  BY <1>0, <1>5, <1>8 DEF Settled
<1>10. cur' \in Daemons \cup {None}
  BY Types DEF ConfigSocks, SetCurrent, Inv, TypeOK
<1>11. file' \in [Daemons -> SUBSET Hosts]
  <2>1. file' = [file EXCEPT ![p[d].on] = IF dom(d) = {} THEN @ ELSE split]
    BY <1>1 DEF ConfigSocks
  <2> QED
    BY <2>1 DEF Inv, TypeOK
<1>12. ProcStep(d, m)
  BY <1>2, <1>4, <1>5, <1>6, <1>7, <1>8, <1>9, <1>10, <1>11, RoutesStep
<1> QED
  BY <1>12

LEMMA ReloadClearsStep ==
    ASSUME Inv, NEW d \in Daemons, ReloadClears(d)
    PROVE  \E m : ProcStep(d, m)
<1>0. p[d] \in Memories /\ p[d].split \in SUBSET Hosts
  BY Types
<1>00. PICK x \in Daemons \cup {None} : x = reloadProfile(d)
  BY DEF reloadProfile, Inv, TypeOK
<1> DEFINE m == [p[d] EXCEPT !.reload = "busy", !.bl = x, !.split = {}]
<1>1. /\ p' = [p EXCEPT ![d] = m] /\ k' = ClearBypassRoutes(k, p[d].split) /\ Alive(d)
      /\ fleet' = fleet /\ cmd' = cmd /\ active' = active /\ cur' = cur /\ file' = file
  BY <1>00 DEF ReloadClears, Set
<1>2. m \in Memories
  BY <1>0, Zenon DEF Memories
<1>3. m.pc = p[d].pc /\ m.conf = p[d].conf /\ m.split = {} /\ m.turn = p[d].turn
  BY <1>0 DEF Memories
<1> HIDE DEF m
<1>4. /\ k' \in Kernels /\ k'.wg = k.wg /\ k'.raw = k.raw /\ k'.host = k.host \ p[d].split
  BY <1>0, <1>1, Types, HostRoutes
<1>5. \A h \in k'.host :
         /\ h \in k.host \/ h \in m.split \/ h \in m.turn
         /\ h \in mine(d) => h \in m.split \/ h \in m.turn
  BY <1>3, <1>4 DEF mine
<1>6. Settled(m, fleet[d])
  BY <1>1, <1>3 DEF Inv, Each, Settled, Alive
<1>7. cur' \in Daemons \cup {None} /\ file' \in [Daemons -> SUBSET Hosts]
  BY <1>1 DEF Inv, TypeOK
<1>8. ProcStep(d, m)
  BY <1>1, <1>2, <1>3, <1>4, <1>5, <1>6, <1>7, RoutesStep DEF Alive
<1> QED
  BY <1>8

LEMMA ReloadAddsStep ==
    ASSUME Inv, NEW d \in Daemons, ReloadAdds(d)
    PROVE  \E m : ProcStep(d, m)
<1>0. /\ p[d] \in Memories /\ p[d].split \in SUBSET Hosts /\ dom(d) \in SUBSET Hosts
      /\ Alive(d)
  BY Types, Living DEF ReloadAdds
<1>1. PICK r \in {"idle", "busy", "late"} : r = IF p[d].conf THEN "idle" ELSE "late"
  OBVIOUS
<1> DEFINE all == p[d].split \cup dom(d)
           m == [p[d] EXCEPT !.split = all, !.bl = None, !.reload = r]
<1>2. p' = [p EXCEPT ![d] = m]
  BY <1>0, <1>1 DEF ReloadAdds, Set, Memories
<1>3. /\ k' = addHostRoutes(k, dom(d)) /\ file' = [file EXCEPT ![p[d].bl] = dom(d)]
      /\ fleet' = fleet /\ cmd' = cmd /\ active' = active /\ cur' = cur
  BY DEF ReloadAdds
<1>4. all \in SUBSET Hosts
  BY <1>0
<1> HIDE DEF all
<1>5. m \in Memories
  BY <1>0, <1>4, Zenon DEF Memories
<1>6. /\ m.pc = p[d].pc /\ m.conf = p[d].conf /\ m.split = all /\ m.turn = p[d].turn
      /\ m.reload = r
  BY <1>0 DEF Memories
<1> HIDE DEF m
<1>7. /\ k' \in Kernels /\ k'.wg = k.wg /\ k'.raw = k.raw /\ k'.host = k.host \cup dom(d)
  BY <1>0, <1>3, Types, HostRoutes
<1>8. \A h \in k'.host :
         /\ h \in k.host \/ h \in m.split \/ h \in m.turn
         /\ h \in mine(d) => h \in m.split \/ h \in m.turn
  BY <1>6, <1>7 DEF mine, all
<1>9. Settled(m, fleet[d])
  BY <1>0, <1>1, <1>6 DEF Inv, Each, Settled, Alive
<1>10. cur' \in Daemons \cup {None} /\ file' \in [Daemons -> SUBSET Hosts]
  BY <1>0, <1>3 DEF Inv, TypeOK
<1>11. ProcStep(d, m)
  BY <1>0, <1>2, <1>3, <1>5, <1>6, <1>7, <1>8, <1>9, <1>10, RoutesStep DEF Alive
<1> QED
  BY <1>11

-----------------------------------------------------------------------------
LEMMA ProcSound ==
    ASSUME Inv, NEW d \in Daemons, NEW m, ProcStep(d, m)
    PROVE  Sound
<1>1. Inv' /\ Tracked
  BY ProcInv, ProcTracked
<1>2. Exits
  BY ProcExit DEF Exits
<1>3. Frees
  BY ProcCommand DEF Frees
<1> QED
  BY <1>1, <1>2, <1>3 DEF Sound

LEMMA ProcessSound ==
    ASSUME Inv, NEW d \in Daemons, Process(d) \/ Connect(d) \/ switchCmd(d)
    PROVE  Sound
<1>1. SUFFICES \E m : ProcStep(d, m)
  BY ProcSound
<1>2. CASE Goes(d)
  BY <1>2, ExitingStep, EndStep, NextTryStep, LoadFailsStep, StartFailsStep, StartWorksStep,
     ProbeWorksStep, ConfigFailsStep DEF Goes, Returns, Starts, Probes
<1>3. CASE Configures(d)
  BY <1>3, ConfigTunStep, ConfigRawStep, ConfigSocksStep, ConfigFailsStep DEF Configures
<1>4. CASE Events(d)
  <2>1. CASE Running(d)
    BY <2>1, FilesStep
  <2>2. CASE ~Running(d)
    BY <1>4, <2>2, TryEndsStep
       DEF Events, Timeout, StopSeen, SwitchSeen, ResumeSeen, CoreGone
  <2> QED
    BY <2>1, <2>2
<1>5. CASE CoreRawSetup(d) \/ CoreCloses(d) \/ teardownRawTUN(d)
  BY <1>5, RawCoreStep
<1>6. CASE ReloadClears(d) \/ ReloadSocks(d) \/ ReloadAdds(d)
  BY <1>6, ReloadClearsStep, ReloadAddsStep, FilesStep
<1>7. CASE Connect(d) \/ switchCmd(d)
  BY <1>7, ConnectStep, SwitchStep
<1> QED
  BY <1>2, <1>3, <1>4, <1>5, <1>6, <1>7 DEF Process

-----------------------------------------------------------------------------
(* Commands                                                                *)

(* Where no list grows and only a dead process's list changes.             *)
LEMMA StillTracked ==
    ASSUME k'.host \subseteq k.host,
           \A e \in Daemons : mine(e)' = mine(e) \/ ~Alive(e)'
    PROVE  Tracked
<1> SUFFICES ASSUME NEW h \in k'.host, h \in Kept
             PROVE  h \in Kept' \/ \E d \in Daemons : h \in mine(d) /\ ~Alive(d)'
  BY DEF Tracked
<1>1. PICK e \in Daemons : h \in mine(e)
  BY DEF Kept
<1>2. CASE mine(e)' = mine(e)
  BY <1>1, <1>2 DEF Kept
<1> QED
  BY <1>1, <1>2

(* killDaemonProcess sends SIGINT to d in a command q.                     *)
LEMMA InterruptSound ==
    ASSUME Inv, NEW d \in Daemons, NEW q \in Commanders, Interrupt(d, q),
           q.kind # "all" => q.rest = {} /\ q.names \subseteq {d} /\ q.current = None,
           q.kind = "toggle" => q.act = None,
           \A e \in q.names :
             Alive(e) => e \in q.rest \/ e = d \/ (q.current = e /\ ~auto(e))
    PROVE  Sound
<1> DEFINE b == Alive(d)
           m == [p[d] EXCEPT !.stop = b]
<1>0. p[d] \in Memories
  BY Types
<1>1. b \in BOOLEAN
  BY SMT DEF Alive
<1>2. /\ p' = [p EXCEPT ![d] = m] /\ cmd' = [q EXCEPT !.pc = "wait", !.target = d]
      /\ UNCHANGED <<fleet, k, active, cur, file>>
  BY DEF Interrupt, Set
<1>3. ~b => m = NewProcess
  <2>1. ~b => p[d] = NewProcess
    BY DEF Inv, Each, Settled, Alive
  <2>2. [p[d] EXCEPT !.stop = p[d].stop] = p[d]
    BY <1>0, SMT DEF Memories
  <2>3. ~b => b = FALSE /\ p[d].stop = FALSE
    BY <1>1, <2>1 DEF NewProcess
  <2> HIDE DEF b
  <2> QED
    BY <2>1, <2>2, <2>3
<1> HIDE DEF b
<1>4. m \in Memories
  BY <1>0, <1>1, Zenon DEF Memories
<1>5. /\ m.pc = p[d].pc /\ m.conf = p[d].conf /\ m.split = p[d].split /\ m.turn = p[d].turn
      /\ m.reload = p[d].reload
  BY <1>0 DEF Memories
<1> HIDE DEF m
<1>6. \A e \in Daemons : p'[e] = IF e = d THEN m ELSE p[e]
  BY <1>2 DEF Inv, TypeOK
<1>7. \A e \in Daemons : (Alive(e)' <=> Alive(e)) /\ mine(e)' = mine(e)
  BY <1>5, <1>6 DEF Alive, mine
<1>8. /\ cmd' \in Commanders /\ cmd'.pc = "wait" /\ cmd'.target = d /\ cmd'.kind = q.kind
      /\ cmd'.names = q.names /\ cmd'.rest = q.rest /\ cmd'.act = q.act
      /\ cmd'.current = q.current
  <2>1. [q EXCEPT !.pc = "wait", !.target = d] \in Commanders
    BY Zenon DEF Commanders
  <2> QED
    BY <1>2, <2>1 DEF Commanders
<1>9. TypeOK'
  BY <1>2, <1>4, <1>8 DEF Inv, TypeOK
<1>10. Commanding'
  <2>1. q.names \subseteq Daemons
    BY DEF Commanders
  <2> QED
    BY <1>2, <1>7, <1>8, <2>1 DEF Commanding, skipKill, auto
<1>11. ASSUME NEW e \in Daemons PROVE Each(e)'
  <2>1. Each(e)
    BY DEF Inv
  <2>2. CASE e = d
    BY <1>2, <1>3, <1>5, <1>6, <2>1, <2>2 DEF Each, Settled, Linked, Alive, b
  <2>3. CASE e # d
    BY <1>2, <1>6, <2>1, <2>3 DEF Each
  <2> QED
    BY <2>2, <2>3
<1>12. Tracked
  BY <1>2, <1>7, StillTracked
<1>13. Exits /\ Frees
  BY <1>7, <1>8 DEF Exits, Frees
<1> QED
  BY <1>9, <1>10, <1>11, <1>12, <1>13 DEF Sound, Inv

LEMMA CommandTypes ==
    ASSUME Inv
    PROVE  /\ cmd \in Commanders /\ NoCmd \in Commanders
           /\ cmd.names \in SUBSET Daemons /\ cmd.rest \in SUBSET Daemons
           /\ cmd.act \in Daemons \cup {None} /\ cmd.saved \in SUBSET Hosts
<1>1. cmd \in Commanders
  BY DEF Inv, TypeOK
<1>2. NoCmd \in Commanders
  BY Zenon DEF NoCmd, Commanders
<1> QED
  BY <1>1, <1>2 DEF Commanders

LEMMA StopsSound ==
    ASSUME Inv, NEW d \in Daemons, disconnectCmd(d) \/ toggleCmd(d) \/ AllNext(d)
    PROVE  Sound
<1>1. CASE disconnectCmd(d) /\ \E e \in Daemons : switchCmd(e)
  BY <1>1, ProcessSound
<1>2. CASE disconnectCmd(d) /\ ~\E e \in Daemons : switchCmd(e)
  <2>1. PICK a \in Daemons \cup {None} : a = IF active = d THEN d ELSE None
    OBVIOUS
  <2> DEFINE q == [NoCmd EXCEPT !.names = {d}, !.act = a]
  <2>2. Interrupt(d, q)
    BY <1>2, <2>1 DEF disconnectCmd
  <2>3. NoCmd \in Commanders /\ {d} \in SUBSET Daemons
    BY CommandTypes
  <2>4. q \in Commanders
    BY <2>3, Zenon DEF Commanders
  <2>5. q.kind = "one" /\ q.rest = {} /\ q.names = {d} /\ q.current = None
    BY DEF NoCmd
  <2> HIDE DEF q
  <2> QED
    BY <2>2, <2>4, <2>5, InterruptSound
<1>3. CASE toggleCmd(d)
  <2> DEFINE q == [NoCmd EXCEPT !.kind = "toggle", !.names = {d}]
  <2>2. Interrupt(d, q)
    BY <1>3 DEF toggleCmd
  <2>3. NoCmd \in Commanders /\ {d} \in SUBSET Daemons
    BY CommandTypes
  <2>4. q \in Commanders
    BY <2>3, Zenon DEF Commanders
  <2>5. q.kind = "toggle" /\ q.rest = {} /\ q.names = {d} /\ q.act = None /\ q.current = None
    BY DEF NoCmd
  <2> HIDE DEF q
  <2> QED
    BY <2>2, <2>4, <2>5, InterruptSound
<1>4. CASE AllNext(d)
  <2>1. PICK r \in SUBSET Daemons : r = cmd.rest \ {d}
    BY CommandTypes
  <2> DEFINE q == [cmd EXCEPT !.rest = r]
  <2>2. Interrupt(d, q) /\ cmd.pc = "next" /\ d \in cmd.rest
    BY <1>4, <2>1, CommandTypes DEF AllNext, Reached, Commanders
  <2>3. cmd \in Commanders
    BY CommandTypes
  <2>4. q \in Commanders
    BY <2>3, Zenon DEF Commanders
  <2>5. /\ q.kind = cmd.kind /\ q.rest = r /\ q.names = cmd.names /\ q.act = cmd.act
        /\ q.current = cmd.current
    BY <2>3 DEF Commanders
  <2> HIDE DEF q
  <2>6. /\ cmd.kind = "all"
        /\ \A e \in cmd.names : Alive(e) => e \in cmd.rest \/ skipKill(e)
    BY <2>2 DEF Inv, Commanding
  <2>7. \A e \in q.names :
          Alive(e) => e \in q.rest \/ e = d \/ (q.current = e /\ ~auto(e))
    BY <2>1, <2>5, <2>6 DEF skipKill
  <2> QED
    BY <2>2, <2>4, <2>5, <2>6, <2>7, InterruptSound
<1> QED
  BY <1>1, <1>2, <1>3, <1>4

(* Steps of a command that stop nobody and end nothing.                    *)
LEMMA CommandSound ==
    ASSUME Inv, UNCHANGED <<fleet, p, k, active>>, cur' \in Daemons \cup {None},
           file' \in [Daemons -> SUBSET Hosts], cmd' \in Commanders, cmd'.pc # "idle",
           Commanding'
    PROVE  Sound
<1>1. TypeOK'
  BY DEF Inv, TypeOK
<1>2. \A d \in Daemons : Each(d)'
  BY DEF Inv, Each
<1>3. \A d \in Daemons : (Alive(d)' <=> Alive(d)) /\ mine(d)' = mine(d)
  BY DEF Alive, mine
<1>4. Tracked
  BY <1>3, StillTracked
<1>5. Exits /\ Frees
  BY <1>3 DEF Exits, Frees
<1> QED
  BY <1>1, <1>2, <1>4, <1>5 DEF Sound, Inv

LEMMA ForceKillSound ==
    ASSUME Inv, NEW d \in Daemons, ForceKill(d)
    PROVE  Sound
<1> DEFINE q == [cmd EXCEPT !.pc = "clean"]
<1>0. cmd \in Commanders /\ cmd.names \in SUBSET Daemons /\ cmd.pc = "wait" /\ cmd.target = d
  BY CommandTypes DEF ForceKill
<1>1. q \in Commanders
  BY <1>0, Zenon DEF Commanders
<1>2. /\ q.pc = "clean" /\ q.kind = cmd.kind /\ q.target = cmd.target /\ q.names = cmd.names
      /\ q.rest = cmd.rest /\ q.act = cmd.act /\ q.current = cmd.current
  BY <1>0 DEF Commanders
<1>3. cmd' = q
  BY DEF ForceKill, Ends
<1>4. CASE Alive(d)
  <2>1. Ends(d, q)
    BY <1>4 DEF ForceKill
  <2> HIDE DEF q
  <2>2. \A e \in Daemons : p'[e] = IF e = d THEN NewProcess ELSE p[e]
    BY <2>1, Ending DEF Inv, TypeOK
  <2>3. TypeOK'
    BY <1>1, <2>1, Ending DEF Inv, TypeOK
  <2>4. ASSUME NEW e \in Daemons PROVE Each(e)'
    <3>1. Each(e)
      BY DEF Inv
    <3>2. CASE e = d
      BY <2>1, <2>2, <3>1, <3>2, Ending DEF Each, Linked
    <3>3. CASE e # d
      <4>1. k'.wg = k.wg /\ k'.raw \in {k.raw, None} /\ fleet' = fleet
        BY <2>1, Ending
      <4> QED
        BY <2>2, <3>1, <3>3, <4>1, NetworkAssumption DEF Each, Linked
    <3> QED
      BY <3>2, <3>3
  <2>5. \A e \in Daemons : /\ Alive(e)' => Alive(e) /\ e # d
                           /\ mine(e)' = mine(e) \/ ~Alive(e)'
    BY <2>1, <2>2, Ending DEF Alive, mine
  <2>6. Commanding'
    <3>1. fleet' = fleet
      BY <2>1, Ending
    <3> QED
      BY <1>0, <1>2, <1>3, <2>5, <3>1 DEF Inv, Commanding, skipKill, auto
  <2>7. k'.host = k.host
    BY <2>1, Ending
  <2>8. Tracked
    BY <2>5, <2>7, StillTracked
  <2>9. Exits /\ Frees
    BY <1>0, <1>2, <1>3 DEF Exits, Frees
  <2> QED
    BY <2>3, <2>4, <2>6, <2>8, <2>9 DEF Sound, Inv
<1>5. CASE ~Alive(d)
  <2>1. UNCHANGED <<fleet, p, k, active, cur, file>>
    BY <1>5 DEF ForceKill
  <2> HIDE DEF q
  <2>2. \A e \in Daemons : Alive(e)' <=> Alive(e)
    BY <2>1 DEF Alive
  <2>3. Commanding'
    BY <1>0, <1>2, <1>3, <1>5, <2>1, <2>2 DEF Inv, Commanding, skipKill, auto
  <2>4. cur' \in Daemons \cup {None} /\ file' \in [Daemons -> SUBSET Hosts]
    BY <2>1 DEF Inv, TypeOK
  <2> QED
    BY <1>1, <1>2, <1>3, <2>1, <2>3, <2>4, CommandSound
<1> QED
  BY <1>4, <1>5

LEMMA AllSound ==
    ASSUME Inv, disconnectAllProfiles \/ \E d \in Daemons : AllSkips(d) \/ AllStopped(d)
    PROVE  Sound
<1>1. CASE disconnectAllProfiles
  <2> DEFINE running == RunningDaemons \cup ({autoswitchCurrent} \ {None})
  <2>1. PICK n \in SUBSET Daemons, c \in Daemons \cup {None} :
          n = RunningDaemons /\ c = autoswitchCurrent
    BY DEF RunningDaemons, autoswitchCurrent, Inv, TypeOK
  <2>2. PICK r \in SUBSET Daemons : r = running /\ n \subseteq r
    BY <2>1
  <2>3. PICK a \in Daemons \cup {None} :
          a = IF autoswitchRunning THEN None ELSE activeOf(r)
    BY DEF activeOf
  <2> DEFINE q == [NoCmd EXCEPT !.pc = "next", !.kind = "all", !.names = n,
                       !.rest = r, !.current = c, !.act = a]
  <2>4. cmd' = q /\ UNCHANGED <<fleet, p, k, active, cur, file>>
    BY <1>1, <2>1, <2>2, <2>3 DEF disconnectAllProfiles
  <2>5. NoCmd \in Commanders
    BY CommandTypes
  <2>6. q \in Commanders
    BY <2>5, Zenon DEF Commanders
  <2>7. q.pc = "next" /\ q.kind = "all" /\ q.names = n /\ q.rest = r
    BY DEF NoCmd
  <2> HIDE DEF q
  <2>8. Commanding'
    BY <2>2, <2>4, <2>7 DEF Commanding
  <2>9. cur' \in Daemons \cup {None} /\ file' \in [Daemons -> SUBSET Hosts]
    BY <2>4 DEF Inv, TypeOK
  <2> QED
    BY <2>4, <2>6, <2>7, <2>8, <2>9, CommandSound
<1>2. ASSUME NEW d \in Daemons, AllSkips(d) PROVE Sound
  <2>1. PICK r \in SUBSET Daemons, s \in SUBSET Hosts :
          r = cmd.rest \ {d} /\ s = cmd.saved \cup file[d]
    BY CommandTypes, Types
  <2> DEFINE q == [cmd EXCEPT !.rest = r, !.saved = s]
  <2>2. cmd \in Commanders /\ cmd.pc = "next" /\ skipKill(d)
    BY <1>2, CommandTypes DEF AllSkips, Reached
  <2>3. cmd' = q /\ UNCHANGED <<fleet, p, k, active, cur>>
    BY <1>2, <2>1, <2>2 DEF AllSkips, Commanders
  <2>4. q \in Commanders
    BY <2>2, Zenon DEF Commanders
  <2>5. /\ q.pc = "next" /\ q.kind = cmd.kind /\ q.names = cmd.names /\ q.rest = r
        /\ q.current = cmd.current
    BY <2>2 DEF Commanders
  <2> HIDE DEF q
  <2>6. Commanding'
    <3>1. \A e : (Alive(e)' <=> Alive(e)) /\ (skipKill(e)' <=> skipKill(e))
      BY <2>3, <2>5 DEF Alive, skipKill, auto
    <3>2. cmd.kind = "all"
      BY <2>2 DEF Inv, Commanding
    <3> QED
      BY <2>1, <2>2, <2>3, <2>5, <3>1, <3>2 DEF Inv, Commanding
  <2>7. file' \in [Daemons -> SUBSET Hosts] /\ cur' \in Daemons \cup {None}
    BY <1>2, <2>3 DEF AllSkips, Inv, TypeOK
  <2> QED
    BY <2>3, <2>4, <2>5, <2>6, <2>7, CommandSound
<1>3. ASSUME NEW d \in Daemons, AllStopped(d) PROVE Sound
  <2> DEFINE reads == auto(d) => cmd.current = d
  <2>2. PICK s \in SUBSET Hosts : s = cmd.saved \cup (IF reads THEN file[d] ELSE {})
    BY CommandTypes, Types
  <2>3. PICK a \in Daemons \cup {None} : a = IF auto(d) THEN activeOf(cmd.rest) ELSE cmd.act
    BY CommandTypes DEF activeOf
  <2> DEFINE q == [cmd EXCEPT !.pc = "next", !.target = None, !.saved = s, !.act = a]
  <2>4. cmd \in Commanders /\ cmd.pc = "clean" /\ cmd.kind = "all"
    BY <1>3, CommandTypes DEF AllStopped, Stopped
  <2>5. cmd' = q /\ UNCHANGED <<fleet, p, k, active>>
    BY <1>3, <2>2, <2>3, <2>4 DEF AllStopped, Commanders
  <2>6. q \in Commanders
    BY <2>4, Zenon DEF Commanders
  <2>7. /\ q.pc = "next" /\ q.kind = "all" /\ q.names = cmd.names /\ q.rest = cmd.rest
        /\ q.current = cmd.current
    BY <2>4 DEF Commanders
  <2> HIDE DEF q
  <2>8. Commanding'
    <3>1. \A e : (Alive(e)' <=> Alive(e)) /\ (skipKill(e)' <=> skipKill(e))
      BY <2>5, <2>7 DEF Alive, skipKill, auto
    <3> QED
      BY <2>4, <2>5, <2>7, <3>1 DEF Inv, Commanding
  <2>9. cur' \in Daemons \cup {None}
    BY <1>3, Types DEF AllStopped, Inv, TypeOK
  <2>10. file' \in [Daemons -> SUBSET Hosts]
    BY <1>3, Types DEF AllStopped, Inv, TypeOK
  <2> QED
    BY <2>5, <2>6, <2>7, <2>8, <2>9, <2>10, CommandSound
<1> QED
  BY <1>1, <1>2, <1>3

(* The end of a command: the daemons it was to kill are gone, and their    *)
(* raw interfaces with them; wg-qwdtt goes where the command had reason to *)
(* think it is one of theirs.                                              *)
LEMMA FreeSound ==
    ASSUME Inv, UNCHANGED <<fleet, p>>, cmd' = NoCmd,
           k' \in Kernels, k'.wg \in {k.wg, None}, k'.raw = k.raw, k'.host \subseteq k.host,
           active' \in Daemons \cup {None}, cur' \in Daemons \cup {None},
           file' \in [Daemons -> SUBSET Hosts],
           \A e \in cmd.names : ~skipKill(e) =>
             /\ ~Alive(e)
             /\ cmd.act = e \/ (cmd.kind = "toggle" /\ (auto(e) \/ active = e)) => k'.wg # e
    PROVE  Sound
<1>1. \A e \in Daemons : (Alive(e)' <=> Alive(e)) /\ mine(e)' = mine(e)
  BY DEF Alive, mine
<1>2. TypeOK'
  BY CommandTypes DEF Inv, TypeOK
<1>3. Commanding'
  BY DEF Commanding, NoCmd
<1>4. ASSUME NEW e \in Daemons PROVE Each(e)'
  <2>1. Each(e)
    BY DEF Inv
  <2> QED
    BY <2>1, NetworkAssumption DEF Each, Linked
<1>5. Tracked
  BY <1>1, StillTracked
<1>6. Exits
  BY <1>1 DEF Exits
<1>7. Frees
  <2> SUFFICES ASSUME NEW e \in cmd.names, ~skipKill(e)
               PROVE  /\ ~Alive(e)' /\ k'.raw # e
                      /\ cmd.act = e \/ (cmd.kind = "toggle" /\ (auto(e) \/ active = e))
                           => k'.wg # e
    BY DEF Frees
  <2>1. e \in Daemons /\ ~Alive(e)
    BY CommandTypes
  <2>2. k.raw # e
    BY <2>1 DEF Inv, Each, Linked, Alive
  <2> QED
    BY <1>1, <2>1, <2>2
<1> QED
  BY <1>2, <1>3, <1>4, <1>5, <1>6, <1>7 DEF Sound, Inv

LEMMA Cleaned ==
    ASSUME Inv, NEW q \in Daemons \cup {None}, NEW routes \in SUBSET Hosts, Clean(q, routes)
    PROVE  /\ UNCHANGED <<fleet, p>> /\ cmd' = NoCmd
           /\ k' \in Kernels /\ k'.wg \in {k.wg, None} /\ k'.raw = k.raw
           /\ k'.host \subseteq k.host
           /\ active' \in Daemons \cup {None}
           /\ q \in cmd.names => k'.wg # q
<1> DEFINE gone == IF q # None /\ detailsMode(q) # "raw" THEN teardownWG(k, {}) ELSE k
<1>1. /\ UNCHANGED <<fleet, p>> /\ cmd' = NoCmd /\ k' = ClearBypassRoutes(gone, routes)
      /\ active' \in Daemons \cup {None}
  BY DEF Clean, Inv, TypeOK
<1>2. k \in Kernels /\ {} \in SUBSET Hosts
  BY DEF Inv, TypeOK
<1>3. gone \in Kernels /\ gone.wg \in {k.wg, None} /\ gone.raw = k.raw /\ gone.host \subseteq k.host
  BY <1>2, Teardown
<1>4. ASSUME q \in cmd.names PROVE gone.wg # q
  <2>0. q \in Daemons /\ q # None /\ detailsMode(q) = mode(q)
    BY <1>4, CommandTypes, NetworkAssumption DEF detailsMode
  <2>1. CASE mode(q) # "raw"
    BY <1>2, <2>0, <2>1, Teardown
  <2>2. CASE mode(q) = "raw"
    BY <2>0, <2>2 DEF Inv, Each, Linked, mode
  <2> QED
    BY <2>1, <2>2
<1> HIDE DEF gone
<1> QED
  BY <1>1, <1>3, <1>4, HostRoutes

LEMMA EndsSound ==
    ASSUME Inv, NEW d \in Daemons,
           DisconnectCleans(d) \/ ToggleCleansOne(d) \/ ToggleCleansAuto(d)
    PROVE  Sound
<1>1. /\ cmd.pc = "clean" /\ cmd.target = d /\ cmd.kind \in {"one", "toggle"}
  BY DEF DisconnectCleans, ToggleCleansOne, ToggleCleansAuto, Stopped
<1>2. \A e \in cmd.names : e = d /\ (~skipKill(e) => ~Alive(e))
  BY <1>1 DEF Inv, Commanding
<1>3. cmd.act \in Daemons \cup {None} /\ (cmd.kind = "toggle" => cmd.act = None)
  BY CommandTypes DEF Inv, Commanding
<1>4. CASE DisconnectCleans(d)
  <2>1. PICK routes \in SUBSET Hosts : routes = UNION {file[e] : e \in stateFiles(d)}
    BY DEF Inv, TypeOK, stateFiles
  <2>2. Clean(cmd.act, routes) /\ cur' \in Daemons \cup {None} /\ cmd.kind = "one"
    BY <1>4, <2>1 DEF DisconnectCleans, Stopped, Inv, TypeOK
  <2>3. file' \in [Daemons -> SUBSET Hosts]
    BY <1>4 DEF DisconnectCleans, Inv, TypeOK
  <2> QED
    BY <1>2, <1>3, <2>2, <2>3, Cleaned, FreeSound, NetworkAssumption
<1>5. CASE ToggleCleansOne(d)
  <2>1. PICK q \in Daemons \cup {None} : q = IF active = d THEN d ELSE None
    OBVIOUS
  <2>2. Clean(q, {}) /\ cur' \in Daemons \cup {None} /\ cmd.kind = "toggle" /\ ~auto(d)
    BY <1>5, <2>1 DEF ToggleCleansOne, Stopped, Inv, TypeOK
  <2>3. file' \in [Daemons -> SUBSET Hosts]
    BY <1>5 DEF ToggleCleansOne, Inv, TypeOK
  <2>4. active = d /\ d \in cmd.names => k'.wg # d
    BY <2>1, <2>2, Cleaned
  <2> QED
    BY <1>2, <1>3, <2>2, <2>3, <2>4, Cleaned, FreeSound, NetworkAssumption
<1>6. CASE ToggleCleansAuto(d)
  <2>1. /\ k' = IF isKernelInterfaceActive(k) THEN teardownWG(k, {}) ELSE k
        /\ cmd' = NoCmd /\ UNCHANGED <<fleet, p, file>> /\ cur' = None
    BY <1>6 DEF ToggleCleansAuto
  <2>2. k \in Kernels /\ {} \in SUBSET Hosts
    BY DEF Inv, TypeOK
  <2>3. k' \in Kernels /\ k'.wg = None /\ k'.raw = k.raw /\ k'.host \subseteq k.host
    BY <2>1, <2>2, Teardown DEF isKernelInterfaceActive
  <2>4. active' \in Daemons \cup {None} /\ file' \in [Daemons -> SUBSET Hosts]
    BY <1>6 DEF ToggleCleansAuto, Inv, TypeOK
  <2> QED
    BY <1>2, <2>1, <2>3, <2>4, FreeSound, NetworkAssumption
<1> QED
  BY <1>4, <1>5, <1>6

LEMMA AllCleansSound ==
    ASSUME Inv, AllCleans
    PROVE  Sound
<1>1. Clean(cmd.act, cmd.saved) /\ cmd.pc = "next" /\ cmd.rest = {} /\ UNCHANGED <<cur, file>>
  BY DEF AllCleans
<1>2. cmd.kind = "all" /\ \A e \in cmd.names : ~skipKill(e) => ~Alive(e)
  BY <1>1 DEF Inv, Commanding
<1>3. cur' \in Daemons \cup {None} /\ file' \in [Daemons -> SUBSET Hosts]
  BY <1>1 DEF Inv, TypeOK
<1>4. \A e \in cmd.names : cmd.act = e => k'.wg # e
  BY <1>1, CommandTypes, Cleaned, NetworkAssumption
<1> QED
  BY <1>1, <1>2, <1>3, <1>4, CommandTypes, Cleaned, FreeSound

-----------------------------------------------------------------------------
LEMMA InitInv == Init => Inv
<1> SUFFICES ASSUME Init PROVE Inv
  OBVIOUS
<1>1. \A d \in Daemons : p[d] = NewProcess /\ fleet[d] \in Settings
  BY DaemonAssumption DEF Init
<1>2. TypeOK
  <2>1. p \in [Daemons -> Memories]
    BY <1>1, NewMemory DEF Init
  <2>2. cmd \in Commanders
    BY Zenon DEF Init, NoCmd, Commanders
  <2>3. k \in Kernels
    BY DEF Init, BareKernel, Kernels
  <2> QED
    BY <2>1, <2>2, <2>3 DEF Init, TypeOK
<1>3. Commanding
  BY DEF Init, NoCmd, Commanding
<1>4. ASSUME NEW d \in Daemons PROVE Each(d)
  BY <1>1, NewMemory, NetworkAssumption DEF Init, BareKernel, Each, Linked
<1> QED
  BY <1>2, <1>3, <1>4 DEF Inv

LEMMA StepSound == Inv /\ Next => Sound
<1> SUFFICES ASSUME Inv, Next PROVE Sound
  OBVIOUS
<1>1. ASSUME NEW d \in Daemons, Process(d) PROVE Sound
  BY <1>1, ProcessSound
<1>2. ASSUME NEW d \in Daemons, Commands(d) PROVE Sound
  BY <1>2, ProcessSound, ForceKillSound, StopsSound, EndsSound, AllSound DEF Commands
<1>3. CASE disconnectAllProfiles \/ AllCleans
  BY <1>3, AllSound, AllCleansSound
<1> QED
  BY <1>1, <1>2, <1>3 DEF Next

LEMMA StutterInv == Inv /\ UNCHANGED vars => Inv'
<1> SUFFICES ASSUME Inv, UNCHANGED vars PROVE Inv'
  OBVIOUS
<1>1. TypeOK'
  BY DEF Inv, TypeOK, vars
<1>2. Commanding'
  BY DEF Inv, Commanding, Alive, skipKill, auto, vars
<1>3. \A d \in Daemons : Each(d)'
  BY DEF Inv, Each, vars
<1> QED
  BY <1>1, <1>2, <1>3 DEF Inv

(* The inductive invariant holds of every daemon, kernel and command.      *)
THEOREM Invariance == Spec => []Inv
<1>1. Inv /\ [Next]_vars => Inv'
  BY StepSound, StutterInv DEF Sound
<1> QED
  BY InitInv, <1>1, PTL DEF Spec

(* The memory of every process, the kernel, the state files and the        *)
(* command keep their types, whatever daemons run beside each other.       *)
THEOREM TypeCorrect == Spec => []TypeOK
<1>1. Inv => TypeOK
  BY DEF Inv
<1> QED
  BY <1>1, Invariance, PTL

(* No handler of connect.go adds a route past the tunnel without its       *)
(* process keeping it in splitRoutes or routedTurnIPs, and none forgets a  *)
(* route that is still in the kernel.                                      *)
THEOREM RoutesAreTracked == Spec => RoutesTracked
<1>1. Inv /\ [Next]_vars => [Tracked]_vars
  BY StepSound DEF Sound
<1>2. [Tracked]_vars <=>
        [\A h \in k'.host : (h \in k.host => h \in Kept) =>
           h \in Kept' \/ \E d \in Daemons : h \in mine(d) /\ ~Alive(d)']_vars
  BY DEF Tracked
<1> QED
  BY <1>1, <1>2, Invariance, PTL DEF Spec, RoutesTracked

(* Every way out of connectCmd (the deferred calls, a fatal error, giving  *)
(* up) leaves no interface and no route of the process behind.             *)
THEOREM ExitsAreClean == Spec => ExitClean
<1>1. Inv /\ [Next]_vars => [Exits]_vars
  BY StepSound DEF Sound
<1>2. [Exits]_vars <=>
        [\A d \in Daemons :
           Alive(d) /\ ~Alive(d)' /\ cmd'.pc = cmd.pc =>
              /\ k'.wg # d /\ k'.raw # d /\ p[d].turn = {}
              /\ p[d].split = {} \/ p[d].reload = "late"]_vars
  BY DEF Exits
<1> QED
  BY <1>1, <1>2, Invariance, PTL DEF Spec, ExitClean

(* Whatever disconnect, disconnect --all or connect --toggle met, the      *)
(* daemons it was about are gone when it returns, with their interfaces;   *)
(* only the daemon whose kill disconnect --all skips can still run.        *)
THEOREM DisconnectsFree == Spec => DisconnectFrees
<1>1. Inv /\ [Next]_vars => [Frees]_vars
  BY StepSound DEF Sound
<1>2. [Frees]_vars <=>
        [\A d \in cmd.names :
           cmd'.pc = "idle" /\ ~skipKill(d) =>
              /\ ~Alive(d)' /\ k'.raw # d
              /\ cmd.act = d \/ (cmd.kind = "toggle" /\ (auto(d) \/ active = d))
                   => k'.wg # d]_vars
  BY DEF Frees
<1> QED
  BY <1>1, <1>2, Invariance, PTL DEF Spec, DisconnectFrees
=============================================================================
