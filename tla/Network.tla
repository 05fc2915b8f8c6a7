------------------------------- MODULE Network ------------------------------
(***************************************************************************)
(* wireguard_linux.go and internal/core/tun_linux.go: what the program     *)
(* does to the kernel's interfaces and routes, as functions from one       *)
(* kernel state to the next.  The kernel is shared by every daemon and by  *)
(* the commands; the program refers to its objects by name and             *)
(* destination only, never by the process that made them.                  *)
(*   wg    the process whose wg-qwdtt exists, or None                      *)
(*   raw   the process whose raw-qwdtt exists, or None                     *)
(*   half  the device of 0.0.0.0/1 and 128.0.0.0/1 (they come and go       *)
(*         together): "none", "wg" or "raw"                                *)
(*   host  the destinations that have a route past the tunnel              *)
(***************************************************************************)
CONSTANTS Daemons,  \* the processes that may own an interface
          Hosts,    \* addresses of TURN servers and of bypassed domains
          None

ASSUME NetworkAssumption == None \notin Daemons

Kernels == [wg : Daemons \cup {None}, raw : Daemons \cup {None},
            half : {"none", "wg", "raw"}, host : SUBSET Hosts]

BareKernel == [wg |-> None, raw |-> None, half |-> "none", host |-> {}]

isKernelInterfaceActive(k) == k.wg # None
rawIfaceActive(k)          == k.raw # None

(* A route dies with its device; RouteDel by destination asks for none.    *)
NoHalf(k, dev) == [k EXCEPT !.half = IF @ = dev THEN "none" ELSE @]
LinkDelWG(k)   == [NoHalf(k, "wg") EXCEPT !.wg = None]
LinkDelRaw(k)  == [NoHalf(k, "raw") EXCEPT !.raw = None]

(* RouteAdd is exclusive: a second pair for the same destinations is       *)
(* refused (EEXIST), with a warning in applyWGConfig and silently in       *)
(* setupRawTUN.                                                            *)
AddHalf(k, dev) == [k EXCEPT !.half = IF @ = "none" THEN dev ELSE @]

addHostRoutes(k, hosts) == [k EXCEPT !.host = @ \cup hosts]
ClearBypassRoutes(k, hosts) == [k EXCEPT !.host = @ \ hosts]

(* Mutant: only the two halves go.                                         *)
teardownTunnelRoutes_Halves(k, mine) == [k EXCEPT !.half = "none"]

(* "mine" are the routes the calling process keeps in splitRoutes and      *)
(* routedTurnIPs; the two halves go whoever added them.                    *)
teardownTunnelRoutes(k, mine) == [ClearBypassRoutes(k, mine) EXCEPT !.half = "none"]
teardownWG(k, mine) == LinkDelWG(teardownTunnelRoutes(k, mine))

(* applyWGConfig, when nothing fails; after a failure its caller tears     *)
(* down what is there.  The host routes need a default gateway.            *)
applyWGConfig(k, d, mine, hosts) ==
    LET clear == IF isKernelInterfaceActive(k) THEN teardownWG(k, mine) ELSE k
    IN  AddHalf(addHostRoutes([clear EXCEPT !.wg = d], hosts), "wg")

(* TUNSETIFF fails while raw-qwdtt exists: its only queue is taken.        *)
createRawTUN(k, d) == [k EXCEPT !.raw = d]
setupRawTUN(k) == IF rawIfaceActive(k) THEN AddHalf(k, "raw") ELSE k

(* What the kernel does when a process ends: a TUN device goes with its    *)
(* last descriptor, a WireGuard link and host routes stay.                 *)
ProcessEnds(k, d) == IF k.raw = d THEN LinkDelRaw(k) ELSE k
=============================================================================
