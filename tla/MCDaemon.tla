------------------------------ MODULE MCDaemon ------------------------------
(* Two daemons side by side, in the pairs that meet in the kernel, or one  *)
(* daemon of each kind alone.                                              *)
EXTENDS Daemon, TLC

CONSTANTS d1, d2, turnA, siteA

One(m, a, sites, turns) == [mode |-> m, auto |-> a, dom |-> sites, turn |-> turns]
Pair(x, y) == d1 :> x @@ d2 :> y

TunAndSocks  == Pair(One("tun", FALSE, {}, {turnA}), One("socks", FALSE, {siteA}, {}))
TunAndSwitch == Pair(One("tun", FALSE, {siteA}, {}), One("socks", TRUE, {}, {}))
TunAndTun    == Pair(One("tun", FALSE, {}, {}), One("tun", TRUE, {}, {turnA}))
RawAndSocks  == Pair(One("raw", FALSE, {siteA}, {turnA}), One("socks", FALSE, {}, {}))

MCFleets == {TunAndSocks, TunAndSwitch, TunAndTun, RawAndSocks}
SocksFleets == {TunAndSocks}
SoloFleets == {d1 :> One(m, a, {siteA}, {turnA}) : m \in Modes, a \in BOOLEAN}
=============================================================================
