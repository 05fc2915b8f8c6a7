------------------------------- MODULE Daemon -------------------------------
(***************************************************************************)
(* connect.go, with suspend.go, the control socket of captcha_socket.go    *)
(* and the disconnect and switch commands of commands.go: the daemons that *)
(* `qwdtt connect` leaves in the background, the kernel they share (module *)
(* Network) and the files they share.  A daemon runs the profile of its    *)
(* name, or all profiles in turn (auto-switch).  A profile is named by the *)
(* daemon that runs it; an auto-switch daemon's own name stands for the    *)
(* profiles no other daemon runs.                                          *)
(* tryConnectProfile starts a Core (module Core), waits for its events and *)
(* sets the network up when the configuration comes.  The handler of one   *)
(* event runs to its end before the next select, while the socket's        *)
(* handlers, the Core's goroutines, the other daemons and the commands go  *)
(* on.  What a Core, a server, the network and the user do are inputs.     *)
(***************************************************************************)
EXTENDS Network

CONSTANT Fleets  \* what each daemon is: functions from Daemons to settings

Modes == {"tun", "raw", "socks"}
Settings == [mode : Modes, auto : BOOLEAN, dom : SUBSET Hosts, turn : SUBSET Hosts]

ASSUME DaemonAssumption == Fleets \subseteq [Daemons -> Settings]

VARIABLES
    fleet,   \* the flags each daemon is started with
    p,       \* the memory of each process
    k,       \* the kernel
    active,  \* file active_profile: the daemon it names, or None
    cur,     \* file autoswitch_current_profile: the profile, or None
    file,    \* split_routes in the state files qwdtt-<profile>.bl
    cmd      \* the command that is stopping daemons

vars == <<fleet, p, k, active, cur, file, cmd>>

mode(d) == fleet[d].mode
auto(d) == fleet[d].auto
dom(d)  == fleet[d].dom
mine(d) == p[d].split \cup p[d].turn  \* splitRoutes and routedTurnIPs
Alive(d) == p[d].pc # "off"
Inside(d) == p[d].pc \in {"open", "probe"}  \* in tryConnectProfile's loop

Memories ==
    [pc : {"off", "loop", "again", "open", "probe", "ret", "exiting"},
     ret : {"next", "resume", "fatal"},  \* what tryConnectProfile returned
     list : SUBSET Daemons,       \* profiles
     on : Daemons \cup {None},    \* currentProfile
     conf : BOOLEAN,     \* wgConfigured or rawConfigured
     router : BOOLEAN,   \* cs.router is set: GET_BL is answered
     stop : BOOLEAN,     \* stopCh is closed
     sw : BOOLEAN,       \* the switch channel of this try is closed
     split : SUBSET Hosts, turn : SUBSET Hosts,
     reload : {"idle", "busy", "late"},  \* a BL_RELOAD handler; "late" if it
                         \* added routes that teardownMode will not clear
     bl : Daemons \cup {None},    \* the profile whose state file it writes
     got : BOOLEAN,      \* raw: the Core got RAWCONF and announced raw_conf
     old : BOOLEAN,      \* raw: a Core was stopped and is not down yet
     tear : BOOLEAN,     \* raw: a Core closed its TUN, not yet torn it down
     name : BOOLEAN]     \* raw: rawNetworking.iface is set

NewProcess ==
    [pc |-> "off", ret |-> "next", list |-> {}, on |-> None, conf |-> FALSE,
     router |-> FALSE, stop |-> FALSE, sw |-> FALSE,
     split |-> {}, turn |-> {}, reload |-> "idle", bl |-> None, got |-> FALSE,
     old |-> FALSE, tear |-> FALSE, name |-> FALSE]

(* teardownTunnelRoutes empties both lists.                                *)
Cleared(m) == [m EXCEPT !.split = {}, !.turn = {},
                        !.reload = IF @ = "late" THEN "idle" ELSE @]

(* A command that stops daemons: disconnect, connect --toggle or           *)
(* disconnect --all.                                                       *)
Commanders ==
    [pc : {"idle", "next", "wait", "clean"}, kind : {"one", "toggle", "all"},
     target : Daemons \cup {None},  \* the daemon that was sent SIGINT
     names : SUBSET Daemons,        \* the daemons the command is about
     rest : SUBSET Daemons,         \* --all: the profiles not come to yet
     act : Daemons \cup {None},     \* the activeProfile it has read, if it
                                    \* is one of those
     current : Daemons \cup {None}, \* --all: autoswitchCurrent
     saved : SUBSET Hosts]          \* --all: allSavedRoutes

NoCmd == [pc |-> "idle", kind |-> "one", target |-> None, names |-> {}, rest |-> {},
          act |-> None, current |-> None, saved |-> {}]

(* Safety of the data: every field has one of the values the code gives it.*)
TypeOK ==
    /\ fleet \in Fleets
    /\ p \in [Daemons -> Memories]
    /\ k \in Kernels
    /\ active \in Daemons \cup {None}
    /\ cur \in Daemons \cup {None}
    /\ file \in [Daemons -> SUBSET Hosts]
    /\ cmd \in Commanders

Init ==
    /\ fleet \in Fleets
    /\ p = [d \in Daemons |-> NewProcess]
    /\ k = BareKernel
    /\ active = None /\ cur = None
    /\ file = [d \in Daemons |-> {}]
    /\ cmd = NoCmd

-----------------------------------------------------------------------------
(* connectCmd                                                              *)

Set(d, m) == p' = [p EXCEPT ![d] = m]

autoswitchRunning == \E e \in Daemons : Alive(e) /\ auto(e)
noKernelTunnel == ~isKernelInterfaceActive(k) /\ ~rawIfaceActive(k)

(* The checks before daemonizing; an auto-switch daemon in raw mode has    *)
(* none of its own, a socks daemon only wants its port.                    *)
preChecks(d) ==
    \/ auto(d) /\ ~autoswitchRunning /\ (mode(d) = "tun" => noKernelTunnel)
    \/ /\ ~auto(d)
       /\ mode(d) = "tun" => \A e \in Daemons : Alive(e) /\ auto(e) => mode(e) = "socks"
       /\ mode(d) # "socks" => noKernelTunnel

(* The profiles the daemon will try; in socks mode auto-switch leaves out  *)
(* those that have a daemon of their own at this time.                     *)
profileList(d) ==
    {d} \cup {e \in Daemons : auto(d) /\ ~auto(e) /\ (mode(d) = "socks" => ~Alive(e))}

(* From the checks to the profile loop, which takes the list in some       *)
(* order.  While a command stops the profile nobody connects it again.     *)
Connect(d) ==
    /\ ~Alive(d) /\ d \notin cmd.names
    /\ preChecks(d)
    /\ \E x \in profileList(d) :
         Set(d, [NewProcess EXCEPT !.pc = "loop", !.list = profileList(d), !.on = x])
    /\ active' = IF auto(d) \/ mode(d) # "socks" THEN d ELSE active
    /\ UNCHANGED <<fleet, k, cur, file, cmd>>

(* The process is gone: its memory, and the TUN it had open.               *)
Ends(d, q) ==
    /\ Set(d, NewProcess)
    /\ k' = ProcessEnds(k, d)
    /\ cmd' = q
    /\ UNCHANGED <<fleet, active, cur, file>>

(* A return from connectCmd: the deferred calls.                           *)
deferredExit(d) ==
    /\ Set(d, [Cleared(p[d]) EXCEPT !.pc = "exiting", !.ret = "next"])
    /\ k' = teardownTunnelRoutes(k, mine(d))
    /\ cur' = IF auto(d) THEN None ELSE cur
    /\ UNCHANGED <<fleet, active, file, cmd>>

LoopStops(d) ==
    /\ p[d].pc = "loop" /\ p[d].stop
    /\ deferredExit(d)

Leave(d) ==
    /\ p[d].pc = "exiting"
    /\ Ends(d, cmd)

(* After tryConnectProfile: a fatal error ends an auto-switch daemon; then *)
(* comes the stop channel, then a resume, then the next profile.           *)
FatalExit(d) ==
    /\ p[d].pc = "ret" /\ p[d].ret = "fatal" /\ auto(d)
    /\ Set(d, [Cleared(p[d]) EXCEPT !.pc = "exiting", !.ret = "next"])
    /\ k' = teardownWG(k, mine(d))
    /\ UNCHANGED <<fleet, active, cur, file, cmd>>

Failed(d) == p[d].pc = "ret" /\ ~(p[d].ret = "fatal" /\ auto(d))

StopAfterTry(d) ==
    /\ Failed(d) /\ p[d].stop
    /\ deferredExit(d)

TryAgain(d) ==
    /\ Failed(d) /\ ~p[d].stop /\ p[d].ret = "resume"
    /\ Set(d, [p[d] EXCEPT !.pc = "again", !.ret = "next"])
    /\ UNCHANGED <<fleet, k, active, cur, file, cmd>>

NextProfile(d) ==
    /\ Failed(d) /\ ~p[d].stop /\ p[d].ret # "resume" /\ auto(d)
    /\ \E x \in p[d].list : Set(d, [p[d] EXCEPT !.pc = "loop", !.ret = "next", !.on = x])
    /\ UNCHANGED <<fleet, k, active, cur, file, cmd>>

GiveUp(d) ==
    /\ Failed(d) /\ ~p[d].stop /\ p[d].ret # "resume" /\ ~auto(d)
    /\ Ends(d, cmd)

-----------------------------------------------------------------------------
(* tryConnectProfile                                                       *)

(* A return, with its deferred removeSplitCfg.  skipActiveProfileClear is  *)
(* the negation of auto-switch.  In raw mode a Core that ran goes down on  *)
(* its own: nobody waits for it.                                           *)
Return(d, m, r, clears, ran) ==
    /\ Set(d, [m EXCEPT !.pc = "ret", !.ret = r, !.conf = FALSE,
                        !.sw = FALSE,
                        !.old = @ \/ (ran /\ mode(d) = "raw")])
    /\ file' = [file EXCEPT ![p[d].on] = {}]
    /\ active' = IF clears /\ auto(d) THEN None ELSE active
    /\ UNCHANGED <<fleet, cur, cmd>>

FatalIfAuto(d) == IF auto(d) THEN "fatal" ELSE "next"

Begins(d) == p[d].pc = "again" \/ (p[d].pc = "loop" /\ ~p[d].stop)

(* loadProfile fails, or core.New, which is fatal in auto-switch.          *)
LoadFails(d) ==
    /\ Begins(d)
    /\ \E r \in {"next", FatalIfAuto(d)} : Return(d, p[d], r, TRUE, FALSE)
    /\ k' = k

(* Core.Start: TUNSETIFF is one of its ways to fail.                       *)
StartFails(d) ==
    /\ Begins(d)
    /\ Return(d, Cleared(p[d]), FatalIfAuto(d), TRUE, FALSE)
    /\ k' = teardownWG(k, mine(d))

StartWorks(d) ==
    /\ Begins(d)
    /\ mode(d) = "raw" => ~rawIfaceActive(k)
    /\ k' = IF mode(d) = "raw" THEN createRawTUN(k, d) ELSE k
    /\ Set(d, [p[d] EXCEPT !.pc = "open", !.got = FALSE, !.name = (mode(d) = "raw")])
    /\ UNCHANGED <<fleet, active, cur, file, cmd>>

Open(d) == p[d].pc = "open"

(* teardownMode, and the way out of the event loop that begins with it.    *)
TornDown(d) == IF p[d].conf THEN Cleared(p[d]) ELSE p[d]

teardownMode(d) ==
    k' = IF ~p[d].conf THEN k
         ELSE IF mode(d) = "raw" THEN teardownTunnelRoutes(k, mine(d))
         ELSE teardownWG(k, mine(d))

TryEnds(d, r, clears) ==
    /\ teardownMode(d)
    /\ Return(d, TornDown(d), r, clears, TRUE)

Timeout(d)    == Open(d) /\ auto(d) /\ ~p[d].conf /\ TryEnds(d, "next", TRUE)

(* Mutant: the stop channel is only watched until the tunnel is set up.    *)
StopSeen_Early(d) == Open(d) /\ p[d].stop /\ ~p[d].conf /\ TryEnds(d, "next", TRUE)
StopSeen(d)   == Open(d) /\ p[d].stop /\ TryEnds(d, "next", TRUE)
SwitchSeen(d) == Open(d) /\ p[d].sw /\ TryEnds(d, "next", FALSE)

(* monitorSuspendResume heard that the machine woke up.                    *)
ResumeSeen(d) == Open(d) /\ TryEnds(d, "resume", TRUE)

(* The events closed, "disconnected", "workers_completed" or FATAL.        *)
CoreGone(d) == Open(d) /\ TryEnds(d, "next", TRUE)

(* setAutoswitchCurrentProfile.                                            *)
SetCurrent(d) == cur' = IF auto(d) THEN p[d].on ELSE cur

(* EventState "running": the first worker is connected.                    *)
Running(d) ==
    /\ Open(d) /\ auto(d)
    /\ SetCurrent(d)
    /\ UNCHANGED <<fleet, p, k, active, file, cmd>>

(* Mutant: the line END_BL of an empty list is taken for a domain, which   *)
(* is no host's name.                                                      *)
foreignDomains_EmptyList(d, asked) ==
    UNION {IF dom(e) = {} THEN {None} ELSE dom(e) :
             e \in {x \in asked \ {d} : Alive(x) /\ mode(x) = "socks" /\ p[x].router}}

(* Domains of socks daemons that answered GET_BL in time.                  *)
foreignDomains(d, asked) ==
    UNION {dom(e) : e \in {x \in asked \ {d} : Alive(x) /\ mode(x) = "socks" /\ p[x].router}}

(* wg_config in tun mode, up to the connectivity test.                     *)
ConfigTun(d) ==
    /\ Open(d) /\ mode(d) = "tun" /\ ~p[d].conf
    /\ \E asked \in SUBSET Daemons :
         LET split == dom(d) \cup foreignDomains(d, asked)
             turn  == fleet[d].turn
             kept  == IF isKernelInterfaceActive(k) THEN {} ELSE p[d].split
         IN  /\ k' = applyWGConfig(k, d, mine(d), split \cup turn)
             /\ Set(d, [p[d] EXCEPT !.pc = "probe", !.conf = TRUE,
                                    !.split = kept \cup split, !.turn = turn])
    /\ UNCHANGED <<fleet, active, cur, file, cmd>>

ConfigTunFails(d) ==
    /\ Open(d) /\ mode(d) = "tun" /\ ~p[d].conf
    /\ k' = teardownWG(k, mine(d))
    /\ Return(d, Cleared(p[d]), "fatal", TRUE, TRUE)

(* raw_conf: the Core has set the interface up already, or failed to.      *)
ConfigRaw(d) ==
    /\ Open(d) /\ mode(d) = "raw" /\ p[d].got /\ ~p[d].conf
    /\ \E asked \in SUBSET Daemons :
         LET split == dom(d) \cup foreignDomains(d, asked)
             turn  == fleet[d].turn
         IN  /\ k' = addHostRoutes(k, split \cup turn)
             /\ Set(d, [p[d] EXCEPT !.pc = "probe", !.conf = TRUE,
                                    !.split = @ \cup split, !.turn = turn])
    /\ UNCHANGED <<fleet, active, cur, file, cmd>>

(* The test pings through the interface of that name, whoever made it.     *)
ProbeWorks(d) ==
    /\ p[d].pc = "probe"
    /\ IF mode(d) = "raw" THEN rawIfaceActive(k) ELSE isKernelInterfaceActive(k)
    /\ Set(d, [p[d] EXCEPT !.pc = "open"])
    /\ file' = [file EXCEPT ![p[d].on] = IF dom(d) = {} THEN @ ELSE p[d].split]
    /\ SetCurrent(d)
    /\ UNCHANGED <<fleet, k, active, cmd>>

(* Mutant: a failed test returns without tearing the tunnel down.          *)
ProbeFails_Leaves(d) ==
    /\ p[d].pc = "probe"
    /\ k' = k
    /\ Return(d, p[d], FatalIfAuto(d), TRUE, TRUE)

ProbeFails(d) ==
    /\ p[d].pc = "probe"
    /\ k' = IF mode(d) = "raw" THEN teardownTunnelRoutes(k, mine(d))
            ELSE teardownWG(k, mine(d))
    /\ Return(d, Cleared(p[d]), FatalIfAuto(d), TRUE, TRUE)

(* wg_config in socks mode: the SOCKS5 server starts, and beside a kernel  *)
(* tunnel its domains get routes past it.                                  *)
ConfigSocks(d) ==
    /\ Open(d) /\ mode(d) = "socks" /\ ~p[d].conf
    /\ LET split == IF noKernelTunnel THEN {} ELSE dom(d)
       IN    /\ k' = addHostRoutes(k, split)
             /\ file' = [file EXCEPT ![p[d].on] = IF dom(d) = {} THEN @ ELSE split]
             /\ Set(d, [p[d] EXCEPT !.conf = TRUE,
                                    !.router = TRUE, !.split = @ \cup split])
    /\ SetCurrent(d)
    /\ UNCHANGED <<fleet, active, cmd>>

ConfigSocksFails(d) ==
    /\ Open(d) /\ mode(d) = "socks" /\ ~p[d].conf
    /\ Return(d, p[d], "next", TRUE, TRUE)
    /\ k' = k
-----------------------------------------------------------------------------
(* Beside the event loop                                                   *)

(* Core's configuration reader in raw mode, also in a Core that stops.     *)
CoreRawSetup(d) ==
    /\ mode(d) = "raw" /\ ~p[d].got /\ (Open(d) \/ p[d].old)
    /\ Set(d, [p[d] EXCEPT !.got = TRUE])
    /\ \E works \in BOOLEAN : k' = IF works THEN setupRawTUN(k) ELSE k
    /\ UNCHANGED <<fleet, active, cur, file, cmd>>

(* Its deferred calls: the descriptor, which the kernel keeps as long as a *)
(* read is blocked on it, then the interface that rawNetworking names.     *)
CoreCloses(d) ==
    /\ p[d].old /\ ~p[d].tear
    /\ Set(d, [p[d] EXCEPT !.old = FALSE, !.tear = TRUE])
    /\ \E reading \in BOOLEAN : k' = IF reading THEN k ELSE ProcessEnds(k, d)
    /\ UNCHANGED <<fleet, active, cur, file, cmd>>

teardownRawTUN(d) ==
    /\ p[d].tear
    /\ Set(d, [p[d] EXCEPT !.tear = FALSE, !.name = FALSE])
    /\ k' = IF p[d].name THEN LinkDelRaw(k) ELSE k
    /\ UNCHANGED <<fleet, active, cur, file, cmd>>

(* BL_RELOAD: reloadSplitRoutes in the socket's goroutine.  It clears the  *)
(* routes, resolves the domains and adds the new routes.  An auto-switch   *)
(* daemon writes the state file of the profile it finds itself on, if any. *)
reloadProfile(d) == IF auto(d) THEN cur ELSE d

ReloadClears(d) ==
    /\ Alive(d) /\ p[d].reload # "busy"
    /\ reloadProfile(d) # None
    /\ mode(d) = "socks" => p[d].conf /\ ~noKernelTunnel
    /\ Set(d, [p[d] EXCEPT !.reload = "busy", !.bl = reloadProfile(d), !.split = {}])
    /\ k' = ClearBypassRoutes(k, p[d].split)
    /\ UNCHANGED <<fleet, active, cur, file, cmd>>

(* A socks daemon without a kernel tunnel beside it touches no route, and  *)
(* writes none to its state file.                                          *)
ReloadSocks(d) ==
    /\ Alive(d) /\ mode(d) = "socks" /\ p[d].conf /\ noKernelTunnel
    /\ reloadProfile(d) # None
    /\ file' = [file EXCEPT ![reloadProfile(d)] = {}]
    /\ UNCHANGED <<fleet, p, k, active, cur, cmd>>

ReloadAdds(d) ==
    /\ p[d].reload = "busy"
    /\ k' = addHostRoutes(k, dom(d))
    /\ file' = [file EXCEPT ![p[d].bl] = dom(d)]
    /\ Set(d, [p[d] EXCEPT !.split = @ \cup dom(d), !.bl = None,
                           !.reload = IF p[d].conf THEN "idle" ELSE "late"])
    /\ UNCHANGED <<fleet, active, cur, cmd>>

-----------------------------------------------------------------------------
(* Signals and commands                                                    *)

(* SIGUSR1 to auto-switch.  Between two tries the closed channel is        *)
(* nobody's.                                                               *)
switchCmd(d) ==
    /\ Alive(d) /\ auto(d)
    /\ Set(d, [p[d] EXCEPT !.sw = Inside(d)])
    /\ cur' = None
    /\ UNCHANGED <<fleet, k, active, file, cmd>>

(* killDaemonProcess: SIGINT, two seconds, SIGKILL if need be.  The two    *)
(* seconds may be any time for a daemon; a signal from elsewhere is a      *)
(* command that never gets beyond them.                                    *)
Interrupt(d, q) ==
    /\ Set(d, [p[d] EXCEPT !.stop = Alive(d)])
    /\ cmd' = [q EXCEPT !.pc = "wait", !.target = d]
    /\ UNCHANGED <<fleet, k, active, cur, file>>

(* Mutant: SIGINT is thought to be enough.                                 *)
ForceKill_Never(d) ==
    /\ cmd.pc = "wait" /\ cmd.target = d
    /\ cmd' = [cmd EXCEPT !.pc = "clean"]
    /\ UNCHANGED <<fleet, p, k, active, cur, file>>

ForceKill(d) ==
    /\ cmd.pc = "wait" /\ cmd.target = d
    /\ IF Alive(d) THEN Ends(d, [cmd EXCEPT !.pc = "clean"])
       ELSE /\ cmd' = [cmd EXCEPT !.pc = "clean"]
            /\ UNCHANGED <<fleet, p, k, active, cur, file>>

(* Of the profile auto-switch is on it stops nothing, even if the profile  *)
(* has a daemon of its own: auto-switch is told to go on to the next.      *)
disconnectCmd(d) ==
    /\ cmd.pc = "idle" /\ Alive(d)
    /\ IF ~auto(d) /\ autoswitchRunning /\ cur = d
       THEN \E e \in Daemons : switchCmd(e)
       ELSE Interrupt(d, [NoCmd EXCEPT !.names = {d}, !.act = IF active = d THEN d ELSE None])

Stopped(d, kind) == cmd.pc = "clean" /\ cmd.kind = kind /\ cmd.target = d

(* The state files that the command looks at: the profile's own, and that  *)
(* of the profile auto-switch is on, whether it was stopped or not.        *)
stateFiles(d) == {x \in Daemons : x = cur \/ (x = d /\ ~auto(d))}

(* getRunningProfileDetails had a profile's mode from its own daemon, or   *)
(* from auto-switch.                                                       *)
detailsMode(x) == mode(IF x \in cmd.names THEN x ELSE CHOOSE e \in cmd.names : auto(e))

(* What a killed daemon could not do.                                      *)
Clean(q, routes) ==
    LET gone == IF q # None /\ detailsMode(q) # "raw" THEN teardownWG(k, {}) ELSE k
    IN  /\ k' = ClearBypassRoutes(gone, routes)
        /\ active' = IF q # None THEN None ELSE active
        /\ cmd' = NoCmd
        /\ UNCHANGED <<fleet, p>>

DisconnectCleans(d) ==
    /\ Stopped(d, "one")
    /\ Clean(cmd.act, UNION {file[e] : e \in stateFiles(d)})
    /\ file' = [e \in Daemons |-> IF e \in stateFiles(d) THEN {} ELSE file[e]]
    /\ cur' = cur

(* connect --toggle, with the flags the daemon was started with.           *)
toggleCmd(d) ==
    /\ cmd.pc = "idle" /\ Alive(d)
    /\ Interrupt(d, [NoCmd EXCEPT !.kind = "toggle", !.names = {d}])

ToggleCleansOne(d) ==
    /\ Stopped(d, "toggle") /\ ~auto(d)
    /\ Clean(IF active = d THEN d ELSE None, {})
    /\ file' = [file EXCEPT ![d] = {}]
    /\ cur' = cur

(* It asks for the current profile after it has cleared it, and so leaves  *)
(* that profile's state file.                                              *)
ToggleCleansAuto(d) ==
    /\ Stopped(d, "toggle") /\ auto(d)
    /\ k' = IF isKernelInterfaceActive(k) THEN teardownWG(k, {}) ELSE k
    /\ active' = IF active = d THEN None ELSE active
    /\ cur' = None
    /\ cmd' = NoCmd
    /\ UNCHANGED <<fleet, p, file>>

(* disconnect --all: the profiles that run when it is called, auto-switch  *)
(* first.  active_profile is read when that one has been stopped.          *)
activeOf(profiles) == IF active \in {x \in profiles : ~auto(x)} THEN active ELSE None

(* getRunningProfileDetails, and the profile that auto-switch is on.       *)
RunningDaemons == {d \in Daemons : Alive(d)}
autoswitchCurrent == IF autoswitchRunning THEN cur ELSE None

disconnectAllProfiles ==
    LET running == RunningDaemons \cup ({autoswitchCurrent} \ {None})
    IN  /\ cmd.pc = "idle" /\ running # {}
        /\ cmd' = [NoCmd EXCEPT !.pc = "next", !.kind = "all", !.names = RunningDaemons,
                       !.rest = running, !.current = autoswitchCurrent,
                       !.act = IF autoswitchRunning THEN None ELSE activeOf(running)]
        /\ UNCHANGED <<fleet, p, k, active, cur, file>>

(* skipKill: the profile auto-switch was on, as if its process were gone   *)
(* with auto-switch; a daemon of its own lives on.                         *)
skipKill(d) == cmd.current = d /\ ~auto(d)

Reached(d) ==
    /\ cmd.pc = "next" /\ d \in cmd.rest
    /\ auto(d) \/ \A e \in cmd.rest : ~auto(e)

AllNext(d) ==
    /\ Reached(d) /\ ~skipKill(d)
    /\ Interrupt(d, [cmd EXCEPT !.rest = @ \ {d}])

AllSkips(d) ==
    /\ Reached(d) /\ skipKill(d)
    /\ cmd' = [cmd EXCEPT !.rest = @ \ {d}, !.saved = @ \cup file[d]]
    /\ file' = [file EXCEPT ![d] = {}]
    /\ UNCHANGED <<fleet, p, k, active, cur>>

(* The auto-switch daemon itself has no state file; a profile it was on    *)
(* that no other daemon runs is among the running ones.                    *)
AllStopped(d) ==
    /\ Stopped(d, "all")
    /\ LET reads == auto(d) => cmd.current = d
       IN  /\ cmd' = [cmd EXCEPT !.pc = "next", !.target = None,
                          !.saved = @ \cup (IF reads THEN file[d] ELSE {}),
                          !.act = IF auto(d) THEN activeOf(cmd.rest) ELSE @]
           /\ file' = [file EXCEPT ![d] = IF reads THEN {} ELSE @]
    /\ cur' = IF auto(d) THEN None ELSE cur
    /\ UNCHANGED <<fleet, p, k, active>>

AllCleans ==
    /\ cmd.pc = "next" /\ cmd.rest = {}
    /\ Clean(cmd.act, cmd.saved)
    /\ UNCHANGED <<cur, file>>

-----------------------------------------------------------------------------
Returns(d) == FatalExit(d) \/ StopAfterTry(d) \/ TryAgain(d) \/ NextProfile(d) \/ GiveUp(d)
Starts(d)  == LoadFails(d) \/ StartFails(d) \/ StartWorks(d)
Probes(d)  == ProbeWorks(d) \/ ProbeFails(d)
Configures(d) ==
    ConfigTun(d) \/ ConfigTunFails(d) \/ ConfigRaw(d) \/ ConfigSocks(d) \/ ConfigSocksFails(d)
Events(d) ==
    Timeout(d) \/ StopSeen(d) \/ SwitchSeen(d) \/ ResumeSeen(d) \/ CoreGone(d) \/ Running(d)
Goes(d) == LoopStops(d) \/ Leave(d) \/ Returns(d) \/ Starts(d) \/ Probes(d)
Process(d) ==
    \/ Goes(d)
    \/ Configures(d) \/ Events(d)
    \/ CoreRawSetup(d) \/ CoreCloses(d) \/ teardownRawTUN(d)
    \/ ReloadClears(d) \/ ReloadSocks(d) \/ ReloadAdds(d)
Commands(d) ==
    \/ Connect(d) \/ switchCmd(d) \/ ForceKill(d)
    \/ disconnectCmd(d) \/ DisconnectCleans(d)
    \/ toggleCmd(d) \/ ToggleCleansOne(d) \/ ToggleCleansAuto(d)
    \/ AllNext(d) \/ AllSkips(d) \/ AllStopped(d)

Next ==
    \/ \E d \in Daemons : Process(d) \/ Commands(d)
    \/ disconnectAllProfiles \/ AllCleans

Spec == Init /\ [][Next]_vars

(* A daemon's own control flow goes on; where it is outside the event loop *)
(* exactly one of these steps can be taken.  Of the event loop the stop    *)
(* channel alone is assumed to be chosen: Go's select picks among the      *)
(* ready cases at random, so one that stays ready is not passed over       *)
(* forever.                                                                *)
Fairness == \A d \in Daemons : WF_vars(Goes(d)) /\ SF_vars(StopSeen(d))

FairSpec == Spec /\ Fairness

-----------------------------------------------------------------------------
Kept == UNION {mine(d) : d \in Daemons}

(* A route past the tunnel is on the list of some process, which would     *)
(* clear it, as long as the route is there and no process that had it on   *)
(* its list has died.                                                      *)
RoutesTracked ==
    [][\A h \in k'.host : (h \in k.host => h \in Kept) =>
         h \in Kept' \/ \E d \in Daemons : h \in mine(d) /\ ~Alive(d)']_vars

(* A daemon that ends by itself leaves nothing of its own: no interface,   *)
(* no route to a TURN server, no bypass route but those that a BL_RELOAD   *)
(* added outside the time in which teardownMode would clear them.          *)
ExitClean ==
    [][\A d \in Daemons :
         Alive(d) /\ ~Alive(d)' /\ cmd'.pc = cmd.pc =>
            /\ k'.wg # d /\ k'.raw # d /\ p[d].turn = {}
            /\ p[d].split = {} \/ p[d].reload = "late"]_vars

(* When a command that stops daemons is done, they are gone with their     *)
(* raw interface and, if it read them in active_profile, their wg-qwdtt,   *)
(* in whatever state SIGKILL met them; after toggling auto-switch there is *)
(* no wg-qwdtt whatever active_profile says.  The one daemon that survives *)
(* disconnect --all is that of the profile auto-switch was on when the     *)
(* command began: skipKill.  (The disconnect of such a profile stops no    *)
(* daemon and is no command of this kind.)                                 *)
DisconnectFrees ==
    [][\A d \in cmd.names :
         cmd'.pc = "idle" /\ ~skipKill(d) =>
            /\ ~Alive(d)' /\ k'.raw # d
            /\ cmd.act = d \/ (cmd.kind = "toggle" /\ (auto(d) \/ active = d)) => k'.wg # d]_vars

(* A daemon that was told to stop ends, whatever it was doing.             *)
StopExits == \A d \in Daemons : p[d].stop ~> ~Alive(d)

(* What connect.go says of the socks mode: it does not conflict with the   *)
(* tun interface, so a step of a socks daemon leaves wg-qwdtt and the      *)
(* tunnel routes alone.                                                    *)
SocksNoConflict ==
    [][\A d \in Daemons :
         mode(d) = "socks" /\ p'[d] # p[d] => k'.wg = k.wg /\ k'.half = k.half]_vars
=============================================================================
