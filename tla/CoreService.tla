----------------------------- MODULE CoreService -----------------------------
(***************************************************************************)
(* A Core as the daemon that uses it sees it ("Start starts the core and   *)
(* returns the event channel, which is closed on completion", "Stop stops  *)
(* the core"): groups that begin one after the other, services that run    *)
(* until the end, and a lossy queue of events.  How the goroutines do it   *)
(* is left to module Core, which implements this one.                      *)
(***************************************************************************)
EXTENDS Integers, Sequences

CONSTANTS NumGroups,  \* groups of workers
          Services,   \* what runs beside the groups
          Plug,       \* the one of them that outlives the groups
          Kinds,      \* kinds of events
          Last        \* the kind that announces the end

VARIABLES phase,    \* group: "wait", "work" or "done"
          granted,  \* groups that let the next one begin
          stopped,  \* the core was told, or decided, to stop
          running,  \* services that run
          queue,    \* events the caller has not read
          closed,   \* the queue is closed
          crashed   \* the process died of a late event

vars == <<phase, granted, stopped, running, queue, closed, crashed>>

Groups == 1..NumGroups
Over   == \A g \in Groups : phase[g] = "done"

Init ==
    /\ phase = [g \in Groups |-> "wait"] /\ granted = {} /\ stopped = FALSE
    /\ running = Services /\ queue \in Seq(Kinds \ {Last}) /\ closed = FALSE /\ crashed = FALSE

(* A group begins after all the ones before it had credentials. *)
Begin(g) ==
    /\ phase[g] = "wait" /\ 1..(g - 1) \subseteq granted
    /\ phase' = [phase EXCEPT ![g] = "work"]
    /\ UNCHANGED <<granted, stopped, running, queue, closed, crashed>>

Grant(g) ==
    /\ phase[g] # "wait" /\ g \notin granted /\ ~stopped
    /\ granted' = granted \cup {g}
    /\ UNCHANGED <<phase, stopped, running, queue, closed, crashed>>

(* A group that did not begin ends only because the core stops. *)
End(g) ==
    /\ phase[g] = "work" \/ (phase[g] = "wait" /\ stopped)
    /\ phase' = [phase EXCEPT ![g] = "done"]
    /\ UNCHANGED <<granted, stopped, running, queue, closed, crashed>>

Stop ==
    /\ ~stopped /\ stopped' = TRUE
    /\ UNCHANGED <<phase, granted, running, queue, closed, crashed>>

(* The socket or TUN is closed when no group needs it any more, the rest      *)
(* leaves after the stop.                                                     *)
Quit(s) ==
    /\ s \in running /\ IF s = Plug THEN Over ELSE stopped
    /\ running' = running \ {s}
    /\ UNCHANGED <<phase, granted, stopped, queue, closed, crashed>>

(* The end is announced only when it has come. *)
Post(k) ==
    /\ ~closed /\ (k = Last => Over)
    /\ queue' = Append(queue, k)
    /\ UNCHANGED <<phase, granted, stopped, running, closed, crashed>>

(* The oldest event goes: to the caller, or to make room. *)
Take ==
    /\ queue # <<>> /\ queue' = Tail(queue)
    /\ UNCHANGED <<phase, granted, stopped, running, closed, crashed>>

(* Closed on completion. *)
Close ==
    /\ ~closed /\ Over /\ stopped /\ running = {}
    /\ closed' = TRUE
    /\ UNCHANGED <<phase, granted, stopped, running, queue, crashed>>

(* An event that comes too late; never before the end. *)
Crash ==
    /\ closed /\ ~crashed /\ crashed' = TRUE
    /\ UNCHANGED <<phase, granted, stopped, running, queue, closed>>

Next ==
    \/ \E g \in Groups : Begin(g) \/ Grant(g) \/ End(g)
    \/ \E s \in Services : Quit(s)
    \/ \E k \in Kinds : Post(k)
    \/ Stop \/ Take \/ Close \/ Crash

Spec == Init /\ [][Next]_vars
=============================================================================
