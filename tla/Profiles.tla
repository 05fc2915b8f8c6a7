------------------------------ MODULE Profiles ------------------------------
(***************************************************************************)
(* profile.go, subscription.go and the commands of commands.go that change *)
(* profiles, their enabled flags and subscriptions.  Every command is a    *)
(* process; the files are all they share, and nothing locks them.  A read, *)
(* a removal and each half of os.WriteFile (it truncates, then writes) are *)
(* steps; a command may be killed before any of them.  A command that      *)
(* names several profiles does to each what it does to one.                *)
(***************************************************************************)
EXTENDS Integers, Sequences, Functions

CONSTANTS Procs,      \* commands that may run at the same time
          Bases,      \* profile names as users and servers write them
          Typed,      \* names that users type, a subset of Names
          Leftovers,  \* sets of names whose flags outlived a disabled profile
          DaemonOn,   \* the profile a daemon of its own runs, or NoName
          SwitchOn,   \* the profile the auto-switch daemon is on, or NoName
          Subs,       \* subscription names
          GroupArgs,  \* sets of groups users give, subsets of Subs
          Payloads,   \* what a subscription's server may answer
          Unnamed,    \* an entry whose name is empty after normalizeImportName
          Refused,    \* an entry without peer, password or hashes, or named ro-...
          Copies,     \* bound: numbered variants of a name
          Issues      \* bound: commands started

VARIABLES
    disk,     \* file -> contents
    pointer,  \* "active" and "autoswitch" -> the profile the file names, or NoName
    running,  \* profiles with a daemon of their own (not auto-switch)
    job,      \* process -> the command it runs
    issued,   \* commands started so far
    told,     \* history: name -> what enable and disable last reported of the
              \* profile, or "leftover" if mv let it inherit the name's old flag
    spoilt    \* history: files a killed or overtaken command left inconsistent

vars == <<disk, pointer, running, job, issued, told, spoilt>>

(***************************************************************************)
(* Names and files.                                                        *)
(***************************************************************************)
Plain(b)       == <<b, "plain", 0>>
SubCopy(b, c)  == <<b, "_sub", c>>   \* <base>_sub<c>
FileCopy(b, c) == <<b, "()", c>>     \* <base>(<c>)
Names ==
    {Plain(b) : b \in Bases} \cup {SubCopy(b, c) : b \in Bases, c \in 0..(Copies - 1)}
        \cup {FileCopy(b, c) : b \in Bases, c \in 1..Copies}
NoName == <<"", "plain", 0>>
NoSub  == ""

ASSUME ProfilesAssumption ==
    /\ Typed \subseteq Names /\ Leftovers \subseteq SUBSET Names
    /\ {DaemonOn, SwitchOn} \subseteq Names \cup {NoName}
    /\ Subs \subseteq Bases /\ NoSub \notin Subs /\ GroupArgs \subseteq SUBSET Subs
    /\ Payloads \subseteq Seq(Bases \cup {Unnamed, Refused})
    /\ Copies \in Nat /\ Issues \in Nat

ProfileFile(n) == <<"profile", n>>
SubFile(s)     == <<"subscription", s>>
StatusFile     == <<"status", "status">>
Files == {ProfileFile(n) : n \in Names} \cup {SubFile(s) : s \in Subs} \cup {StatusFile}

Absent == [is |-> "absent"]
Torn   == [is |-> "torn"]   \* truncated: does not parse
(* own: the number of the add or import that made it, 0 for a subscription's *)
Profile(sub, groups, own) == [is |-> "profile", sub |-> sub, groups |-> groups, own |-> own]
Subscription(list)        == [is |-> "subscription", profiles |-> list]
Statuses(map)             == [is |-> "status", map |-> map]

Exists(f) == disk[f].is # "absent"               \* os.Stat
Loads(f)  == disk[f].is \notin {"absent", "torn"}
NoEntries == [n \in Names |-> "none"]
(* loadStatuses, whose error both callers take for no entries *)
Entries   == IF Loads(StatusFile) THEN disk[StatusFile].map ELSE NoEntries

isProfileEnabled(n)   == Entries[n] # "off"
isDaemonRunning(n)    == n \in running
isSubscriptionName(s) == Exists(SubFile(s))
profilesInSubscription(s) == IF Loads(SubFile(s)) THEN Range(disk[SubFile(s)].profiles) ELSE {}

(***************************************************************************)
(* Processes.  A job: the command op, its arguments (names n and m, sub-   *)
(* scriptions s and t, groups g), its number, where it is, what it loaded  *)
(* (got, list), the names (left) and entries (todo) still to do, the names *)
(* it made, its counters of numbered names, the second half of a write it  *)
(* is in, and, as history, the files that others changed since it looked.  *)
(***************************************************************************)
Idle == [op |-> "idle"]
Job(op, args, id) ==
    [op |-> op, n |-> args.n, m |-> args.m, s |-> args.s, t |-> args.t, g |-> args.g,
     id |-> id, at |-> "start", got |-> Absent, list |-> <<>>, left |-> <<>>, todo |-> <<>>,
     made |-> <<>>, used |-> [x \in Bases |-> 0], put |-> <<>>, raced |-> {}]
At(p, op, at) == job[p].op = op /\ job[p].at = at /\ job[p].put = <<>>
Ended(j)      == IF j.at = "end" /\ j.put = <<>> THEN Idle ELSE j

Owner(v) == IF v.is = "profile" /\ v.sub # NoSub THEN {SubFile(v.sub)} ELSE {}
Member(n, s) == Loads(ProfileFile(n)) /\ disk[ProfileFile(n)].sub = s
Lists(v)     == IF v.is = "subscription" THEN Range(v.profiles) ELSE {}
(* what writing v to f relied on: f, v's owner, for mv the old file, and for   *)
(* the list that sub update or sub rm replaces the profiles it leaves out,     *)
(* which the command has removed                                               *)
Basis(j, f, v) ==
    {f} \cup Owner(v) \cup (IF j.op = "mv" THEN {ProfileFile(j.n)} ELSE {})
    \cup (IF j.op \in {"apply", "subrm"} /\ f = SubFile(j.s)
          THEN {ProfileFile(n) : n \in {x \in Names \ Lists(v) : Member(x, j.s)}} ELSE {})
(* what it contradicts when that has changed: f and the lists of both owners *)
Spoils(f, v) == {f} \cup Owner(v) \cup Owner(disk[f])

Change(p, f, v, j) ==
    /\ disk' = [disk EXCEPT ![f] = v]
    /\ job' = [q \in Procs |->
                 IF q = p THEN Ended([j EXCEPT !.raced = @ \ {f}])
                 ELSE IF job[q] = Idle THEN Idle ELSE [job[q] EXCEPT !.raced = @ \cup {f}]]
    /\ LET w == IF v = Torn THEN j.put[2] ELSE v IN
       spoilt' = spoilt \cup
           (IF Basis(job[p], f, w) \cap job[p].raced = {} THEN {} ELSE Spoils(f, w))

Remove(p, f, j)   == Change(p, f, Absent, j)
Write(p, f, v, j) == Change(p, f, Torn, [j EXCEPT !.put = <<f, v>>])
Read(p, fs, j) ==
    /\ job' = [job EXCEPT ![p] = Ended([j EXCEPT !.raced = @ \ fs])]
    /\ UNCHANGED <<disk, spoilt>>
Leave(p) == Read(p, {}, [job[p] EXCEPT !.at = "end"])

quiet == <<pointer, running, issued, told>>

Flag(op) == IF op = "enable" THEN "on" ELSE "off"

(* the second half of os.WriteFile; enable and disable then report success *)
Flush(p) ==
    /\ job[p] # Idle /\ job[p].put # <<>>
    /\ Change(p, job[p].put[1], job[p].put[2], [job[p] EXCEPT !.put = <<>>])
    /\ told' = IF job[p].op \in {"enable", "disable"}
               THEN [told EXCEPT ![job[p].n] = Flag(job[p].op)] ELSE told
    /\ UNCHANGED <<pointer, running, issued>>

(* mutant: an empty subscription is taken for a group *)
SaveGroups_Always(v) == v.groups \cup {v.sub}

SaveGroups(v) == IF v.sub = NoSub THEN v.groups ELSE v.groups \cup {v.sub}

saveProfile(p, n, v, j) == Write(p, ProfileFile(n), [v EXCEPT !.groups = SaveGroups(v)], j)

(***************************************************************************)
(* add, edit, rm and import.                                               *)
(***************************************************************************)
(* addCmd replaces a profile of that name and keeps only its groups *)
AddLoads(p) ==
    /\ At(p, "add", "start")
    /\ LET f == ProfileFile(job[p].n) IN
       Read(p, {f}, [job[p] EXCEPT !.at = "save",
           !.got = Profile(NoSub, IF Loads(f) THEN disk[f].groups ELSE {}, job[p].id)])
    /\ UNCHANGED quiet

(* editCmd; "regroup" is edit with -groups, whose new groups are g *)
EditLoads(p) ==
    /\ \E op \in {"edit", "regroup"} : At(p, op, "start")
    /\ LET f == ProfileFile(job[p].n) IN
       IF \/ ~Loads(f)
          \/ /\ job[p].op = "regroup"
             /\ disk[f].sub # NoSub \/ \E g \in job[p].g : isSubscriptionName(g)
       THEN Leave(p)
       ELSE Read(p, {f} \cup Owner(disk[f]), [job[p] EXCEPT !.at = "save",
                !.got = IF job[p].op = "edit" THEN disk[f]
                        ELSE [disk[f] EXCEPT !.groups = job[p].g]])
    /\ UNCHANGED quiet

(* importCmd takes the first name that does not load: name, name(1), ...      *)
Vacant(b) == LET Free(c) == ~Loads(ProfileFile(IF c = 0 THEN Plain(b) ELSE FileCopy(b, c)))
                 cs      == {c \in 0..Copies : Free(c) /\ \A d \in 0..(c - 1) : ~Free(d)}
             IN  {IF c = 0 THEN Plain(b) ELSE FileCopy(b, c) : c \in cs}

ImportPicks(p) ==
    /\ At(p, "import", "start")
    /\ \E n \in Vacant(job[p].n[1]) :
         Read(p, {ProfileFile(n)}, [job[p] EXCEPT !.at = "save", !.n = n,
                                    !.got = Profile(NoSub, job[p].g, job[p].id)])
    /\ UNCHANGED quiet

SaveGot(p) ==
    /\ \E op \in {"add", "edit", "regroup", "import"} : At(p, op, "save")
    /\ saveProfile(p, job[p].n, job[p].got, [job[p] EXCEPT !.at = "end"])
    /\ UNCHANGED quiet

Managed(n) == Loads(ProfileFile(n)) /\ disk[ProfileFile(n)].sub # NoSub

(* removeCmd filters the names, asks, then removes; a user who says no ends   *)
(* it, as a kill does                                                         *)
RmFilters(p) ==
    /\ At(p, "rm", "start")
    /\ IF Managed(job[p].n) THEN Leave(p)
       ELSE Read(p, {ProfileFile(job[p].n)}, [job[p] EXCEPT !.at = "remove"])
    /\ UNCHANGED quiet

RmRemoves(p) ==
    /\ At(p, "rm", "remove")
    /\ IF Exists(ProfileFile(job[p].n))
       THEN Remove(p, ProfileFile(job[p].n), [job[p] EXCEPT !.at = "end"])
       ELSE Leave(p)
    /\ UNCHANGED quiet

(***************************************************************************)
(* enable and disable.                                                     *)
(***************************************************************************)
EnableChecks(p) ==
    /\ At(p, "enable", "start")
    /\ IF Loads(ProfileFile(job[p].n)) /\ ~isProfileEnabled(job[p].n)
       THEN Read(p, {}, [job[p] EXCEPT !.at = "load"]) ELSE Leave(p)
    /\ UNCHANGED quiet

DisableChecks(p) ==
    /\ At(p, "disable", "start")
    /\ IF Loads(ProfileFile(job[p].n)) /\ isProfileEnabled(job[p].n)
       THEN Read(p, {}, [job[p] EXCEPT !.at = "load"]) ELSE Leave(p)
    /\ UNCHANGED quiet

(* mutant: setProfileEnabled starts from an empty map *)
KeptEntries_None == NoEntries

KeptEntries == Entries

(* setProfileEnabled loads the map again *)
FlagLoads(p) ==
    /\ \E op \in {"enable", "disable"} : At(p, op, "load")
    /\ Read(p, {StatusFile}, [job[p] EXCEPT !.at = "save",
           !.got = Statuses([KeptEntries EXCEPT ![job[p].n] = Flag(job[p].op)])])
    /\ UNCHANGED quiet

FlagSaves(p) ==
    /\ \E op \in {"enable", "disable"} : At(p, op, "save")
    /\ Write(p, StatusFile, job[p].got, [job[p] EXCEPT !.at = "end"])
    /\ UNCHANGED quiet

(***************************************************************************)
(* mv: moveCmd checks, renameProfile loads and checks again, saves under   *)
(* the new name, removes the old one and moves the flag and the pointers.  *)
(***************************************************************************)
MvChecks(p) ==
    /\ At(p, "mv", "start")
    /\ IF \/ Managed(job[p].n) \/ ~Exists(ProfileFile(job[p].n))
          \/ Exists(ProfileFile(job[p].m)) \/ isDaemonRunning(job[p].n)
       THEN Leave(p) ELSE Read(p, {ProfileFile(job[p].n)}, [job[p] EXCEPT !.at = "load"])
    /\ UNCHANGED quiet

MvLoads(p) ==
    /\ At(p, "mv", "load")
    /\ LET old == ProfileFile(job[p].n)
           new == ProfileFile(job[p].m)
       IN  IF ~Loads(old) \/ Exists(new) THEN Leave(p)
           ELSE Read(p, {new}, [job[p] EXCEPT !.at = "save", !.got = disk[old]])
    /\ UNCHANGED quiet

MvSaves(p) ==
    /\ At(p, "mv", "save")
    /\ saveProfile(p, job[p].m, job[p].got, [job[p] EXCEPT !.at = "remove"])
    /\ UNCHANGED quiet

(* if the old file is gone, the new one is taken back *)
MvRemoves(p) ==
    /\ At(p, "mv", "remove")
    /\ IF Exists(ProfileFile(job[p].n))
       THEN Remove(p, ProfileFile(job[p].n), [job[p] EXCEPT !.at = "status"])
       ELSE Remove(p, ProfileFile(job[p].m), [job[p] EXCEPT !.at = "end"])
    /\ UNCHANGED quiet

MvLoadsStatus(p) ==
    /\ At(p, "mv", "status") /\ Entries[job[p].n] # "none"
    /\ Read(p, {StatusFile}, [job[p] EXCEPT !.at = "flag", !.got =
           Statuses([Entries EXCEPT ![job[p].m] = Entries[job[p].n], ![job[p].n] = "none"])])
    /\ UNCHANGED quiet

(* no flag to move, or none to be seen in a file half written; an entry that  *)
(* a removed profile left under the new name stays and holds from now on      *)
MvFindsNoFlag(p) ==
    /\ At(p, "mv", "status") /\ Entries[job[p].n] = "none"
    /\ job' = [job EXCEPT ![p].at = "pointers", ![p].raced = @ \ {StatusFile}]
    /\ told' = [told EXCEPT ![job[p].m] =
                   IF Entries[job[p].m] = "off" \/ @ = "leftover" THEN "leftover" ELSE told[job[p].n]]
    /\ spoilt' = spoilt \cup (IF disk[StatusFile] = Torn THEN {StatusFile} ELSE {})
    /\ UNCHANGED <<disk, pointer, running, issued>>

MvSavesStatus(p) ==
    /\ At(p, "mv", "flag")
    /\ Write(p, StatusFile, job[p].got, [job[p] EXCEPT !.at = "pointers"])
    /\ told' = [told EXCEPT ![job[p].m] = told[job[p].n], ![job[p].n] = "on"]
    /\ UNCHANGED <<pointer, running, issued>>

MvPoints(p) ==
    /\ At(p, "mv", "pointers")
    /\ pointer' = [k \in DOMAIN pointer |-> IF pointer[k] = job[p].n THEN job[p].m ELSE pointer[k]]
    /\ Leave(p)
    /\ UNCHANGED <<running, issued, told>>

(***************************************************************************)
(* Subscriptions: sub add and sub update are applySubscription, here       *)
(* "apply"; s is the subscription.                                         *)
(***************************************************************************)
(* what a list that does not load contains: nothing *)
Listed(s) == IF Loads(SubFile(s)) THEN disk[SubFile(s)].profiles ELSE <<>>

ApplyLoads(p) ==
    /\ At(p, "apply", "start")
    /\ Read(p, {SubFile(job[p].s)}, [job[p] EXCEPT !.at = "fetch", !.list = Listed(job[p].s)])
    /\ UNCHANGED quiet

(* an error of any kind ends the command before it changed anything *)
ApplyFetches(p) ==
    /\ At(p, "apply", "fetch")
    /\ \/ Leave(p)
       \/ \E entries \in Payloads :
            Read(p, {}, [job[p] EXCEPT !.at = "clear", !.todo = entries, !.left = job[p].list])
    /\ UNCHANGED quiet

(* every name on the stored list goes, whoever made the profile *)
ApplyClears(p) ==
    /\ At(p, "apply", "clear")
    /\ LET f == ProfileFile(Head(job[p].left)) IN
       IF job[p].left = <<>> THEN Read(p, {}, [job[p] EXCEPT !.at = "pick"])
       ELSE IF Exists(f) THEN Remove(p, f, [job[p] EXCEPT !.left = Tail(@)])
       ELSE Read(p, {}, [job[p] EXCEPT !.left = Tail(@)])
    /\ UNCHANGED quiet

BaseOf(e, s) == IF e = Unnamed THEN s ELSE e

(* mutant: any existing profile may be replaced *)
Taken_Never(n, s) == FALSE

(* a profile of another owner keeps its name *)
Taken(n, s) == Loads(ProfileFile(n)) /\ disk[ProfileFile(n)].sub # s

(* the counters from which _sub<c> loads nothing *)
FreeCounters(b, from) ==
    {c \in from..(Copies - 1) : /\ ~Loads(ProfileFile(SubCopy(b, c)))
                                /\ \A d \in from..(c - 1) : Loads(ProfileFile(SubCopy(b, d)))}

ApplyPicks(p) ==
    /\ At(p, "apply", "pick") /\ job[p].todo # <<>>
    /\ LET e == Head(job[p].todo)
           b == BaseOf(e, job[p].s)
           j == [job[p] EXCEPT !.todo = Tail(@)]
       IN  IF e = Refused THEN Read(p, {}, j)
           ELSE IF ~Taken(Plain(b), job[p].s)
           THEN Read(p, {ProfileFile(Plain(b))}, [j EXCEPT !.at = "save", !.n = Plain(b)])
           ELSE \E c \in FreeCounters(b, job[p].used[b]) :
                  Read(p, {ProfileFile(SubCopy(b, c))},
                       [j EXCEPT !.at = "save", !.n = SubCopy(b, c), !.used[b] = c + 1])
    /\ UNCHANGED quiet

subscriptionEntryToProfile(s) == Profile(s, {}, 0)

ApplySaves(p) ==
    /\ At(p, "apply", "save")
    /\ saveProfile(p, job[p].n, subscriptionEntryToProfile(job[p].s),
                   [job[p] EXCEPT !.at = "pick", !.made = Append(@, job[p].n)])
    /\ UNCHANGED quiet

(* mutant: the list of the last update is kept *)
NewList_Old(j) == j.list

NewList(j) == j.made

ApplyLists(p) ==
    /\ At(p, "apply", "pick") /\ job[p].todo = <<>>
    /\ Write(p, SubFile(job[p].s), Subscription(NewList(job[p])), [job[p] EXCEPT !.at = "end"])
    /\ UNCHANGED quiet

(* subscriptionRemoveCmd: the names on the list, then the subscription *)
SubRmLoads(p) ==
    /\ At(p, "subrm", "start")
    /\ IF Loads(SubFile(job[p].s))
       THEN Read(p, {SubFile(job[p].s)},
                 [job[p] EXCEPT !.at = "clear", !.list = Listed(job[p].s),
                                !.left = Listed(job[p].s)])
       ELSE Leave(p)
    /\ UNCHANGED quiet

SubRmClears(p) ==
    /\ At(p, "subrm", "clear")
    /\ LET f == ProfileFile(Head(job[p].left)) IN
       IF job[p].left = <<>>
       THEN IF Exists(SubFile(job[p].s))
            THEN Remove(p, SubFile(job[p].s), [job[p] EXCEPT !.at = "end"]) ELSE Leave(p)
       ELSE IF Exists(f) THEN Remove(p, f, [job[p] EXCEPT !.left = Tail(@)])
       ELSE Read(p, {}, [job[p] EXCEPT !.left = Tail(@)])
    /\ UNCHANGED quiet

(* subscriptionMoveCmd: the new file, the old file, then each profile listed *)
SubMvLoads(p) ==
    /\ At(p, "submv", "start")
    /\ LET old == SubFile(job[p].s) IN
       IF Loads(old) /\ ~Exists(SubFile(job[p].t))
       THEN Read(p, {old, SubFile(job[p].t)},
                 [job[p] EXCEPT !.at = "save", !.list = Listed(job[p].s),
                                !.left = Listed(job[p].s)])
       ELSE Leave(p)
    /\ UNCHANGED quiet

SubMvSaves(p) ==
    /\ At(p, "submv", "save")
    /\ Write(p, SubFile(job[p].t), Subscription(job[p].list), [job[p] EXCEPT !.at = "remove"])
    /\ UNCHANGED quiet

SubMvRemoves(p) ==
    /\ At(p, "submv", "remove")
    /\ IF Exists(SubFile(job[p].s))
       THEN Remove(p, SubFile(job[p].s), [job[p] EXCEPT !.at = "load"]) ELSE Leave(p)
    /\ UNCHANGED quiet

Rehomed(v, old, new) ==
    [v EXCEPT !.sub = new, !.groups = IF old \in @ THEN (@ \ {old}) \cup {new} ELSE @]

SubMvLoadsNext(p) ==
    /\ At(p, "submv", "load")
    /\ LET f == ProfileFile(Head(job[p].left)) IN
       IF job[p].left = <<>> THEN Leave(p)
       ELSE /\ Loads(f)
            /\ Read(p, {f}, [job[p] EXCEPT !.at = "rehome",
                                           !.got = Rehomed(disk[f], job[p].s, job[p].t)])
    /\ UNCHANGED quiet

(* a profile that does not load is left as it is, also one half written *)
SubMvSkips(p) ==
    /\ At(p, "submv", "load") /\ job[p].left # <<>>
    /\ LET f == ProfileFile(Head(job[p].left)) IN
       /\ ~Loads(f)
       /\ spoilt' = spoilt \cup (IF Exists(f) THEN {SubFile(job[p].s)} ELSE {})
    /\ job' = [job EXCEPT ![p].left = Tail(@)]
    /\ UNCHANGED <<disk, quiet>>

SubMvSavesNext(p) ==
    /\ At(p, "submv", "rehome")
    /\ saveProfile(p, Head(job[p].left), job[p].got,
                   [job[p] EXCEPT !.at = "load", !.left = Tail(@)])
    /\ UNCHANGED quiet

(***************************************************************************)
(* The commands users start, and the end of one that is killed.            *)
(***************************************************************************)
Issue(p, op, args) ==
    /\ job[p] = Idle /\ issued < Issues
    /\ job' = [job EXCEPT ![p] = Job(op, args, issued + 1)] /\ issued' = issued + 1
    /\ UNCHANGED <<disk, pointer, running, told, spoilt>>

NoArgs == [n |-> NoName, m |-> NoName, s |-> NoSub, t |-> NoSub, g |-> {}]

IssueAny(p) ==
    \/ \E x \in Typed :
         \/ \E op \in {"add", "edit", "rm", "enable", "disable"} :
              Issue(p, op, [NoArgs EXCEPT !.n = x])
         \/ \E gs \in GroupArgs : \/ Issue(p, "regroup", [NoArgs EXCEPT !.n = x, !.g = gs])
                                  \/ Issue(p, "import", [NoArgs EXCEPT !.n = Plain(x[1]), !.g = gs])
         \/ \E y \in Typed \ {x} : Issue(p, "mv", [NoArgs EXCEPT !.n = x, !.m = y])
    \/ \E x \in Subs :
         \/ \E op \in {"apply", "subrm"} : Issue(p, op, [NoArgs EXCEPT !.s = x])
         \/ \E y \in Subs \ {x} : Issue(p, "submv", [NoArgs EXCEPT !.s = x, !.t = y])

(* what a command leaves inconsistent when it is killed: a torn file, profiles *)
(* no list names, a subscription whose profiles do not know its new name, a   *)
(* flag under the old name                                                    *)
Unfinished(j) ==
    (IF j.put # <<>> THEN {j.put[1]} ELSE {})
    \cup (IF j.op = "apply" /\ j.made # <<>> THEN {SubFile(j.s)} ELSE {})
    \cup (IF j.op = "submv" /\ j.at \in {"load", "rehome"} THEN {SubFile(j.s)} ELSE {})
    \cup (IF j.op = "mv" /\ j.at \in {"status", "flag"} THEN {StatusFile} ELSE {})

Kill(p) ==
    /\ job[p] # Idle
    /\ job' = [job EXCEPT ![p] = Idle] /\ spoilt' = spoilt \cup Unfinished(job[p])
    /\ UNCHANGED <<disk, quiet>>

Step(p) ==
    \/ Flush(p) \/ AddLoads(p) \/ EditLoads(p) \/ ImportPicks(p) \/ SaveGot(p)
    \/ RmFilters(p) \/ RmRemoves(p) \/ EnableChecks(p) \/ DisableChecks(p) \/ FlagLoads(p) \/ FlagSaves(p)
    \/ MvChecks(p) \/ MvLoads(p) \/ MvSaves(p) \/ MvRemoves(p) \/ MvLoadsStatus(p)
    \/ MvFindsNoFlag(p) \/ MvSavesStatus(p) \/ MvPoints(p)
    \/ ApplyLoads(p) \/ ApplyFetches(p) \/ ApplyClears(p) \/ ApplyPicks(p)
    \/ ApplySaves(p) \/ ApplyLists(p) \/ SubRmLoads(p) \/ SubRmClears(p)
    \/ SubMvLoads(p) \/ SubMvSaves(p) \/ SubMvRemoves(p) \/ SubMvLoadsNext(p)
    \/ SubMvSkips(p) \/ SubMvSavesNext(p)

Next == \E p \in Procs : IssueAny(p) \/ Step(p) \/ Kill(p)

(* No profile stored yet, or no more: daemons, and the flags of those that    *)
(* were disabled, outlive the removal of a profile.                           *)
OldFlags(off) ==
    IF off = {} THEN Absent ELSE Statuses([n \in Names |-> IF n \in off THEN "off" ELSE "none"])

Init ==
    /\ \E off \in Leftovers :
         /\ disk = [f \in Files |-> IF f = StatusFile THEN OldFlags(off) ELSE Absent]
         /\ told = [n \in Names |-> IF n \in off THEN "off" ELSE "on"]
    /\ pointer = [active |-> DaemonOn, autoswitch |-> SwitchOn] /\ running = {DaemonOn} \ {NoName}
    /\ job = [p \in Procs |-> Idle] /\ issued = 0
    /\ spoilt = {}

Spec == Init /\ [][Next]_vars

-----------------------------------------------------------------------------
Contents ==
    {Absent, Torn} \cup
    {Profile(s, g, o) : s \in Subs \cup {NoSub}, g \in SUBSET Subs, o \in 0..Issues}

Loaded(v) == v.is \notin {"absent", "torn"}

TypeOK ==
    /\ DOMAIN disk = Files
    /\ \A n \in Names : disk[ProfileFile(n)] \in Contents
    /\ \A s \in Subs : LET v == disk[SubFile(s)] IN Loaded(v) => Range(v.profiles) \subseteq Names
    /\ Loads(StatusFile) => disk[StatusFile].map \in [Names -> {"none", "on", "off"}]
    /\ \A k \in DOMAIN pointer : pointer[k] \in Names \cup {NoName}
    /\ running \subseteq Names /\ issued \in 0..Issues
    /\ \A p \in Procs : job[p] = Idle \/ (job[p].id \in 1..issued /\ job[p].raced \subseteq Files)
    /\ told \in [Names -> {"on", "off", "leftover"}] /\ spoilt \subseteq Files

Busy(p, s) ==
    \/ job[p].op = "apply" /\ job[p].s = s
    \/ job[p].op = "submv" /\ s \in {job[p].s, job[p].t}

(* A profile that a subscription manages is in the subscription's group, and  *)
(* on its list, without which neither sub update nor sub rm would ever remove *)
(* it while rm and mv refuse it; except while applySubscription or sub mv is  *)
(* at work, or after one was killed half-way or overtaken by another command. *)
ManagedListed ==
    \A n \in Names, s \in Subs :
        Member(n, s) =>
            /\ s \in disk[ProfileFile(n)].groups
            /\ \/ n \in profilesInSubscription(s)
               \/ SubFile(s) \in spoilt \/ \E p \in Procs : Busy(p, s)

(* What enable and disable report stays true until one of them says otherwise *)
(* and goes with the profile when mv renames it, as renameProfile's comment   *)
(* has it: both rewrite the whole of status.json for one entry.  It breaks    *)
(* when a command was killed in the middle, or has overtaken another writer   *)
(* or read its half-written file; and for the profile that mv gives the name  *)
(* of a disabled one removed before, whose flag rm left behind.               *)
StatusTold ==
    \/ StatusFile \in spoilt
    \/ \E p \in Procs : job[p] # Idle /\ job[p].put # <<>> /\ job[p].put[1] = StatusFile
    \/ \A n \in Names : told[n] # "leftover" => (isProfileEnabled(n) <=> told[n] = "on")

Halves(p) == IF job[p] # Idle /\ job[p].put # <<>> THEN {job[p].put[2]} ELSE {}
Owns(vs)  == {v.own : v \in {u \in vs : u.is = "profile"}} \ {0}
(* the profiles users made that are stored or being written *)
Living    == Owns({disk[ProfileFile(n)] : n \in Names} \cup UNION {Halves(p) : p \in Procs})

Moved(p) ==
    /\ job[p] # Idle
    /\ job'[p] = Idle \/ [job'[p] EXCEPT !.raced = {}] # [job[p] EXCEPT !.raced = {}]

(* why p may end profile t, which is stored as n *)
Excused(p, n) ==
    \/ job[p].op \in {"rm", "add"} /\ job[p].n = n
    \/ job[p].op \in {"apply", "subrm"} /\ n \in Range(job[p].list)
    \/ job[p].op = "apply" /\ disk[ProfileFile(n)].sub = job[p].s
    \/ ProfileFile(n) \in job[p].raced
    \/ job[p].op = "mv" /\ {ProfileFile(job[p].n), ProfileFile(job[p].m)} \cap job[p].raced # {}

(* A profile the user made is lost only to rm or add of that very name, to a  *)
(* subscription on whose stored list the name stands or which has taken the   *)
(* profile over (sub mv), to a kill in the middle of writing it, or to a      *)
(* command that overtook another between its look at the file and its write:  *)
(* not to import, not to enable and disable, not to mv wherever it is killed, *)
(* not to a server that offers the same name.                                 *)
OwnKept ==
    [][\A t \in Living \ Living' :
          \E p \in Procs : Moved(p) /\ (t \in Owns(Halves(p)) \/ \E n \in Names :
              t \in Owns({disk[ProfileFile(n)]}) /\ Excused(p, n))]_vars
=============================================================================
