--------------------------- MODULE ProfilesProofs ---------------------------
(***************************************************************************)
(* Proofs about Profiles, for any number of commands on any names,         *)
(* subscriptions and server answers, each of them killed anywhere.  The    *)
(* inductive invariant says, besides the types, three things.              *)
(*   Informed: what a command has read and nobody has changed since (it is *)
(*   not in its raced) is still as it read it.                             *)
(*   Accounted: every managed profile, stored or half written, is on its   *)
(*   subscription's list, or that list is spoilt, or a command is on its   *)
(*   way to listing it.                                                    *)
(*   Truthful: status.json says what enable and disable reported, and what *)
(*   a command is about to write there says it too.                        *)
(* A step of a command reads, or changes one file: ReadKeeps, AsideKeeps   *)
(* and ChangeKeeps do the work that is common to all, and one lemma per    *)
(* action shows that it is such a step.                                    *)
(***************************************************************************)
EXTENDS Profiles, SequenceTheorems, TLAPS

(***************************************************************************)
(* Types.                                                                  *)
(***************************************************************************)
Profs == [is : {"profile"}, sub : Subs \cup {NoSub}, groups : SUBSET Subs, own : 0..Issues]
Lines == [is : {"subscription"}, profiles : Seq(Names)]
Flags == [is : {"status"}, map : [Names -> {"none", "on", "off"}]]

(* what is written to f: saveProfile adds the subscription to the groups   *)
Holds(f) == IF f[1] = "profile" THEN {v \in Profs : v.sub # NoSub => v.sub \in v.groups}
            ELSE IF f[1] = "subscription" THEN Lines ELSE Flags
Values == Profs \cup Lines \cup Flags
Disks == {d \in [Files -> {Absent, Torn} \cup Values] :
              \A f \in Files : d[f] \in {Absent, Torn} \cup Holds(f)}

NameOps == {"add", "edit", "regroup", "import", "rm", "enable", "disable", "mv"}
SubOps  == {"apply", "subrm", "submv"}
Places  == {"start", "load", "save", "remove", "status", "flag", "pointers", "fetch", "clear",
            "pick", "rehome", "end"}

Jobs == [op : NameOps \cup SubOps, n : Names \cup {NoName}, m : Names \cup {NoName},
         s : Subs \cup {NoSub}, t : Subs \cup {NoSub}, g : SUBSET Subs, id : 1..Issues,
         at : Places, got : Profs \cup Flags \cup {Absent}, list : Seq(Names), left : Seq(Names),
         todo : Seq(Bases \cup {Unnamed, Refused}), made : Seq(Names),
         used : [Bases -> 0..Copies], put : {<<>>} \cup (Files \X Values), raced : SUBSET Files]

(* The arguments a command has, and what it holds where.                   *)
Apt(j) ==
    /\ j.op \in NameOps => j.n \in Names
    /\ j.op = "mv" => j.m \in Names /\ j.m # j.n
    /\ j.op \in SubOps => j.s \in Subs
    /\ j.op = "submv" => j.t \in Subs /\ j.t # j.s
    /\ j.op \in {"add", "import"} /\ j.at = "save" => j.got \in Profs /\ j.got.sub = NoSub
    /\ j.op \in {"edit", "regroup"} /\ j.at = "save" => j.got \in Profs
    /\ j.op \in {"enable", "disable"} /\ j.at \in {"save", "end"} => j.got \in Flags
    /\ j.op = "mv" /\ j.at \in {"save", "remove"} => j.got \in Profs
    /\ j.op = "mv" /\ j.at = "flag" => j.got \in Flags
    /\ j.op = "apply" /\ j.at = "save" => j.n \in Names
    /\ j.op \in {"apply", "subrm"} /\ j.at \in {"start", "fetch", "clear"} => j.made = <<>>
    /\ j.op \in SubOps /\ j.at \in {"start", "fetch"} => j.left = <<>>
    /\ j.op = "apply" /\ j.at \in {"pick", "save"} => j.left = <<>>
    /\ j.op \in SubOps => Range(j.left) \subseteq Range(j.list)
    /\ j.op = "submv" /\ j.at \in {"save", "remove"} => j.left = j.list
    /\ j.op = "submv" /\ j.at = "rehome" => j.got \in Profs /\ j.got.sub = j.t /\ j.left # <<>>

(* The second half of a write is of the right kind, and of this command.   *)
Half(j) ==
    j.put # <<>> =>
        /\ j.put[2] \in Holds(j.put[1])
        /\ j.put[1] = StatusFile =>
             /\ j.put[2] = j.got
             /\ \/ j.op \in {"enable", "disable"} /\ j.at = "end"
                \/ j.op = "mv" /\ j.at = "pointers"
        /\ j.op \in {"enable", "disable"} => j.put[1] = StatusFile
        /\ j.op = "mv" => \/ j.at = "remove" /\ j.put[1] = ProfileFile(j.m) /\ j.put[2].own = j.got.own
                          \/ j.at = "pointers" /\ j.put[1] = StatusFile
        /\ j.op \in {"add", "edit", "regroup", "import"} => j.at = "end"
        /\ j.op \notin {"rm", "subrm"}
        /\ j.op = "apply" => \/ j.at = "pick" /\ \E n \in Range(j.made) : j.put[1] = ProfileFile(n)
                             \/ j.at = "end" /\ j.put = <<SubFile(j.s), Subscription(j.made)>>
        /\ j.op = "submv" => \/ j.at = "load" /\ \E n \in Names : j.put[1] = ProfileFile(n)
                             \/ j.at = "remove" /\ j.put = <<SubFile(j.t), Subscription(j.list)>>

Fit(j) == j \in Jobs /\ Apt(j) /\ Half(j)

(***************************************************************************)
(* What a command may still rely on: of the files it has looked at, those  *)
(* that nobody else changed since (not in R) are in d as it saw them.      *)
(***************************************************************************)
Same(v, w)   == Loaded(v) /\ v.own = w.own
ListIn(d, s) == IF Loaded(d[SubFile(s)]) THEN d[SubFile(s)].profiles ELSE <<>>

(* the names that apply or sub rm has removed are gone, or came back       *)
Cleared(d, j, R) ==
    \A n \in Range(j.list) \ (Range(j.left) \cup Range(j.made)) :
        \/ ProfileFile(n) \in R \/ d[ProfileFile(n)] = Absent
        \/ j.at = "save" /\ n = j.n

KnowsHalf(d, j, R) ==
    j.put # <<>> /\ j.put[1] \notin R => d[j.put[1]] = Torn

KnowsOne(d, j, R) ==
    j.at = "save" /\ ProfileFile(j.n) \notin R =>
        LET v == d[ProfileFile(j.n)] IN
        /\ j.op \in {"edit", "regroup"} => Same(v, j.got) /\ v.sub = j.got.sub
        /\ j.op = "import" => ~Loaded(v)
        /\ j.op = "apply" /\ Loaded(v) => v.sub = j.s

KnowsMv(d, j, R) ==
    LET old == ProfileFile(j.n)
        new == ProfileFile(j.m)
    IN  j.op = "mv" =>
          /\ j.at = "load" /\ old \notin R /\ Loaded(d[old]) => d[old].sub = NoSub
          /\ j.at = "save" /\ j.got.sub # NoSub => old \in R
          /\ j.at = "save" /\ new \notin R => d[new] = Absent
          /\ j.at \in {"save", "remove"} /\ old \notin R => Same(d[old], j.got)
          /\ j.at = "remove" /\ j.put = <<>> /\ new \notin R => Same(d[new], j.got)

KnowsList(d, j, R) ==
    j.op \in {"apply", "subrm"} =>
        /\ j.at \in {"fetch", "clear", "pick", "save"} /\ SubFile(j.s) \notin R
              => j.list = ListIn(d, j.s)
        /\ j.at \in {"clear", "pick", "save"} => Cleared(d, j, R)

KnowsSubMv(d, j, R) ==
    j.op = "submv" =>
        /\ j.at \in {"save", "remove"} /\ SubFile(j.s) \notin R => j.list = ListIn(d, j.s)
        /\ j.at = "save" /\ SubFile(j.t) \notin R => d[SubFile(j.t)] = Absent
        /\ j.at \in {"remove", "load", "rehome"} /\ SubFile(j.t) \notin R
              => (j.at = "remove" /\ j.put # <<>>) \/ j.list = ListIn(d, j.t)
        /\ j.at = "rehome" /\ ProfileFile(Head(j.left)) \notin R
              => Same(d[ProfileFile(Head(j.left))], j.got)

Knows(d, j, R) ==
    KnowsHalf(d, j, R) /\ KnowsOne(d, j, R) /\ KnowsMv(d, j, R) /\ KnowsList(d, j, R) /\ KnowsSubMv(d, j, R)

(***************************************************************************)
(* Why a profile of s is, or will be, on its list: it is; or the list was  *)
(* spoilt; or a command that made the profile has yet to write the list;   *)
(* or a sub mv has yet to take the profile along.                          *)
(***************************************************************************)
Made(j, n, s)    == j.op = "apply" /\ j.s = s /\ n \in Range(j.made)
Awaited(j, n, s) == j.op = "submv" /\ j.s = s /\ j.at \in {"load", "rehome"} /\ n \in Range(j.left)
Cares(j, n, s)   == Made(j, n, s) \/ Awaited(j, n, s)
Evident(d, js, sp, n, s) ==
    n \in Range(ListIn(d, s)) \/ SubFile(s) \in sp \/ \E p \in Procs : Cares(js[p], n, s)

Stored(d, n, s) == Loaded(d[ProfileFile(n)]) /\ d[ProfileFile(n)].sub = s
Pending(j, n, s) ==
    /\ j # Idle /\ j.put # <<>> /\ j.put[1] = ProfileFile(n) /\ j.put[2].sub = s
    /\ ProfileFile(n) \notin j.raced /\ SubFile(s) \notin j.raced
Wanted(d, js, n, s) == Stored(d, n, s) \/ \E p \in Procs : Pending(js[p], n, s)

Accounted(d, js, sp) ==
    \A n \in Names, s \in Subs : Wanted(d, js, n, s) => Evident(d, js, sp, n, s)

(***************************************************************************)
(* What a command that has loaded status.json is about to make true.       *)
(***************************************************************************)
EntriesIn(d)     == IF Loaded(d[StatusFile]) THEN d[StatusFile].map ELSE NoEntries
Words            == {"on", "off", "leftover"}
Matches(map, td) == \A n \in Names : td[n] # "leftover" => (map[n] # "off" <=> td[n] = "on")
Writes(j)        == j # Idle /\ j.put # <<>> /\ j.put[1] = StatusFile

Carries(j) == \/ j.op \in {"enable", "disable"} /\ j.at \in {"save", "end"}
              \/ j.op = "mv" /\ (j.at = "flag" \/ (j.at = "pointers" /\ j.put # <<>>))
Saying(j, td) == IF j.op \in {"enable", "disable"} THEN [td EXCEPT ![j.n] = Flag(j.op)]
                 ELSE IF j.at = "flag" THEN [td EXCEPT ![j.m] = td[j.n], ![j.n] = "on"]
                 ELSE td

Promise(js, sp, td, p) ==
    Carries(js[p]) /\ StatusFile \notin js[p].raced =>
        \/ StatusFile \in sp \/ \E q \in Procs \ {p} : Writes(js[q])
        \/ Matches(js[p].got.map, Saying(js[p], td))

Truthful(d, js, sp, td) ==
    /\ StatusFile \in sp \/ (\E p \in Procs : Writes(js[p])) \/ Matches(EntriesIn(d), td)
    /\ \A p \in Procs : Promise(js, sp, td, p)

(***************************************************************************)
(* The inductive invariant.                                                *)
(***************************************************************************)
Typing ==
    /\ disk \in Disks
    /\ pointer \in [{"active", "autoswitch"} -> Names \cup {NoName}]
    /\ running \subseteq Names /\ issued \in 0..Issues
    /\ job \in [Procs -> Jobs \cup {Idle}]
    /\ \A p \in Procs : job[p] # Idle => Fit(job[p]) /\ job[p].id \in 1..issued
    /\ told \in [Names -> Words] /\ spoilt \subseteq Files

Informed == \A p \in Procs : job[p] # Idle => Knows(disk, job[p], job[p].raced)

Inv == /\ Typing /\ Informed
       /\ Accounted(disk, job, spoilt) /\ Truthful(disk, job, spoilt, told)

(***************************************************************************)
(* Lemmas on names, files and sequences.                                   *)
(***************************************************************************)
LEMMA FileKinds ==
    /\ \A n \in Names : ProfileFile(n) \in Files /\ ProfileFile(n)[1] = "profile"
    /\ \A s \in Subs : SubFile(s) \in Files /\ SubFile(s)[1] = "subscription"
    /\ StatusFile \in Files /\ StatusFile[1] = "status"
    /\ \A n, x : ProfileFile(n) = ProfileFile(x) => n = x
    /\ \A s, x : SubFile(s) = SubFile(x) => s = x
    /\ \A n, s : ProfileFile(n) # SubFile(s)
    /\ \A n : ProfileFile(n) # StatusFile
    /\ \A s : SubFile(s) # StatusFile
BY DEF Files, ProfileFile, SubFile, StatusFile

LEMMA NameKinds ==
    /\ \A n \in Names : n[1] \in Bases
    /\ \A b \in Bases : Plain(b) \in Names /\ Plain(b)[1] = b
    /\ \A b \in Bases, c \in 0..(Copies - 1) : SubCopy(b, c) \in Names
    /\ \A b \in Bases, c \in 1..Copies : FileCopy(b, c) \in Names
<1>1. \A n \in Names : n[1] \in Bases
  BY DEF Names, Plain, SubCopy, FileCopy
<1>2. \A b \in Bases : Plain(b) \in Names /\ Plain(b)[1] = b
  BY DEF Names, Plain
<1>3. \A b \in Bases, c \in 0..(Copies - 1) : SubCopy(b, c) \in Names
  BY DEF Names
<1>4. \A b \in Bases, c \in 1..Copies : FileCopy(b, c) \in Names
  BY DEF Names
<1> QED BY <1>1, <1>2, <1>3, <1>4

LEMMA Ranges ==
    /\ Range(<<>>) = {}
    /\ \A S : \A q \in Seq(S) :
         /\ Range(q) \subseteq S
         /\ q # <<>> => /\ Head(q) \in Range(q) /\ Tail(q) \in Seq(S) /\ Tail(q) # q
                        /\ Range(Tail(q)) \subseteq Range(q)
                        /\ Range(q) \subseteq Range(Tail(q)) \cup {Head(q)}
         /\ \A x \in S : Append(q, x) \in Seq(S) /\ Range(Append(q, x)) = Range(q) \cup {x}
<1>1. Range(<<>>) = {}
  BY DEF Range
<1> SUFFICES ASSUME NEW S, NEW q \in Seq(S)
             PROVE  /\ Range(q) \subseteq S
                    /\ q # <<>> => /\ Head(q) \in Range(q) /\ Tail(q) \in Seq(S) /\ Tail(q) # q
                                   /\ Range(Tail(q)) \subseteq Range(q)
                                   /\ Range(q) \subseteq Range(Tail(q)) \cup {Head(q)}
                    /\ \A x \in S : Append(q, x) \in Seq(S) /\ Range(Append(q, x)) = Range(q) \cup {x}
  BY <1>1
<1>2. Range(q) \subseteq S
  BY DEF Range
<1>3. ASSUME q # <<>>
      PROVE  /\ Head(q) \in Range(q) /\ Tail(q) \in Seq(S) /\ Tail(q) # q
             /\ Range(Tail(q)) \subseteq Range(q)
             /\ Range(q) \subseteq Range(Tail(q)) \cup {Head(q)}
  <2>1. Len(q) \in Nat \ {0} /\ DOMAIN q = 1..Len(q) /\ Head(q) = q[1]
    BY <1>3, HeadTailProperties, LenProperties, EmptySeq
  <2>2. /\ Tail(q) \in Seq(S) /\ Len(Tail(q)) = Len(q) - 1 /\ DOMAIN Tail(q) = 1..(Len(q) - 1)
        /\ \A i \in 1..Len(Tail(q)) : Tail(q)[i] = q[i + 1]
    <3>1. Tail(q) \in Seq(S) /\ Len(Tail(q)) = Len(q) - 1 /\ \A i \in 1..Len(Tail(q)) : Tail(q)[i] = q[i + 1]
      BY <1>3, HeadTailProperties
    <3>2. DOMAIN Tail(q) = 1..Len(Tail(q))
      BY <3>1, LenProperties
    <3> QED BY <3>1, <3>2
  <2>3. Head(q) \in Range(q)
    BY <2>1 DEF Range
  <2>4. Range(Tail(q)) \subseteq Range(q)
    BY <2>1, <2>2 DEF Range
  <2>5. Range(q) \subseteq Range(Tail(q)) \cup {Head(q)}
    <3> SUFFICES ASSUME NEW i \in 1..Len(q), i # 1 PROVE q[i] \in Range(Tail(q))
      BY <2>1 DEF Range
    <3>1. i - 1 \in 1..(Len(q) - 1) /\ Tail(q)[i - 1] = q[i]
      BY <2>1, <2>2
    <3> QED BY <3>1, <2>2 DEF Range
  <2>6. Tail(q) # q
    <3>1. Len(Tail(q)) = Len(q) - 1 /\ Len(q) \in Int
      BY <2>1, <2>2
    <3> QED BY <3>1
  <2> QED BY <2>2, <2>3, <2>4, <2>5, <2>6
<1>4. ASSUME NEW x \in S PROVE Append(q, x) \in Seq(S) /\ Range(Append(q, x)) = Range(q) \cup {x}
  <2>1. Append(q, x) \in Seq(S) /\ Len(Append(q, x)) = Len(q) + 1 /\ Append(q, x)[Len(q) + 1] = x
        /\ \A i \in 1..Len(q) : Append(q, x)[i] = q[i]
    BY AppendProperties
  <2>2. DOMAIN Append(q, x) = 1..(Len(q) + 1) /\ DOMAIN q = 1..Len(q) /\ Len(q) \in Nat
    BY <2>1, LenProperties
  <2> QED BY <2>1, <2>2 DEF Range
<1> QED BY <1>2, <1>3, <1>4

(***************************************************************************)
(* Lemmas on jobs: what the history of races does not change.              *)
(***************************************************************************)
Alike(j, k) ==
    /\ k.op = j.op /\ k.n = j.n /\ k.m = j.m /\ k.s = j.s /\ k.t = j.t /\ k.g = j.g /\ k.id = j.id
    /\ k.at = j.at /\ k.got = j.got /\ k.list = j.list /\ k.left = j.left /\ k.todo = j.todo
    /\ k.made = j.made /\ k.used = j.used /\ k.put = j.put

LEMMA JobIsNotIdle == \A j \in Jobs : j # Idle
BY DEF Jobs, Idle, NameOps, SubOps

LEMMA Raced ==
    ASSUME NEW j \in Jobs, NEW R \in SUBSET Files
    PROVE  LET k == [j EXCEPT !.raced = R] IN k \in Jobs /\ k.raced = R /\ Alike(j, k)
<1>1. [j EXCEPT !.raced = R] \in Jobs
  BY Zenon DEF Jobs
<1>2. [j EXCEPT !.raced = R].raced = R /\ Alike(j, [j EXCEPT !.raced = R])
  BY DEF Jobs, Alike
<1> QED BY <1>1, <1>2

LEMMA AlikeFit ==
    ASSUME NEW j \in Jobs, NEW k \in Jobs, Alike(j, k), Fit(j)
    PROVE  Fit(k)
<1>1. Apt(k)
  BY DEF Fit, Apt, Alike
<1>2. Half(k)
  BY DEF Fit, Half, Alike
<1> QED BY <1>1, <1>2 DEF Fit

LEMMA AlikeKnows ==
    ASSUME NEW d, NEW j, NEW k, Alike(j, k), NEW R, Knows(d, j, R)
    PROVE  Knows(d, k, R)
<1>1. KnowsHalf(d, k, R) /\ KnowsOne(d, k, R)
  BY DEF Knows, KnowsHalf, KnowsOne, Alike
<1>2. KnowsMv(d, k, R)
  BY DEF Knows, KnowsMv, Alike
<1>3. KnowsList(d, k, R)
  BY DEF Knows, KnowsList, Cleared, Alike
<1>4. KnowsSubMv(d, k, R)
  BY DEF Knows, KnowsSubMv, Alike
<1> QED BY <1>1, <1>2, <1>3, <1>4 DEF Knows

LEMMA AlikeRest ==
    ASSUME NEW j \in Jobs, NEW k \in Jobs, Alike(j, k)
    PROVE  /\ \A n, s : Cares(k, n, s) <=> Cares(j, n, s)
           /\ \A n, s : j.raced \subseteq k.raced /\ Pending(k, n, s) => Pending(j, n, s)
           /\ Writes(k) <=> Writes(j)
           /\ Carries(k) <=> Carries(j)
           /\ \A td : Saying(k, td) = Saying(j, td)
<1>1. \A n, s : Cares(k, n, s) <=> Cares(j, n, s)
  BY DEF Alike, Cares, Made, Awaited
<1>2. \A n, s : j.raced \subseteq k.raced /\ Pending(k, n, s) => Pending(j, n, s)
  BY JobIsNotIdle DEF Alike, Pending
<1>3. Writes(k) <=> Writes(j)
  BY JobIsNotIdle DEF Alike, Writes
<1>4. Carries(k) <=> Carries(j)
  BY DEF Alike, Carries
<1>5. \A td : Saying(k, td) = Saying(j, td)
  BY DEF Alike, Saying
<1> QED BY <1>1, <1>2, <1>3, <1>4, <1>5

(* A file that another command changes is one it may no longer rely on.    *)
LEMMA KnowsStill ==
    ASSUME NEW d \in Disks, NEW f \in Files, NEW v, NEW j, Fit(j), NEW R, Knows(d, j, R)
    PROVE  Knows([d EXCEPT ![f] = v], j, R \cup {f})
<1> DEFINE e == [d EXCEPT ![f] = v]
<1>1. \A g \in Files : g \notin R \cup {f} => e[g] = d[g] /\ g \notin R
  BY DEF Disks
<1>2. /\ j.op \in NameOps \/ (j.op = "apply" /\ j.at = "save") => ProfileFile(j.n) \in Files
      /\ j.op = "mv" => ProfileFile(j.m) \in Files
      /\ j.op \in SubOps => SubFile(j.s) \in Files
      /\ j.op = "submv" => SubFile(j.t) \in Files
      /\ j.put # <<>> => j.put[1] \in Files
  <2>1. j.put # <<>> => j.put[1] \in Files
    BY DEF Fit, Jobs
  <2> QED BY <2>1, FileKinds DEF Fit, Apt
<1>3. \A n \in Range(j.list) : ProfileFile(n) \in Files
  BY Ranges, FileKinds DEF Fit, Jobs
<1>4. j.op = "submv" /\ j.at = "rehome" => ProfileFile(Head(j.left)) \in Files
  <2>1. j.left \in Seq(Names)
    BY DEF Fit, Jobs
  <2> QED BY <2>1, Ranges, FileKinds DEF Fit, Apt
<1>5. \A s : SubFile(s) \in Files /\ SubFile(s) \notin R \cup {f} => ListIn(e, s) = ListIn(d, s)
  BY <1>1 DEF ListIn
<1> HIDE DEF e
<1>6. KnowsHalf(e, j, R \cup {f})
  BY <1>1, <1>2 DEF Knows, KnowsHalf
<1>7. KnowsOne(e, j, R \cup {f})
  BY <1>1, <1>2 DEF Knows, KnowsOne, NameOps
<1>8. KnowsMv(e, j, R \cup {f})
  BY <1>1, <1>2 DEF Knows, KnowsMv, NameOps
<1>9. KnowsList(e, j, R \cup {f})
  BY <1>1, <1>2, <1>3, <1>5 DEF Knows, KnowsList, Cleared, SubOps
<1>10. KnowsSubMv(e, j, R \cup {f})
  BY <1>1, <1>2, <1>4, <1>5 DEF Knows, KnowsSubMv, SubOps
<1> QED BY <1>6, <1>7, <1>8, <1>9, <1>10 DEF Knows, e

(***************************************************************************)
(* The jobs after p changed f and became k, and after p only became k.     *)
(***************************************************************************)
Overtaken(js, p, f, k) ==
    [q \in Procs |-> IF q = p THEN k
                     ELSE IF js[q] = Idle THEN Idle ELSE [js[q] EXCEPT !.raced = @ \cup {f}]]

LEMMA Others ==
    ASSUME NEW js \in [Procs -> Jobs \cup {Idle}], NEW p \in Procs, NEW f \in Files,
           NEW k \in Jobs \cup {Idle}
    PROVE  LET ls == Overtaken(js, p, f, k) IN
           /\ ls \in [Procs -> Jobs \cup {Idle}] /\ ls[p] = k
           /\ \A q \in Procs \ {p} :
                \/ js[q] = Idle /\ ls[q] = Idle
                \/ /\ js[q] \in Jobs /\ ls[q] \in Jobs /\ Alike(js[q], ls[q])
                   /\ ls[q].raced = js[q].raced \cup {f}
<1> DEFINE ls == Overtaken(js, p, f, k)
<1>1. ls[p] = k
  BY DEF Overtaken
<1>2. ASSUME NEW q \in Procs \ {p}, js[q] = Idle PROVE ls[q] = Idle
  BY <1>2 DEF Overtaken
<1>3. ASSUME NEW q \in Procs \ {p}, js[q] # Idle
      PROVE  /\ js[q] \in Jobs /\ ls[q] \in Jobs /\ Alike(js[q], ls[q])
             /\ ls[q].raced = js[q].raced \cup {f}
  <2>1. js[q] \in Jobs /\ ls[q] = [js[q] EXCEPT !.raced = js[q].raced \cup {f}]
    BY <1>3 DEF Overtaken
  <2>2. js[q].raced \cup {f} \in SUBSET Files
    BY <2>1 DEF Jobs
  <2> QED BY <2>1, <2>2, Raced
<1>4. ls \in [Procs -> Jobs \cup {Idle}]
  <2>1. \A q \in Procs : ls[q] \in Jobs \cup {Idle}
    BY <1>1, <1>2, <1>3
  <2> QED BY <2>1, Zenon DEF Overtaken
<1> QED BY <1>1, <1>2, <1>3, <1>4

(* The cases in which such a step has to show why n is on the list of s.   *)
Explained(d, js, sp, p, f, v, k) ==
    \A n \in Names, s \in Subs :
        LET e   == [d EXCEPT ![f] = v]
            why == Evident(e, Overtaken(js, p, f, k), sp, n, s)
        IN  /\ f # ProfileFile(n) /\ Cares(js[p], n, s) => why
            /\ f = SubFile(s) /\ Stored(d, n, s) /\ n \in Range(ListIn(d, s)) => why
            /\ Pending(k, n, s) => why
            /\ f = ProfileFile(n) /\ Loaded(v) /\ v.sub = s => why

LEMMA AccountedChange ==
    ASSUME NEW d \in Disks, NEW js \in [Procs -> Jobs \cup {Idle}], NEW sp, NEW sp2,
           sp \subseteq sp2, Accounted(d, js, sp),
           NEW p \in Procs, NEW f \in Files, NEW v, NEW k \in Jobs \cup {Idle}, NEW e, NEW ls,
           e = [d EXCEPT ![f] = v], ls = Overtaken(js, p, f, k),
           Explained(d, js, sp2, p, f, v, k)
    PROVE  Accounted(e, ls, sp2)
<1> SUFFICES ASSUME NEW n \in Names, NEW s \in Subs, Wanted(e, ls, n, s)
             PROVE  Evident(e, ls, sp2, n, s)
  BY DEF Accounted
<1>0. \A g \in Files : e[g] = IF g = f THEN v ELSE d[g]
  BY DEF Disks
<1>9. /\ f # ProfileFile(n) /\ Cares(js[p], n, s) => Evident(e, ls, sp2, n, s)
      /\ f = SubFile(s) /\ Stored(d, n, s) /\ n \in Range(ListIn(d, s)) => Evident(e, ls, sp2, n, s)
      /\ Pending(k, n, s) => Evident(e, ls, sp2, n, s)
      /\ f = ProfileFile(n) /\ Loaded(v) /\ v.sub = s => Evident(e, ls, sp2, n, s)
  BY Zenon DEF Explained
<1>1. /\ ls[p] = k
      /\ \A q \in Procs \ {p} :
           \/ js[q] = Idle /\ ls[q] = Idle
           \/ /\ js[q] \in Jobs /\ ls[q] \in Jobs /\ Alike(js[q], ls[q])
              /\ ls[q].raced = js[q].raced \cup {f}
  BY Others
<1>2. \A q \in Procs \ {p} : Cares(js[q], n, s) => Cares(ls[q], n, s)
  <2>1. ~Cares(Idle, n, s)
    BY DEF Cares, Made, Awaited, Idle
  <2> QED BY <1>1, <2>1, AlikeRest
<1>3. ASSUME NEW q \in Procs \ {p}, Pending(ls[q], n, s)
      PROVE  Pending(js[q], n, s) /\ f # ProfileFile(n) /\ f # SubFile(s)
  <2>1. js[q] \in Jobs /\ ls[q] \in Jobs /\ Alike(js[q], ls[q]) /\ ls[q].raced = js[q].raced \cup {f}
    BY <1>1, <1>3 DEF Pending
  <2>2. Pending(js[q], n, s)
    BY <2>1, <1>3, AlikeRest
  <2> QED BY <2>1, <2>2, <1>3 DEF Pending
<1>4. CASE Pending(k, n, s)
  BY <1>4, <1>9
<1>5. CASE f = ProfileFile(n) /\ Stored(e, n, s)
  <2>1. e[f] = v
    BY <1>0
  <2>2. Loaded(v) /\ v.sub = s
    BY <1>5, <2>1 DEF Stored
  <2> QED BY <1>5, <1>9, <2>2
<1>6. CASE Wanted(d, js, n, s) /\ f # ProfileFile(n) /\ (f = SubFile(s) => Stored(d, n, s))
  <2>1. Evident(d, js, sp, n, s)
    BY <1>6 DEF Accounted
  <2>2. CASE n \in Range(ListIn(d, s)) /\ f # SubFile(s)
    <3>1. ListIn(e, s) = ListIn(d, s)
      BY <2>2, <1>0, FileKinds DEF ListIn
    <3> QED BY <2>2, <3>1 DEF Evident
  <2>3. CASE n \in Range(ListIn(d, s)) /\ f = SubFile(s)
    BY <2>3, <1>6, <1>9
  <2>4. CASE SubFile(s) \in sp
    BY <2>4 DEF Evident
  <2>5. ASSUME NEW q \in Procs, Cares(js[q], n, s) PROVE Evident(e, ls, sp2, n, s)
    <3>1. CASE q = p
      BY <3>1, <2>5, <1>6, <1>9
    <3>2. CASE q # p
      BY <3>2, <2>5, <1>2 DEF Evident
    <3> QED BY <3>1, <3>2
  <2> QED BY <2>1, <2>2, <2>3, <2>4, <2>5 DEF Evident
<1>7. CASE f # ProfileFile(n) /\ Stored(e, n, s)
  <2>1. Stored(d, n, s)
    BY <1>7, <1>0, FileKinds DEF Stored
  <2> QED BY <2>1, <1>7, <1>6 DEF Wanted
<1>8. ASSUME NEW q \in Procs \ {p}, Pending(ls[q], n, s) PROVE Evident(e, ls, sp2, n, s)
  BY <1>8, <1>3, <1>6 DEF Wanted
<1> QED BY <1>1, <1>4, <1>5, <1>7, <1>8 DEF Wanted

LEMMA AccountedRead ==
    ASSUME NEW d, NEW js \in [Procs -> Jobs \cup {Idle}], NEW sp, NEW sp2,
           sp \subseteq sp2, Accounted(d, js, sp),
           NEW p \in Procs, NEW k, NEW ls, ls[p] = k, \A q \in Procs \ {p} : ls[q] = js[q],
           k = Idle \/ k.put = <<>>,
           \A n \in Names, s \in Subs : Wanted(d, js, n, s) /\ Cares(js[p], n, s)
               => Cares(k, n, s) \/ SubFile(s) \in sp2
    PROVE  Accounted(d, ls, sp2)
<1> SUFFICES ASSUME NEW n \in Names, NEW s \in Subs, Wanted(d, ls, n, s)
             PROVE  Evident(d, ls, sp2, n, s)
  BY DEF Accounted
<1>1. ls[p] = k /\ \A q \in Procs \ {p} : ls[q] = js[q]
  OBVIOUS
<1>2. ~Pending(k, n, s)
  BY DEF Pending
<1>3. Wanted(d, js, n, s)
  BY <1>1, <1>2 DEF Wanted
<1>4. Evident(d, js, sp, n, s)
  BY <1>3 DEF Accounted
<1> QED BY <1>1, <1>3, <1>4 DEF Evident

(* What a step of p does to the promises of the others, when it leaves     *)
(* status.json alone.                                                      *)
Undisturbed(js, ls, q) ==
    /\ Writes(js[q]) => Writes(ls[q])
    /\ Carries(ls[q]) /\ StatusFile \notin ls[q].raced =>
         /\ Carries(js[q]) /\ StatusFile \notin js[q].raced /\ ls[q].got = js[q].got
         /\ \A td : Saying(ls[q], td) = Saying(js[q], td)

LEMMA OthersUndisturbed ==
    ASSUME NEW js \in [Procs -> Jobs \cup {Idle}], NEW p \in Procs, NEW f \in Files,
           NEW k \in Jobs \cup {Idle}, NEW q \in Procs \ {p}
    PROVE  LET ls == Overtaken(js, p, f, k) IN
           Undisturbed(js, ls, q) /\ (f = StatusFile /\ Carries(ls[q]) => StatusFile \in ls[q].raced)
<1> DEFINE ls == Overtaken(js, p, f, k)
<1>1. \/ js[q] = Idle /\ ls[q] = Idle
      \/ js[q] \in Jobs /\ ls[q] \in Jobs /\ Alike(js[q], ls[q]) /\ ls[q].raced = js[q].raced \cup {f}
  BY Others
<1> HIDE DEF ls
<1>2. CASE js[q] = Idle /\ ls[q] = Idle
  <2>1. ~Writes(Idle) /\ ~Carries(Idle)
    BY DEF Writes, Carries, Idle
  <2> QED BY <1>2, <2>1 DEF Undisturbed, ls
<1>3. CASE js[q] \in Jobs /\ ls[q] \in Jobs /\ Alike(js[q], ls[q]) /\ ls[q].raced = js[q].raced \cup {f}
  <2>1. ls[q].got = js[q].got
    BY <1>3 DEF Alike
  <2> QED BY <1>3, <2>1, AlikeRest DEF Undisturbed, ls
<1> QED BY <1>1, <1>2, <1>3

LEMMA TrueAside ==
    ASSUME NEW d, NEW e, NEW js, NEW ls, NEW sp, NEW sp2, NEW td, NEW p \in Procs,
           Truthful(d, js, sp, td), e[StatusFile] = d[StatusFile], sp \subseteq sp2,
           \A q \in Procs \ {p} : Undisturbed(js, ls, q),
           Writes(js[p]) => StatusFile \in sp2 \/ Writes(ls[p]),
           Carries(ls[p]) /\ StatusFile \notin ls[p].raced =>
               \/ StatusFile \in sp2 \/ \E q \in Procs \ {p} : Writes(js[q])
               \/ Matches(ls[p].got.map, Saying(ls[p], td))
    PROVE  Truthful(e, ls, sp2, td)
<1>1. EntriesIn(e) = EntriesIn(d)
  BY DEF EntriesIn
<1>2. \A q \in Procs : Writes(js[q]) => Writes(ls[q]) \/ StatusFile \in sp2
  BY DEF Undisturbed
<1>3. StatusFile \in sp2 \/ (\E q \in Procs : Writes(ls[q])) \/ Matches(EntriesIn(e), td)
  BY <1>1, <1>2 DEF Truthful
<1>4. Promise(ls, sp2, td, p)
  BY <1>2 DEF Promise
<1>5. ASSUME NEW q \in Procs \ {p} PROVE Promise(ls, sp2, td, q)
  <2> SUFFICES ASSUME Carries(ls[q]), StatusFile \notin ls[q].raced, StatusFile \notin sp2
               PROVE  (\E r \in Procs \ {q} : Writes(ls[r])) \/ Matches(ls[q].got.map, Saying(ls[q], td))
    BY DEF Promise
  <2>1. Carries(js[q]) /\ StatusFile \notin js[q].raced /\ ls[q].got = js[q].got
        /\ Saying(ls[q], td) = Saying(js[q], td)
    BY DEF Undisturbed
  <2>2. Promise(js, sp, td, q)
    BY DEF Truthful
  <2>3. (\E r \in Procs \ {q} : Writes(js[r])) \/ Matches(js[q].got.map, Saying(js[q], td))
    BY <2>1, <2>2 DEF Promise
  <2> QED BY <2>1, <2>3, <1>2
<1> QED BY <1>3, <1>4, <1>5 DEF Truthful

(* p truncates status.json.                                                *)
LEMMA TrueTruncate ==
    ASSUME NEW d, NEW e, NEW js \in [Procs -> Jobs \cup {Idle}], NEW ls, NEW sp, NEW sp2,
           NEW td, NEW td2, NEW p \in Procs, NEW k \in Jobs,
           Truthful(d, js, sp, td), sp \subseteq sp2, ls = Overtaken(js, p, StatusFile, k),
           Writes(k), Carries(js[p]), k.got = js[p].got, Saying(k, td2) = Saying(js[p], td),
           StatusFile \in js[p].raced => StatusFile \in sp2
    PROVE  Truthful(e, ls, sp2, td2)
<1>1. ls[p] = k /\ StatusFile \in Files
  BY FileKinds DEF Overtaken
<1>2. \A q \in Procs \ {p} : /\ Writes(js[q]) => Writes(ls[q])
                             /\ Carries(ls[q]) => StatusFile \in ls[q].raced
  BY <1>1, OthersUndisturbed DEF Undisturbed
<1>3. Promise(js, sp, td, p)
  BY DEF Truthful
<1>4. Promise(ls, sp2, td2, p)
  BY <1>1, <1>2, <1>3 DEF Promise
<1>5. \A q \in Procs \ {p} : Promise(ls, sp2, td2, q)
  BY <1>2 DEF Promise
<1> QED BY <1>1, <1>4, <1>5 DEF Truthful

(* p writes the second half.                                               *)
LEMMA TrueFlush ==
    ASSUME NEW d, NEW e, NEW js \in [Procs -> Jobs \cup {Idle}], NEW ls, NEW sp, NEW sp2,
           NEW td, NEW td2, NEW p \in Procs, NEW k \in Jobs \cup {Idle},
           Truthful(d, js, sp, td), sp \subseteq sp2, ls = Overtaken(js, p, StatusFile, k),
           js[p].got \in Flags, e[StatusFile] = js[p].got, Carries(js[p]),
           ~Carries(k), td2 = Saying(js[p], td),
           StatusFile \in js[p].raced => StatusFile \in sp2
    PROVE  Truthful(e, ls, sp2, td2)
<1>1. ls[p] = k /\ StatusFile \in Files
  BY FileKinds DEF Overtaken
<1>2. \A q \in Procs \ {p} : /\ Writes(js[q]) => Writes(ls[q])
                             /\ Carries(ls[q]) => StatusFile \in ls[q].raced
  BY <1>1, OthersUndisturbed DEF Undisturbed
<1>3. EntriesIn(e) = js[p].got.map
  BY DEF EntriesIn, Loaded, Flags
<1>4. Promise(js, sp, td, p)
  BY DEF Truthful
<1>5. StatusFile \in sp2 \/ (\E q \in Procs : Writes(ls[q])) \/ Matches(EntriesIn(e), td2)
  BY <1>2, <1>3, <1>4 DEF Promise
<1>6. \A q \in Procs : Promise(ls, sp2, td2, q)
  BY <1>1, <1>2 DEF Promise
<1> QED BY <1>5, <1>6 DEF Truthful

(***************************************************************************)
(* A step of command p: it reads, or it changes f.                         *)
(***************************************************************************)
Gone(j) == j.at = "end" /\ j.put = <<>>

LEMMA NothingOfIdle ==
    /\ \A n, s : ~Cares(Idle, n, s) /\ ~Pending(Idle, n, s)
    /\ ~Writes(Idle) /\ ~Carries(Idle)
BY DEF Cares, Made, Awaited, Pending, Writes, Carries, Idle

(* p becomes k, and no file changes.                                       *)
LEMMA AsideRest ==
    ASSUME Inv, NEW p \in Procs, NEW k \in Jobs \cup {Idle}, job' = [job EXCEPT ![p] = k],
           disk' = disk, running' = running, issued' \in 0..Issues, issued <= issued',
           told' \in [Names -> Words],
           pointer' \in [{"active", "autoswitch"} -> Names \cup {NoName}],
           spoilt \subseteq spoilt', spoilt' \subseteq Files,
           k # Idle => Fit(k) /\ k.put = <<>> /\ k.id \in 1..issued' /\ Knows(disk, k, k.raced),
           \A n \in Names, s \in Subs : Wanted(disk, job, n, s) /\ Cares(job[p], n, s)
               => Cares(k, n, s) \/ SubFile(s) \in spoilt'
    PROVE  Typing' /\ Informed' /\ Accounted(disk, job, spoilt)'
<1> USE DEF Inv
<1>1. job \in [Procs -> Jobs \cup {Idle}]
  BY DEF Typing
<1>2. job' \in [Procs -> Jobs \cup {Idle}] /\ job'[p] = k /\ \A q \in Procs \ {p} : job'[q] = job[q]
  BY <1>1
<1>3. Typing'
  <2>1. ASSUME NEW q \in Procs, job'[q] # Idle PROVE Fit(job'[q]) /\ job'[q].id \in 1..issued'
    <3>1. CASE q = p
      BY <2>1, <3>1, <1>2
    <3>2. CASE q # p
      <4>1. Fit(job[q]) /\ job[q].id \in 1..issued /\ issued \in 0..Issues
        BY <2>1, <3>2, <1>2 DEF Typing
      <4>2. job[q].id \in 1..issued'
        BY <4>1
      <4> QED BY <4>1, <4>2, <3>2, <1>2
    <3> QED BY <3>1, <3>2
  <2> QED BY <2>1, <1>2 DEF Typing
<1>4. Informed'
  BY <1>2 DEF Informed
<1>5. Accounted(disk, job, spoilt)'
  <2>1. k = Idle \/ k.put = <<>>
    OBVIOUS
  <2>2. PICK ls, sp2 : ls = job' /\ sp2 = spoilt'
    OBVIOUS
  <2>3. /\ ls[p] = k /\ (\A q \in Procs \ {p} : ls[q] = job[q]) /\ spoilt \subseteq sp2
        /\ \A n \in Names, s \in Subs : Wanted(disk, job, n, s) /\ Cares(job[p], n, s)
               => Cares(k, n, s) \/ SubFile(s) \in sp2
    BY <1>2, <2>2
  <2>4. Accounted(disk, ls, sp2)
    BY <1>1, <2>1, <2>3, AccountedRead
  <2> QED BY <2>2, <2>4
<1> QED BY <1>3, <1>4, <1>5

LEMMA AsideKeeps ==
    ASSUME Inv, NEW p \in Procs, NEW k \in Jobs \cup {Idle}, job' = [job EXCEPT ![p] = k],
           disk' = disk, running' = running, issued' \in 0..Issues, issued <= issued', told' = told,
           pointer' \in [{"active", "autoswitch"} -> Names \cup {NoName}],
           spoilt \subseteq spoilt', spoilt' \subseteq Files,
           k # Idle => Fit(k) /\ k.put = <<>> /\ k.id \in 1..issued' /\ Knows(disk, k, k.raced),
           \A n \in Names, s \in Subs : Wanted(disk, job, n, s) /\ Cares(job[p], n, s)
               => Cares(k, n, s) \/ SubFile(s) \in spoilt',
           Writes(job[p]) => StatusFile \in spoilt',
           Carries(k) /\ StatusFile \notin k.raced =>
               \/ StatusFile \in spoilt \/ \E q \in Procs \ {p} : Writes(job[q])
               \/ Matches(k.got.map, Saying(k, told))
    PROVE  Inv'
<1> USE DEF Inv
<1>1. job \in [Procs -> Jobs \cup {Idle}] /\ told' \in [Names -> Words]
  BY DEF Typing
<1>2. job'[p] = k /\ \A q \in Procs \ {p} : job'[q] = job[q]
  BY <1>1
<1>3. Typing' /\ Informed' /\ Accounted(disk, job, spoilt)'
  BY <1>1, AsideRest
<1>4. Truthful(disk, job, spoilt, told)'
  <2>1. \A q \in Procs \ {p} : Undisturbed(job, job', q)
    BY <1>2 DEF Undisturbed
  <2>2. PICK ls, sp2 : ls = job' /\ sp2 = spoilt'
    OBVIOUS
  <2>3. /\ \A q \in Procs \ {p} : Undisturbed(job, ls, q)
        /\ spoilt \subseteq sp2 /\ (Writes(job[p]) => StatusFile \in sp2 \/ Writes(ls[p]))
        /\ Carries(ls[p]) /\ StatusFile \notin ls[p].raced =>
               \/ StatusFile \in sp2 \/ \E q \in Procs \ {p} : Writes(job[q])
               \/ Matches(ls[p].got.map, Saying(ls[p], told))
    BY <1>2, <2>1, <2>2
  <2>4. Truthful(disk, ls, sp2, told)
    BY <2>3, TrueAside
  <2> QED BY <2>2, <2>4
<1> QED BY <1>3, <1>4

LEMMA ReadKeeps ==
    ASSUME Inv, NEW p \in Procs, job[p] # Idle, job[p].put = <<>>, NEW fs, NEW j, Read(p, fs, j),
           running' = running, issued' = issued, told' = told,
           pointer' \in [{"active", "autoswitch"} -> Names \cup {NoName}],
           j \in Jobs, ~Gone(j) => Fit(j), j.put = <<>>, j.id = job[p].id, j.raced = job[p].raced,
           ~Gone(j) => Knows(disk, j, j.raced \ fs),
           \A n \in Names, s \in Subs : Cares(job[p], n, s) => ~Gone(j) /\ Cares(j, n, s),
           ~Gone(j) /\ Carries(j) /\ StatusFile \notin j.raced \ fs =>
               \/ StatusFile \in spoilt \/ \E q \in Procs \ {p} : Writes(job[q])
               \/ Matches(j.got.map, Saying(j, told))
    PROVE  Inv'
<1>1. disk' = disk /\ spoilt' = spoilt /\ spoilt \subseteq Files /\ issued \in 0..Issues
  BY DEF Read, Inv, Typing
<1>2. j \in Jobs /\ j.raced \ fs \in SUBSET Files
  BY DEF Jobs
<1>3. PICK R : R = j.raced \ fs
  OBVIOUS
<1>4. PICK l : l = [j EXCEPT !.raced = R]
  OBVIOUS
<1>5. l \in Jobs /\ Alike(j, l) /\ l.raced = R
  BY <1>2, <1>3, <1>4, Raced
<1>6. PICK k : k = Ended(l)
  OBVIOUS
<1>7. /\ k \in Jobs \cup {Idle}
      /\ Gone(j) => k = Idle
      /\ ~Gone(j) => k \in Jobs /\ Alike(j, k) /\ k.raced = j.raced \ fs
  <2>1. l.at = j.at /\ l.put = j.put
    BY <1>5 DEF Alike
  <2>2. k = IF Gone(j) THEN Idle ELSE l
    BY <2>1, <1>6 DEF Ended, Gone
  <2>3. CASE Gone(j)
    BY <2>2, <2>3, Zenon
  <2>4. CASE ~Gone(j)
    <3>1. k = l
      BY <2>2, <2>4, Zenon
    <3> QED BY <3>1, <2>4, <1>3, <1>5, Zenon
  <2> QED BY <2>3, <2>4, Zenon
<1>8. job' = [job EXCEPT ![p] = k]
  <2>1. [j EXCEPT !.raced = @ \ fs] = l
    BY <1>3, <1>4
  <2> QED BY <2>1, <1>6 DEF Read
<1>9. k # Idle => Fit(k) /\ k.put = <<>> /\ k.id \in 1..issued' /\ Knows(disk, k, k.raced)
  <2>1. job[p].id \in 1..issued
    BY DEF Inv, Typing
  <2> QED BY <2>1, <1>2, <1>7, AlikeFit, AlikeKnows DEF Alike
<1>10. \A n \in Names, s \in Subs : Cares(job[p], n, s) => Cares(k, n, s)
  BY <1>2, <1>7, AlikeRest
<1>11. ~Writes(job[p])
  BY DEF Writes
<1>12. Carries(k) /\ StatusFile \notin k.raced =>
               \/ StatusFile \in spoilt \/ \E q \in Procs \ {p} : Writes(job[q])
               \/ Matches(k.got.map, Saying(k, told))
  <2>1. CASE Gone(j)
    BY <2>1, <1>7, NothingOfIdle
  <2>2. CASE ~Gone(j)
    <3>1. k.got = j.got /\ (Carries(k) <=> Carries(j)) /\ Saying(k, told) = Saying(j, told)
      BY <2>2, <1>2, <1>7, AlikeRest DEF Alike
    <3> QED BY <3>1, <2>2, <1>7
  <2> QED BY <2>1, <2>2
<1>13. issued' \in 0..Issues /\ issued <= issued' /\ spoilt \subseteq spoilt' /\ spoilt' \subseteq Files
  BY <1>1
<1> QED BY <1>1, <1>7, <1>8, <1>9, <1>10, <1>11, <1>12, <1>13, AsideKeeps

(* What the step has to say of n and s.                                    *)
Cared(p, j, n, s) ==
    \/ (~Gone(j) /\ Cares(j, n, s)) \/ SubFile(s) \in spoilt'
    \/ \E q \in Procs \ {p} : Cares(job[q], n, s)

Answers(p, f, v, j, n, s) ==
    LET e == [disk EXCEPT ![f] = v] IN
    /\ f # ProfileFile(n) /\ Cares(job[p], n, s) => Cared(p, j, n, s) \/ n \in Range(ListIn(e, s))
    /\ f = SubFile(s) /\ Stored(disk, n, s) /\ n \in Range(ListIn(disk, s))
         => Cared(p, j, n, s) \/ n \in Range(ListIn(e, s))
    /\ j.put # <<>> /\ j.put[1] = ProfileFile(n) /\ j.put[2].sub = s
         /\ {ProfileFile(n), SubFile(s)} \cap (j.raced \ {f}) = {}
         => f = ProfileFile(n) /\ (Cared(p, j, n, s) \/ n \in Range(ListIn(disk, s)))
    /\ f = ProfileFile(n) /\ Loaded(v) /\ v.sub = s
         => Cared(p, j, n, s) \/ n \in Range(ListIn(disk, s))

LEMMA ChangeShape ==
    ASSUME NEW p \in Procs, NEW f, NEW v, NEW j \in Jobs, Change(p, f, v, j)
    PROVE  \E k : /\ k \in Jobs \cup {Idle} /\ disk' = [disk EXCEPT ![f] = v]
                  /\ job' = Overtaken(job, p, f, k) /\ (Gone(j) => k = Idle)
                  /\ ~Gone(j) => k \in Jobs /\ Alike(j, k) /\ k.raced = j.raced \ {f}
<1>1. PICK R : R = j.raced \ {f}
  OBVIOUS
<1>2. R \in SUBSET Files
  BY <1>1 DEF Jobs
<1>3. PICK l : l = [j EXCEPT !.raced = R]
  OBVIOUS
<1>4. l \in Jobs /\ Alike(j, l) /\ l.raced = R
  BY <1>2, <1>3, Raced
<1>5. PICK k : k = Ended(l)
  OBVIOUS
<1>6. /\ k \in Jobs \cup {Idle}
      /\ Gone(j) => k = Idle
      /\ ~Gone(j) => k \in Jobs /\ Alike(j, k) /\ k.raced = j.raced \ {f}
  <2>1. l.at = j.at /\ l.put = j.put
    BY <1>4 DEF Alike
  <2>2. k = IF Gone(j) THEN Idle ELSE l
    BY <2>1, <1>5 DEF Ended, Gone
  <2>3. CASE Gone(j)
    BY <2>2, <2>3, Zenon
  <2>4. CASE ~Gone(j)
    <3>1. k = l
      BY <2>2, <2>4, Zenon
    <3> QED BY <3>1, <2>4, <1>1, <1>4, Zenon
  <2> QED BY <2>3, <2>4, Zenon
<1>7. disk' = [disk EXCEPT ![f] = v] /\ job' = Overtaken(job, p, f, k)
  <2>1. [j EXCEPT !.raced = @ \ {f}] = l
    BY <1>1, <1>3
  <2> QED BY <2>1, <1>5 DEF Change, Overtaken
<1> QED BY <1>6, <1>7

LEMMA ChangeKeeps ==
    ASSUME Inv, NEW p \in Procs, job[p] # Idle, NEW f \in Files, NEW v, NEW j, Change(p, f, v, j),
           running' = running, issued' = issued, pointer' = pointer,
           told' \in [Names -> Words],
           v \in {Absent, Torn} \cup Holds(f), v = Torn => j.put # <<>>,
           j \in Jobs, ~Gone(j) => Fit(j), j.id = job[p].id, j.raced = job[p].raced,
           ~Gone(j) => Knows([disk EXCEPT ![f] = v], j, j.raced \ {f}),
           \A n \in Names, s \in Subs : Answers(p, f, v, j, n, s)
    PROVE  /\ Typing' /\ Informed' /\ Accounted(disk, job, spoilt)'
           /\ f # StatusFile /\ told' = told /\ ~Writes(job[p]) /\ ~Carries(j)
                => Truthful(disk, job, spoilt, told)'
<1> USE DEF Inv
<1>1. job \in [Procs -> Jobs \cup {Idle}] /\ disk \in Disks
  BY DEF Typing
<1>2. j \in Jobs
  OBVIOUS
<1>3. PICK k : /\ k \in Jobs \cup {Idle} /\ disk' = [disk EXCEPT ![f] = v]
               /\ job' = Overtaken(job, p, f, k) /\ (Gone(j) => k = Idle)
               /\ ~Gone(j) => k \in Jobs /\ Alike(j, k) /\ k.raced = j.raced \ {f}
  BY <1>2, ChangeShape
<1>4. /\ k \in Jobs \cup {Idle}
      /\ Gone(j) => k = Idle
      /\ ~Gone(j) => k \in Jobs /\ Alike(j, k) /\ k.raced = j.raced \ {f}
  BY <1>3
<1>5. disk' = [disk EXCEPT ![f] = v] /\ job' = Overtaken(job, p, f, k)
  BY <1>3
<1>6. /\ job' \in [Procs -> Jobs \cup {Idle}] /\ job'[p] = k
      /\ \A q \in Procs \ {p} :
           \/ job[q] = Idle /\ job'[q] = Idle
           \/ /\ job[q] \in Jobs /\ job'[q] \in Jobs /\ Alike(job[q], job'[q])
              /\ job'[q].raced = job[q].raced \cup {f}
  BY <1>1, <1>4, <1>5, Others
<1>7. ~Gone(j) => Fit(k) /\ k.id = j.id /\ Knows(disk', k, k.raced)
  BY <1>2, <1>4, <1>5, AlikeFit, AlikeKnows DEF Alike
<1>8. disk' \in Disks
  <2>1. v \in {Absent, Torn} \cup Values
    BY DEF Holds, Values
  <2> QED BY <2>1, <1>1, <1>5 DEF Disks
<1>9. spoilt \subseteq spoilt' /\ spoilt' \subseteq Files
  <2> DEFINE w == IF v = Torn THEN j.put[2] ELSE v
  <2>1. w \in {Absent} \cup Values
    <3>1. j.put # <<>> => j.put[2] \in Values
      BY <1>2 DEF Jobs
    <3> QED BY <3>1 DEF Holds, Values
  <2>2. \A x \in {Absent, Torn} \cup Values : Owner(x) \subseteq Files
    BY FileKinds DEF Owner, Values, Profs, Lines, Flags, Absent, Torn
  <2>3. disk[f] \in {Absent, Torn} \cup Values
    BY <1>1 DEF Disks
  <2>4. Spoils(f, w) \subseteq Files
    BY <2>1, <2>2, <2>3 DEF Spoils
  <2>5. spoilt' = spoilt \/ spoilt' = spoilt \cup Spoils(f, w)
    BY DEF Change
  <2> QED BY <2>4, <2>5 DEF Typing
<1>10. Typing'
  <2>1. ASSUME NEW q \in Procs \ {p}, job'[q] # Idle
        PROVE  Fit(job'[q]) /\ job'[q].id \in 1..issued
    <3>1. job[q] \in Jobs /\ job'[q] \in Jobs /\ Alike(job[q], job'[q]) /\ job[q] # Idle
      BY <2>1, <1>6, JobIsNotIdle
    <3>2. Fit(job[q]) /\ job[q].id \in 1..issued
      BY <3>1 DEF Typing
    <3> QED BY <3>1, <3>2, AlikeFit DEF Alike
  <2>2. job'[p] # Idle => Fit(job'[p]) /\ job'[p].id \in 1..issued
    BY <1>4, <1>6, <1>7 DEF Typing
  <2> QED BY <2>1, <2>2, <1>6, <1>8, <1>9 DEF Typing
<1>11. Informed'
  <2>1. ASSUME NEW q \in Procs \ {p}, job'[q] # Idle
        PROVE  Knows(disk', job'[q], job'[q].raced)
    <3>1. /\ job[q] \in Jobs /\ job'[q] \in Jobs /\ Alike(job[q], job'[q]) /\ job[q] # Idle
          /\ job'[q].raced = job[q].raced \cup {f}
      BY <2>1, <1>6, JobIsNotIdle
    <3>2. Fit(job[q]) /\ Knows(disk, job[q], job[q].raced)
      BY <3>1 DEF Typing, Informed
    <3>3. Knows(disk', job[q], job[q].raced \cup {f})
      BY <3>2, <1>1, <1>5, KnowsStill
    <3> QED BY <3>1, <3>3, AlikeKnows
  <2>2. job'[p] # Idle => Knows(disk', job'[p], job'[p].raced)
    BY <1>4, <1>6, <1>7
  <2> QED BY <2>1, <2>2 DEF Informed
<1>12. Accounted(disk, job, spoilt)'
  <2>1. \A n, s : Cares(k, n, s) <=> ~Gone(j) /\ Cares(j, n, s)
    BY <1>2, <1>4, AlikeRest, NothingOfIdle
  <2>2. \A n, s : \A q \in Procs \ {p} : Cares(job[q], n, s) => Cares(job'[q], n, s)
    BY <1>6, AlikeRest, NothingOfIdle
  <2>3. ASSUME NEW n \in Names, NEW s \in Subs, Cared(p, j, n, s)
        PROVE  Evident(disk', job', spoilt', n, s)
    BY <2>1, <2>2, <2>3, <1>6 DEF Cared, Evident
  <2>4. ASSUME NEW n \in Names, NEW s \in Subs, f = ProfileFile(n), n \in Range(ListIn(disk, s))
        PROVE  Evident(disk', job', spoilt', n, s)
    <3>1. disk'[SubFile(s)] = disk[SubFile(s)]
      BY <2>4, <1>1, <1>5, FileKinds DEF Disks
    <3> QED BY <2>4, <3>1 DEF Evident, ListIn
  <2>5. ASSUME NEW n \in Names, NEW s \in Subs, Pending(k, n, s)
        PROVE  Evident(disk', job', spoilt', n, s)
    <3>1. ~Gone(j) /\ k \in Jobs /\ Alike(j, k) /\ k.raced = j.raced \ {f}
      BY <2>5, <1>4, NothingOfIdle
    <3>2. j.put # <<>> /\ j.put[1] = ProfileFile(n) /\ j.put[2].sub = s
          /\ {ProfileFile(n), SubFile(s)} \cap (j.raced \ {f}) = {}
      BY <3>1, <2>5 DEF Pending, Alike
    <3>3. f = ProfileFile(n) /\ (Cared(p, j, n, s) \/ n \in Range(ListIn(disk, s)))
      BY <3>2 DEF Answers
    <3> QED BY <3>3, <2>3, <2>4
  <2>6. ASSUME NEW n \in Names, NEW s \in Subs, f = ProfileFile(n), Loaded(v), v.sub = s
        PROVE  Evident(disk', job', spoilt', n, s)
    BY <2>6, <2>3, <2>4 DEF Answers
  <2>7. \A n \in Names, s \in Subs :
           /\ f # ProfileFile(n) /\ Cares(job[p], n, s) => Evident(disk', job', spoilt', n, s)
           /\ f = SubFile(s) /\ Stored(disk, n, s) /\ n \in Range(ListIn(disk, s))
                => Evident(disk', job', spoilt', n, s)
    BY <2>3, <1>5 DEF Answers, Evident
  <2>8. Explained(disk, job, spoilt', p, f, v, k)
    BY <2>5, <2>6, <2>7, <1>5 DEF Explained
  <2>9. Accounted(disk', job', spoilt')
    BY <2>8, <1>1, <1>4, <1>5, <1>9, AccountedChange, Zenon
  <2> QED BY <2>9
<1>13. ASSUME f # StatusFile, told' = told, ~Writes(job[p]), ~Carries(j)
       PROVE  Truthful(disk, job, spoilt, told)'
  <2>1. \A q \in Procs \ {p} : Undisturbed(job, job', q)
    BY <1>1, <1>4, <1>5, OthersUndisturbed
  <2>2. ~Carries(job'[p])
    BY <1>13, <1>2, <1>4, <1>6, AlikeRest, NothingOfIdle
  <2>3. disk'[StatusFile] = disk[StatusFile]
    BY <1>13, <1>1, <1>5, FileKinds DEF Disks
  <2>4. Truthful(disk', job', spoilt', told)
    BY <1>13, <2>1, <2>2, <2>3, <1>9, TrueAside
  <2> QED BY <2>4, <1>13
<1> QED BY <1>10, <1>11, <1>12, <1>13

(***************************************************************************)
(* The steps, one lemma for each action.                                   *)
(***************************************************************************)
LEMMA Here ==
    ASSUME Inv, NEW p \in Procs, job[p] # Idle
    PROVE  /\ job[p] \in Jobs /\ Apt(job[p]) /\ Half(job[p]) /\ Knows(disk, job[p], job[p].raced)
           /\ disk \in Disks /\ job[p].id \in 1..issued /\ job[p].raced \in SUBSET Files
BY DEF Inv, Typing, Informed, Fit, Jobs

LEMMA AtIsHere ==
    ASSUME NEW p \in Procs, NEW op, NEW at, At(p, op, at), op \in NameOps \cup SubOps
    PROVE  job[p] # Idle /\ job[p].op = op /\ job[p].at = at /\ job[p].put = <<>>
BY DEF At, Idle, NameOps, SubOps

LEMMA LeaveKeeps ==
    ASSUME Inv, NEW p \in Procs, job[p] # Idle, job[p].put = <<>>, Leave(p),
           running' = running, issued' = issued, told' = told,
           pointer' \in [{"active", "autoswitch"} -> Names \cup {NoName}],
           \A n \in Names, s \in Subs : ~Cares(job[p], n, s)
    PROVE  Inv'
<1>1. PICK j : j = [job[p] EXCEPT !.at = "end"]
  OBVIOUS
<1>2. job[p] \in Jobs
  BY Here
<1>3. j \in Jobs
  BY <1>1, <1>2, Zenon DEF Jobs, Places
<1>4. j.at = "end" /\ j.put = <<>> /\ j.id = job[p].id /\ j.raced = job[p].raced
  BY <1>1, <1>2 DEF Jobs
<1>5. Read(p, {}, j)
  BY <1>1 DEF Leave
<1> QED BY <1>3, <1>4, <1>5, ReadKeeps DEF Gone

LEMMA NamesCareNot ==
    ASSUME NEW j, j.op \in NameOps PROVE \A n, s : ~Cares(j, n, s)
BY DEF NameOps, Cares, Made, Awaited

(* What most steps leave alone of the job i.                               *)
Kept(i, j) ==
    /\ j.op = i.op /\ j.m = i.m /\ j.s = i.s /\ j.t = i.t /\ j.g = i.g /\ j.id = i.id
    /\ j.put = i.put /\ j.raced = i.raced

LEMMA QuietRead ==
    ASSUME Inv, NEW p \in Procs, job[p] # Idle, job[p].put = <<>>, NEW fs, NEW j \in Jobs,
           Read(p, fs, j), UNCHANGED quiet, Kept(job[p], j),
           j.at # "end" => Apt(j) /\ Knows(disk, j, j.raced \ fs),
           \A n \in Names, s \in Subs : Cares(job[p], n, s) => j.at # "end" /\ Cares(j, n, s),
           j.at # "end" /\ Carries(j) /\ StatusFile \notin j.raced \ fs =>
               \/ StatusFile \in spoilt \/ \E q \in Procs \ {p} : Writes(job[q])
               \/ Matches(j.got.map, Saying(j, told))
    PROVE  Inv'
<1>1. /\ running' = running /\ issued' = issued /\ told' = told
      /\ pointer' \in [{"active", "autoswitch"} -> Names \cup {NoName}]
  BY DEF quiet, Inv, Typing
<1>2. j.put = <<>> /\ j.id = job[p].id /\ j.raced = job[p].raced
  BY DEF Kept
<1>3. Gone(j) <=> j.at = "end"
  BY <1>2 DEF Gone
<1>4. ~Gone(j) => Fit(j)
  BY <1>2, <1>3 DEF Fit, Half
<1> QED BY <1>1, <1>2, <1>3, <1>4, ReadKeeps

LEMMA QuietLeave ==
    ASSUME Inv, NEW p \in Procs, job[p] # Idle, job[p].put = <<>>, Leave(p), UNCHANGED quiet,
           \A n \in Names, s \in Subs : ~Cares(job[p], n, s)
    PROVE  Inv'
<1>1. /\ running' = running /\ issued' = issued /\ told' = told
      /\ pointer' \in [{"active", "autoswitch"} -> Names \cup {NoName}]
  BY DEF quiet, Inv, Typing
<1> QED BY <1>1, LeaveKeeps

(* What is stored in the file of a profile.                                *)
LEMMA StoredProfile ==
    ASSUME NEW d \in Disks, NEW n \in Names, Loaded(d[ProfileFile(n)])
    PROVE  d[ProfileFile(n)] \in Profs
BY FileKinds DEF Disks, Holds, Loaded, Absent, Torn

LEMMA StoredList ==
    ASSUME NEW d \in Disks, NEW s \in Subs PROVE ListIn(d, s) \in Seq(Names)
<1>1. d[SubFile(s)] \in {Absent, Torn} \cup Lines
  BY FileKinds DEF Disks, Holds
<1> QED BY <1>1 DEF ListIn, Loaded, Lines, Absent, Torn

LEMMA StoredFlags ==
    ASSUME NEW d \in Disks PROVE EntriesIn(d) \in [Names -> {"none", "on", "off"}]
<1>1. d[StatusFile] \in {Absent, Torn} \cup Flags
  BY FileKinds DEF Disks, Holds
<1> QED BY <1>1 DEF EntriesIn, NoEntries, Loaded, Flags, Absent, Torn

LEMMA AddLoadsKeeps ==
    ASSUME Inv, NEW p \in Procs, AddLoads(p) PROVE Inv'
<1>1. job[p] # Idle /\ job[p].op = "add" /\ job[p].at = "start" /\ job[p].put = <<>>
  BY AtIsHere DEF AddLoads, NameOps
<1>2. job[p] \in Jobs /\ Apt(job[p]) /\ disk \in Disks /\ job[p].id \in 1..Issues
  BY <1>1, Here DEF Jobs
<1>3. PICK f : f = ProfileFile(job[p].n)
  OBVIOUS
<1>4. job[p].n \in Names
  BY <1>1, <1>2 DEF Apt, NameOps
<1>5. PICK g : g = IF Loads(f) THEN disk[f].groups ELSE {}
  OBVIOUS
<1>6. g \in SUBSET Subs
  BY <1>2, <1>3, <1>4, <1>5, StoredProfile DEF Loads, Loaded, Profs
<1>7. PICK w : w = Profile(NoSub, g, job[p].id)
  OBVIOUS
<1>8. w \in Profs /\ w.sub = NoSub
  BY <1>2, <1>6, <1>7 DEF Profs, Profile
<1>9. PICK j : j = [job[p] EXCEPT !.at = "save", !.got = w]
  OBVIOUS
<1>10. j \in Jobs /\ Kept(job[p], j) /\ j.at = "save" /\ j.got = w /\ j.n = job[p].n
  <2>1. j \in Jobs
    BY <1>2, <1>8, <1>9, Zenon DEF Jobs, Places
  <2> QED BY <1>2, <1>9, <2>1 DEF Jobs, Kept
<1>11. Read(p, {f}, j) /\ UNCHANGED quiet
  BY <1>3, <1>5, <1>7, <1>9 DEF AddLoads
<1>12. j.op = "add" /\ j.put = <<>>
  BY <1>1, <1>10 DEF Kept
<1>13. Apt(j)
  BY <1>4, <1>8, <1>10, <1>12 DEF Apt, SubOps, NameOps
<1>14. Knows(disk, j, j.raced \ {f})
  BY <1>12 DEF Knows, KnowsHalf, KnowsOne, KnowsMv, KnowsList, KnowsSubMv
<1>15. ~Carries(j) /\ \A n, s : ~Cares(job[p], n, s)
  BY <1>1, <1>12, NamesCareNot DEF Carries, NameOps
<1> QED BY <1>1, <1>10, <1>11, <1>13, <1>14, <1>15, QuietRead

LEMMA EditLoadsKeeps ==
    ASSUME Inv, NEW p \in Procs, EditLoads(p) PROVE Inv'
<1>1. job[p] # Idle /\ job[p].op \in {"edit", "regroup"} /\ job[p].put = <<>>
  BY AtIsHere DEF EditLoads, NameOps
<1>2. job[p] \in Jobs /\ Apt(job[p]) /\ disk \in Disks /\ job[p].g \in SUBSET Subs
  BY <1>1, Here DEF Jobs
<1>3. PICK f : f = ProfileFile(job[p].n)
  OBVIOUS
<1>4. job[p].n \in Names /\ \A n, s : ~Cares(job[p], n, s)
  BY <1>1, <1>2, NamesCareNot DEF Apt, NameOps
<1>5. CASE Leave(p)
  BY <1>1, <1>4, <1>5, QuietLeave DEF EditLoads
<1>6. CASE ~Leave(p)
  <2>1. PICK w : w = IF job[p].op = "edit" THEN disk[f] ELSE [disk[f] EXCEPT !.groups = job[p].g]
    OBVIOUS
  <2>2. PICK j : j = [job[p] EXCEPT !.at = "save", !.got = w]
    OBVIOUS
  <2>3. Loaded(disk[f]) /\ Read(p, {f} \cup Owner(disk[f]), j) /\ UNCHANGED quiet
    BY <1>3, <1>6, <2>1, <2>2 DEF EditLoads, Loads, Loaded
  <2>4. disk[f] \in Profs
    BY <1>2, <1>3, <1>4, <2>3, StoredProfile
  <2>5. w \in Profs /\ w.sub = disk[f].sub /\ w.own = disk[f].own
    BY <1>2, <2>1, <2>4 DEF Profs
  <2>6. j \in Jobs /\ Kept(job[p], j) /\ j.at = "save" /\ j.got = w /\ j.n = job[p].n
    <3>1. j \in Jobs
      BY <1>2, <2>2, <2>5, Zenon DEF Jobs, Places
    <3> QED BY <1>2, <2>2, <3>1 DEF Jobs, Kept
  <2>7. j.op \in {"edit", "regroup"} /\ j.put = <<>>
    BY <1>1, <2>6 DEF Kept
  <2>8. Apt(j)
    BY <1>4, <2>5, <2>6, <2>7 DEF Apt, SubOps, NameOps
  <2>9. Knows(disk, j, j.raced \ ({f} \cup Owner(disk[f])))
    <3>1. KnowsOne(disk, j, j.raced \ ({f} \cup Owner(disk[f])))
      BY <1>3, <2>3, <2>5, <2>6, <2>7 DEF KnowsOne, Same
    <3> QED BY <3>1, <2>7 DEF Knows, KnowsHalf, KnowsMv, KnowsList, KnowsSubMv
  <2>10. ~Carries(j)
    BY <2>7 DEF Carries
  <2> QED BY <1>1, <1>4, <2>3, <2>6, <2>8, <2>9, <2>10, QuietRead
<1> QED BY <1>5, <1>6

LEMMA NameAt ==
    ASSUME Inv, NEW p \in Procs, NEW op \in NameOps, NEW at, At(p, op, at)
    PROVE  /\ job[p] # Idle /\ job[p].op = op /\ job[p].at = at /\ job[p].put = <<>>
           /\ job[p] \in Jobs /\ Apt(job[p]) /\ disk \in Disks /\ job[p].n \in Names
           /\ Knows(disk, job[p], job[p].raced) /\ \A n, s : ~Cares(job[p], n, s)
<1>1. job[p] # Idle /\ job[p].op = op /\ job[p].at = at /\ job[p].put = <<>>
  BY AtIsHere
<1>2. job[p] \in Jobs /\ Apt(job[p]) /\ disk \in Disks /\ Knows(disk, job[p], job[p].raced)
  BY <1>1, Here
<1> QED BY <1>1, <1>2, NamesCareNot DEF Apt

LEMMA VacantNames ==
    ASSUME NEW b \in Bases, NEW n \in Vacant(b)
    PROVE  n \in Names /\ ~Loads(ProfileFile(n))
<1> DEFINE N(c)    == IF c = 0 THEN Plain(b) ELSE FileCopy(b, c)
           Free(c) == ~Loads(ProfileFile(N(c)))
<1>1. PICK c \in 0..Copies : Free(c) /\ n = N(c)
  BY Zenon DEF Vacant
<1>2. N(c) \in Names
  <2>1. CASE c = 0
    BY <2>1, NameKinds
  <2>2. CASE c # 0
    <3>1. c \in 1..Copies
      BY <1>1, <2>2, ProfilesAssumption
    <3> QED BY <3>1, <2>2, NameKinds
  <2> QED BY <2>1, <2>2
<1> QED BY <1>1, <1>2

LEMMA ImportPicksKeeps ==
    ASSUME Inv, NEW p \in Procs, ImportPicks(p) PROVE Inv'
<1>1. /\ job[p] # Idle /\ job[p].op = "import" /\ job[p].put = <<>> /\ job[p] \in Jobs
      /\ disk \in Disks /\ job[p].n \in Names /\ \A n, s : ~Cares(job[p], n, s)
  BY NameAt DEF ImportPicks, NameOps
<1>2. job[p].id \in 1..Issues /\ job[p].g \in SUBSET Subs /\ job[p].n[1] \in Bases
  BY <1>1, NameKinds DEF Jobs
<1>3. PICK w : w = Profile(NoSub, job[p].g, job[p].id)
  OBVIOUS
<1>4. w \in Profs /\ w.sub = NoSub
  BY <1>2, <1>3 DEF Profs, Profile
<1>5. PICK n \in Vacant(job[p].n[1]) :
          Read(p, {ProfileFile(n)}, [job[p] EXCEPT !.at = "save", !.n = n, !.got = w])
  BY <1>3 DEF ImportPicks
<1>6. n \in Names /\ ~Loads(ProfileFile(n))
  BY <1>2, VacantNames
<1>7. PICK j : j = [job[p] EXCEPT !.at = "save", !.n = n, !.got = w]
  OBVIOUS
<1>8. j \in Jobs /\ Kept(job[p], j) /\ j.at = "save" /\ j.got = w /\ j.n = n
  <2>1. j \in Jobs
    BY <1>1, <1>4, <1>6, <1>7, Zenon DEF Jobs, Places
  <2> QED BY <1>1, <1>7, <2>1 DEF Jobs, Kept
<1>9. j.op = "import" /\ j.put = <<>>
  BY <1>1, <1>8 DEF Kept
<1>10. Apt(j)
  BY <1>4, <1>6, <1>8, <1>9 DEF Apt, SubOps, NameOps
<1>11. Knows(disk, j, j.raced \ {ProfileFile(n)})
  <2>1. KnowsOne(disk, j, j.raced \ {ProfileFile(n)})
    BY <1>6, <1>8, <1>9 DEF KnowsOne, Loads, Loaded
  <2> QED BY <2>1, <1>9 DEF Knows, KnowsHalf, KnowsMv, KnowsList, KnowsSubMv
<1>12. ~Carries(j) /\ UNCHANGED quiet /\ Read(p, {ProfileFile(n)}, j)
  BY <1>5, <1>7, <1>9 DEF Carries, ImportPicks
<1> QED BY <1>1, <1>8, <1>10, <1>11, <1>12, QuietRead

LEMMA RmFiltersKeeps ==
    ASSUME Inv, NEW p \in Procs, RmFilters(p) PROVE Inv'
<1>1. /\ job[p] # Idle /\ job[p].op = "rm" /\ job[p].put = <<>> /\ job[p] \in Jobs
      /\ job[p].n \in Names /\ \A n, s : ~Cares(job[p], n, s)
  BY NameAt DEF RmFilters, NameOps
<1>2. CASE Leave(p)
  BY <1>1, <1>2, QuietLeave DEF RmFilters
<1>3. CASE ~Leave(p)
  <2>1. PICK j : j = [job[p] EXCEPT !.at = "remove"]
    OBVIOUS
  <2>2. j \in Jobs /\ Kept(job[p], j) /\ j.at = "remove" /\ j.n = job[p].n
    <3>1. j \in Jobs
      BY <1>1, <2>1, Zenon DEF Jobs, Places
    <3> QED BY <1>1, <2>1, <3>1 DEF Jobs, Kept
  <2>3. j.op = "rm" /\ j.put = <<>>
    BY <1>1, <2>2 DEF Kept
  <2>4. Apt(j) /\ Knows(disk, j, j.raced \ {ProfileFile(job[p].n)}) /\ ~Carries(j)
    BY <1>1, <2>2, <2>3 DEF Apt, SubOps, NameOps, Carries, Knows, KnowsHalf, KnowsOne, KnowsMv,
                            KnowsList, KnowsSubMv
  <2>5. Read(p, {ProfileFile(job[p].n)}, j) /\ UNCHANGED quiet
    BY <1>3, <2>1 DEF RmFilters
  <2> QED BY <1>1, <2>2, <2>4, <2>5, QuietRead
<1> QED BY <1>2, <1>3

LEMMA ChecksKeeps ==
    ASSUME Inv, NEW p \in Procs, EnableChecks(p) \/ DisableChecks(p) PROVE Inv'
<1>1. /\ job[p] # Idle /\ job[p].op \in {"enable", "disable"} /\ job[p].put = <<>>
      /\ job[p] \in Jobs /\ job[p].n \in Names /\ \A n, s : ~Cares(job[p], n, s)
  BY NameAt DEF EnableChecks, DisableChecks, NameOps
<1>2. CASE Leave(p)
  BY <1>1, <1>2, QuietLeave DEF EnableChecks, DisableChecks
<1>3. CASE ~Leave(p)
  <2>1. PICK j : j = [job[p] EXCEPT !.at = "load"]
    OBVIOUS
  <2>2. j \in Jobs /\ Kept(job[p], j) /\ j.at = "load" /\ j.n = job[p].n
    <3>1. j \in Jobs
      BY <1>1, <2>1, Zenon DEF Jobs, Places
    <3> QED BY <1>1, <2>1, <3>1 DEF Jobs, Kept
  <2>3. j.op \in {"enable", "disable"} /\ j.put = <<>>
    BY <1>1, <2>2 DEF Kept
  <2>4. Apt(j) /\ Knows(disk, j, j.raced \ {}) /\ ~Carries(j)
    BY <1>1, <2>2, <2>3 DEF Apt, SubOps, NameOps, Carries, Knows, KnowsHalf, KnowsOne, KnowsMv,
                            KnowsList, KnowsSubMv
  <2>5. Read(p, {}, j) /\ UNCHANGED quiet
    BY <1>3, <2>1 DEF EnableChecks, DisableChecks
  <2> QED BY <1>1, <2>2, <2>4, <2>5, QuietRead
<1> QED BY <1>2, <1>3

(* What a command that loads status.json can say of it.                    *)
LEMMA LoadedStatus ==
    ASSUME Inv, NEW p \in Procs, job[p].put = <<>>
    PROVE  /\ Entries \in [Names -> {"none", "on", "off"}] /\ told \in [Names -> Words]
           /\ \/ StatusFile \in spoilt \/ \E q \in Procs \ {p} : Writes(job[q])
              \/ Matches(Entries, told)
<1>1. Entries = EntriesIn(disk)
  BY DEF Entries, EntriesIn, Loads, Loaded
<1>2. EntriesIn(disk) \in [Names -> {"none", "on", "off"}]
  BY StoredFlags DEF Inv, Typing
<1>3. ~Writes(job[p])
  BY DEF Writes
<1>4. \/ StatusFile \in spoilt \/ \E q \in Procs \ {p} : Writes(job[q])
      \/ Matches(EntriesIn(disk), told)
  BY <1>3 DEF Inv, Truthful
<1> QED BY <1>1, <1>2, <1>4 DEF Inv, Typing

LEMMA FlagLoadsKeeps ==
    ASSUME Inv, NEW p \in Procs, FlagLoads(p) PROVE Inv'
<1>1. /\ job[p] # Idle /\ job[p].op \in {"enable", "disable"} /\ job[p].put = <<>>
      /\ job[p] \in Jobs /\ job[p].n \in Names /\ \A n, s : ~Cares(job[p], n, s)
  BY NameAt DEF FlagLoads, NameOps
<1>2. PICK map : map = [Entries EXCEPT ![job[p].n] = Flag(job[p].op)]
  OBVIOUS
<1>3. Flag(job[p].op) \in {"on", "off"}
  BY DEF Flag
<1>4. map \in [Names -> {"none", "on", "off"}]
  BY <1>1, <1>2, <1>3, LoadedStatus
<1>5. PICK w : w = Statuses(map)
  OBVIOUS
<1>6. w \in Flags /\ w.map = map
  BY <1>4, <1>5 DEF Flags, Statuses
<1>7. PICK j : j = [job[p] EXCEPT !.at = "save", !.got = w]
  OBVIOUS
<1>8. j \in Jobs /\ Kept(job[p], j) /\ j.at = "save" /\ j.got = w /\ j.n = job[p].n
  <2>1. j \in Jobs
    BY <1>1, <1>6, <1>7, Zenon DEF Jobs, Places
  <2> QED BY <1>1, <1>7, <2>1 DEF Jobs, Kept
<1>9. j.op = job[p].op /\ j.put = <<>>
  BY <1>1, <1>8 DEF Kept
<1>10. Apt(j) /\ Knows(disk, j, j.raced \ {StatusFile})
  BY <1>1, <1>6, <1>8, <1>9 DEF Apt, SubOps, NameOps, Knows, KnowsHalf, KnowsOne, KnowsMv,
                                KnowsList, KnowsSubMv
<1>11. Matches(Entries, told) => Matches(j.got.map, Saying(j, told))
  <2>1. Saying(j, told) = [told EXCEPT ![job[p].n] = Flag(job[p].op)]
    BY <1>1, <1>8, <1>9 DEF Saying
  <2>2. Entries \in [Names -> {"none", "on", "off"}] /\ told \in [Names -> Words]
    BY <1>1, LoadedStatus
  <2> QED BY <1>2, <1>3, <1>6, <1>8, <2>1, <2>2 DEF Matches
<1>12. Read(p, {StatusFile}, j) /\ UNCHANGED quiet
  BY <1>2, <1>5, <1>7 DEF FlagLoads, KeptEntries
<1>13. \/ StatusFile \in spoilt \/ \E q \in Procs \ {p} : Writes(job[q])
       \/ Matches(j.got.map, Saying(j, told))
  BY <1>1, <1>11, LoadedStatus
<1> QED BY <1>1, <1>8, <1>10, <1>12, <1>13, QuietRead

LEMMA MvChecksKeeps ==
    ASSUME Inv, NEW p \in Procs, MvChecks(p) PROVE Inv'
<1>1. /\ job[p] # Idle /\ job[p].op = "mv" /\ job[p].put = <<>> /\ job[p] \in Jobs
      /\ Apt(job[p]) /\ \A n, s : ~Cares(job[p], n, s)
  BY NameAt DEF MvChecks, NameOps
<1>2. CASE Leave(p)
  BY <1>1, <1>2, QuietLeave DEF MvChecks
<1>3. CASE ~Leave(p)
  <2>1. PICK j : j = [job[p] EXCEPT !.at = "load"]
    OBVIOUS
  <2>2. j \in Jobs /\ Kept(job[p], j) /\ j.at = "load" /\ j.n = job[p].n
    <3>1. j \in Jobs
      BY <1>1, <2>1, Zenon DEF Jobs, Places
    <3> QED BY <1>1, <2>1, <3>1 DEF Jobs, Kept
  <2>3. j.op = "mv" /\ j.put = <<>> /\ j.m = job[p].m
    BY <1>1, <2>2 DEF Kept
  <2>4. Read(p, {ProfileFile(job[p].n)}, j) /\ UNCHANGED quiet /\ ~Managed(job[p].n)
    BY <1>3, <2>1 DEF MvChecks
  <2>5. Apt(j) /\ ~Carries(j)
    BY <1>1, <2>2, <2>3 DEF Apt, SubOps, NameOps, Carries
  <2>6. Knows(disk, j, j.raced \ {ProfileFile(job[p].n)})
    <3>1. KnowsMv(disk, j, j.raced \ {ProfileFile(job[p].n)})
      BY <2>2, <2>3, <2>4 DEF KnowsMv, Managed, Loads, Loaded
    <3> QED BY <3>1, <2>2, <2>3 DEF Knows, KnowsHalf, KnowsOne, KnowsList, KnowsSubMv
  <2> QED BY <1>1, <2>2, <2>4, <2>5, <2>6, QuietRead
<1> QED BY <1>2, <1>3

LEMMA MvLoadsKeeps ==
    ASSUME Inv, NEW p \in Procs, MvLoads(p) PROVE Inv'
<1>1. /\ job[p] # Idle /\ job[p].op = "mv" /\ job[p].at = "load" /\ job[p].put = <<>>
      /\ job[p] \in Jobs /\ job[p].n \in Names /\ disk \in Disks
      /\ Apt(job[p]) /\ \A n, s : ~Cares(job[p], n, s)
      /\ Knows(disk, job[p], job[p].raced)
  BY NameAt DEF MvLoads, NameOps
<1>2. CASE Leave(p)
  BY <1>1, <1>2, QuietLeave DEF MvLoads
<1>3. CASE ~Leave(p)
  <2>1. PICK w, old, new : w = disk[old] /\ old = ProfileFile(job[p].n) /\ new = ProfileFile(job[p].m)
    OBVIOUS
  <2>2. PICK j : j = [job[p] EXCEPT !.at = "save", !.got = w]
    OBVIOUS
  <2>3. Loaded(w) /\ disk[new] = Absent /\ Read(p, {new}, j) /\ UNCHANGED quiet
    <3>1. Loaded(w) /\ ~Exists(new) /\ Read(p, {new}, j) /\ UNCHANGED quiet
      BY <1>3, <2>1, <2>2 DEF MvLoads, Loads, Loaded
    <3>2. job[p].m \in Names
      BY <1>1 DEF Apt
    <3>3. disk[new] \in {Absent, Torn} \cup Profs
      BY <1>1, <2>1, <3>2, FileKinds DEF Disks, Holds
    <3> QED BY <3>1, <3>3 DEF Exists, Torn, Profs
  <2>4. w \in Profs /\ old # new
    <3>1. w \in Profs
      BY <1>1, <2>1, <2>3, StoredProfile
    <3> QED BY <3>1, <1>1, <2>1, FileKinds DEF Apt
  <2>5. j \in Jobs /\ Kept(job[p], j) /\ j.at = "save" /\ j.got = w /\ j.n = job[p].n
    <3>1. j \in Jobs
      BY <1>1, <2>2, <2>4, Zenon DEF Jobs, Places
    <3> QED BY <1>1, <2>2, <3>1 DEF Jobs, Kept
  <2>6. j.op = "mv" /\ j.put = <<>> /\ j.m = job[p].m /\ j.raced = job[p].raced
    BY <1>1, <2>5 DEF Kept
  <2>7. Apt(j) /\ ~Carries(j)
    BY <1>1, <2>4, <2>5, <2>6 DEF Apt, SubOps, NameOps, Carries
  <2>8. Knows(disk, j, j.raced \ {new})
    <3>1. old \notin job[p].raced => w.sub = NoSub
      BY <1>1, <2>1, <2>3 DEF Knows, KnowsMv
    <3>2. KnowsMv(disk, j, j.raced \ {new})
      BY <2>1, <2>3, <2>4, <2>5, <2>6, <3>1 DEF KnowsMv, Same
    <3> QED BY <3>2, <2>5, <2>6 DEF Knows, KnowsHalf, KnowsOne, KnowsList, KnowsSubMv
  <2> QED BY <1>1, <2>3, <2>5, <2>7, <2>8, QuietRead
<1> QED BY <1>2, <1>3

LEMMA MvLoadsStatusKeeps ==
    ASSUME Inv, NEW p \in Procs, MvLoadsStatus(p) PROVE Inv'
<1>1. /\ job[p] # Idle /\ job[p].op = "mv" /\ job[p].at = "status" /\ job[p].put = <<>>
      /\ job[p] \in Jobs /\ job[p].n \in Names /\ disk \in Disks
      /\ Apt(job[p]) /\ \A n, s : ~Cares(job[p], n, s)
  BY NameAt DEF MvLoadsStatus, NameOps
<1>2. job[p].m \in Names /\ job[p].m # job[p].n
  BY <1>1 DEF Apt
<1>3. Entries \in [Names -> {"none", "on", "off"}] /\ told \in [Names -> Words]
  BY <1>1, LoadedStatus
<1>4. PICK map : map = [Entries EXCEPT ![job[p].m] = Entries[job[p].n], ![job[p].n] = "none"]
  OBVIOUS
<1>5. map \in [Names -> {"none", "on", "off"}]
  BY <1>1, <1>2, <1>3, <1>4
<1>6. PICK w : w = Statuses(map)
  OBVIOUS
<1>7. w \in Flags /\ w.map = map
  BY <1>5, <1>6 DEF Flags, Statuses
<1>8. PICK j : j = [job[p] EXCEPT !.at = "flag", !.got = w]
  OBVIOUS
<1>9. j \in Jobs /\ Kept(job[p], j) /\ j.at = "flag" /\ j.got = w /\ j.n = job[p].n
  <2>1. j \in Jobs
    BY <1>1, <1>7, <1>8, Zenon DEF Jobs, Places
  <2> QED BY <1>1, <1>8, <2>1 DEF Jobs, Kept
<1>10. j.op = "mv" /\ j.put = <<>> /\ j.m = job[p].m
  BY <1>1, <1>9 DEF Kept
<1>11. Read(p, {StatusFile}, j) /\ UNCHANGED quiet
  BY <1>4, <1>6, <1>8 DEF MvLoadsStatus
<1>12. Apt(j) /\ Knows(disk, j, j.raced \ {StatusFile})
  BY <1>1, <1>7, <1>9, <1>10 DEF Apt, SubOps, NameOps, Knows, KnowsMv, KnowsHalf, KnowsOne,
                                KnowsList, KnowsSubMv
<1>13. Matches(Entries, told) => Matches(j.got.map, Saying(j, told))
  <2>1. Saying(j, told) = [told EXCEPT ![job[p].m] = told[job[p].n], ![job[p].n] = "on"]
    BY <1>9, <1>10 DEF Saying
  <2>2. j.got.map = [Entries EXCEPT ![job[p].m] = Entries[job[p].n], ![job[p].n] = "none"]
    BY <1>4, <1>7, <1>9
  <2> QED BY <1>1, <1>2, <1>3, <2>1, <2>2 DEF Matches
<1>14. \/ StatusFile \in spoilt \/ \E q \in Procs \ {p} : Writes(job[q])
       \/ Matches(j.got.map, Saying(j, told))
  BY <1>1, <1>13, LoadedStatus
<1> QED BY <1>1, <1>9, <1>11, <1>12, <1>14, QuietRead

(* Fewer words bind less.                                                  *)
LEMMA FewerWords ==
    ASSUME NEW td \in [Names -> Words], NEW td2 \in [Names -> Words], NEW map,
           \A n \in Names : td2[n] \in {td[n], "leftover"}
    PROVE  /\ Matches(map, td) => Matches(map, td2)
           /\ \A j \in Jobs : Carries(j) /\ (j.op = "mv" => j.n \in Names /\ j.m \in Names)
                 => (Matches(map, Saying(j, td)) => Matches(map, Saying(j, td2)))
<1>1. Matches(map, td) => Matches(map, td2)
  BY DEF Matches
<1>2. ASSUME NEW j \in Jobs, Carries(j), j.op = "mv" => j.n \in Names /\ j.m \in Names,
             Matches(map, Saying(j, td))
      PROVE  Matches(map, Saying(j, td2))
  <2>1. CASE j.op \in {"enable", "disable"}
    <3>1. /\ Saying(j, td) = [td EXCEPT ![j.n] = Flag(j.op)]
          /\ Saying(j, td2) = [td2 EXCEPT ![j.n] = Flag(j.op)]
      BY <2>1 DEF Saying
    <3>2. \A n \in Names : [td2 EXCEPT ![j.n] = Flag(j.op)][n]
                              \in {[td EXCEPT ![j.n] = Flag(j.op)][n], "leftover"}
      OBVIOUS
    <3> QED BY <1>2, <3>1, <3>2 DEF Matches
  <2>2. CASE j.op = "mv" /\ j.at = "flag"
    <3>1. /\ Saying(j, td) = [td EXCEPT ![j.m] = td[j.n], ![j.n] = "on"]
          /\ Saying(j, td2) = [td2 EXCEPT ![j.m] = td2[j.n], ![j.n] = "on"]
      BY <2>2 DEF Saying
    <3>2. \A n \in Names : [td2 EXCEPT ![j.m] = td2[j.n], ![j.n] = "on"][n]
                              \in {[td EXCEPT ![j.m] = td[j.n], ![j.n] = "on"][n], "leftover"}
      BY <1>2, <2>2
    <3> QED BY <1>2, <3>1, <3>2 DEF Matches
  <2>3. CASE j.op \notin {"enable", "disable"} /\ j.at # "flag"
    BY <1>1, <1>2, <2>3 DEF Saying
  <2> QED BY <1>2, <2>1, <2>2, <2>3 DEF Carries
<1> QED BY <1>1, <1>2

LEMMA MvFindsNoFlagKeeps ==
    ASSUME Inv, NEW p \in Procs, MvFindsNoFlag(p) PROVE Inv'
<1>1. /\ job[p] # Idle /\ job[p].op = "mv" /\ job[p].at = "status" /\ job[p].put = <<>>
      /\ job[p] \in Jobs /\ job[p].n \in Names /\ disk \in Disks
      /\ Apt(job[p]) /\ \A n, s : ~Cares(job[p], n, s)
  BY NameAt DEF MvFindsNoFlag, NameOps
<1>2. job[p].m \in Names /\ job[p].m # job[p].n
  BY <1>1 DEF Apt
<1>3. Entries \in [Names -> {"none", "on", "off"}] /\ told \in [Names -> Words]
  BY <1>1, LoadedStatus
<1>4. PICK k, R : R = job[p].raced \ {StatusFile} /\ k = [job[p] EXCEPT !.at = "pointers", !.raced = R]
  OBVIOUS
<1>5. /\ k \in Jobs /\ k.op = "mv" /\ k.at = "pointers" /\ k.put = <<>> /\ k.n = job[p].n
      /\ k.m = job[p].m /\ k.id = job[p].id /\ k.raced = R
  <2>1. R \in SUBSET Files
    BY <1>1, <1>4 DEF Jobs
  <2>2. PICK l : l = [job[p] EXCEPT !.at = "pointers"]
    OBVIOUS
  <2>3. l \in Jobs
    BY <1>1, <2>2, Zenon DEF Jobs, Places
  <2>4. k = [l EXCEPT !.raced = R] /\ l.op = "mv" /\ l.at = "pointers" /\ l.put = <<>>
        /\ l.n = job[p].n /\ l.m = job[p].m /\ l.id = job[p].id
    BY <1>1, <1>4, <2>2 DEF Jobs
  <2>5. k \in Jobs /\ Alike(l, k) /\ k.raced = R
    BY <2>1, <2>3, <2>4, Raced
  <2> QED BY <2>4, <2>5 DEF Alike
<1>6. Fit(k) /\ ~Carries(k) /\ Knows(disk, k, k.raced)
  <2>1. Apt(k) /\ ~Carries(k)
    BY <1>1, <1>5 DEF Apt, SubOps, NameOps, Carries
  <2>2. Knows(disk, k, k.raced)
    BY <1>5 DEF Knows, KnowsMv, KnowsHalf, KnowsOne, KnowsList, KnowsSubMv
  <2> QED BY <1>5, <2>1, <2>2 DEF Fit, Half
<1>7. /\ job' = [job EXCEPT ![p] = k] /\ disk' = disk /\ running' = running /\ issued' = issued
      /\ pointer' = pointer /\ spoilt \subseteq spoilt'
      /\ disk[StatusFile] = Torn => StatusFile \in spoilt'
      /\ spoilt' \subseteq spoilt \cup {StatusFile} /\ Entries[job[p].n] = "none"
  BY <1>4 DEF MvFindsNoFlag
<1>8. told' \in [Names -> Words]
  BY <1>1, <1>2, <1>3 DEF MvFindsNoFlag, Words
<1>9. Matches(Entries, told) => \A n \in Names : told'[n] \in {told[n], "leftover"}
  BY <1>1, <1>2, <1>3, <1>7 DEF MvFindsNoFlag, Matches, Words
<1>10. Typing' /\ Informed' /\ Accounted(disk, job, spoilt)'
  <2>1. /\ issued' \in 0..Issues /\ issued <= issued' /\ job[p].id \in 1..issued
        /\ pointer' \in [{"active", "autoswitch"} -> Names \cup {NoName}] /\ spoilt' \subseteq Files
    BY <1>1, <1>7, Here, FileKinds DEF Inv, Typing
  <2>2. k.id \in 1..issued'
    BY <1>5, <1>7, <2>1
  <2> QED BY <1>1, <1>5, <1>6, <1>7, <1>8, <2>1, <2>2, AsideRest
<1>11. Truthful(disk, job, spoilt, told)'
  <2>1. PICK ls, sp2, td2 : ls = job' /\ sp2 = spoilt' /\ td2 = told'
    OBVIOUS
  <2> SUFFICES Truthful(disk, ls, sp2, td2)
    BY <1>7, <2>1
  <2>2. job \in [Procs -> Jobs \cup {Idle}] /\ Truthful(disk, job, spoilt, told)
    BY DEF Inv, Typing
  <2>3. ls[p] = k /\ \A q \in Procs \ {p} : ls[q] = job[q]
    BY <1>7, <2>1, <2>2
  <2>4. ~Writes(k) /\ ~Writes(job[p])
    BY <1>1, <1>5 DEF Writes
  <2>5. CASE StatusFile \in sp2
    BY <2>5 DEF Truthful, Promise
  <2>6. CASE StatusFile \notin sp2 /\ \E q \in Procs \ {p} : Writes(job[q])
    <3>1. PICK q \in Procs \ {p} : Writes(job[q])
      BY <2>6
    <3>2. StatusFile \in job[q].raced
      <4>1. KnowsHalf(disk, job[q], job[q].raced)
        BY <3>1 DEF Inv, Informed, Knows, Writes
      <4>2. disk[StatusFile] # Torn
        BY <1>7, <2>1, <2>6
      <4> QED BY <3>1, <4>1, <4>2 DEF KnowsHalf, Writes
    <3>3. \A r \in Procs : Promise(ls, sp2, td2, r)
      BY <2>3, <3>1, <3>2 DEF Promise
    <3> QED BY <2>3, <3>1, <3>3 DEF Truthful
  <2>7. CASE StatusFile \notin sp2 /\ ~\E q \in Procs \ {p} : Writes(job[q])
    <3>1. Matches(Entries, told) /\ StatusFile \notin spoilt /\ Entries = EntriesIn(disk)
      BY <1>1, <1>7, <2>1, <2>7, LoadedStatus DEF Entries, EntriesIn, Loads, Loaded
    <3>2. td2 \in [Names -> Words] /\ \A n \in Names : td2[n] \in {told[n], "leftover"}
      BY <1>8, <1>9, <2>1, <3>1
    <3>3. Matches(EntriesIn(disk), td2)
      BY <1>3, <3>1, <3>2, FewerWords
    <3>4. ASSUME NEW q \in Procs \ {p}, Carries(ls[q]), StatusFile \notin ls[q].raced
          PROVE  Matches(ls[q].got.map, Saying(ls[q], td2))
      <4>1. job[q] = ls[q] /\ job[q] # Idle
        BY <2>3, <3>4, NothingOfIdle
      <4>2. Promise(job, spoilt, told, q)
        BY <2>2 DEF Truthful
      <4>3. Matches(job[q].got.map, Saying(job[q], told))
        BY <2>4, <2>7, <3>1, <3>4, <4>1, <4>2 DEF Promise
      <4>4. job[q] \in Jobs /\ (job[q].op = "mv" => job[q].n \in Names /\ job[q].m \in Names)
        BY <2>2, <4>1 DEF Inv, Typing, Fit, Apt, NameOps
      <4> QED BY <1>3, <3>2, <3>4, <4>1, <4>3, <4>4, FewerWords
    <3>5. \A q \in Procs : Promise(ls, sp2, td2, q)
      BY <1>6, <2>3, <3>4 DEF Promise
    <3> QED BY <3>3, <3>5 DEF Truthful
  <2> QED BY <2>5, <2>6, <2>7
<1> QED BY <1>10, <1>11 DEF Inv

LEMMA MvPointsKeeps ==
    ASSUME Inv, NEW p \in Procs, MvPoints(p) PROVE Inv'
<1>1. /\ job[p] # Idle /\ job[p].op = "mv" /\ job[p].put = <<>>
      /\ Apt(job[p]) /\ \A n, s : ~Cares(job[p], n, s)
  BY NameAt DEF MvPoints, NameOps
<1>2. job[p].m \in Names
  BY <1>1 DEF Apt
<1>3. pointer' \in [{"active", "autoswitch"} -> Names \cup {NoName}]
  BY <1>2 DEF MvPoints, Inv, Typing
<1> QED BY <1>1, <1>3, LeaveKeeps DEF MvPoints

LEMMA SubAt ==
    ASSUME Inv, NEW p \in Procs, NEW op \in SubOps, NEW at, At(p, op, at)
    PROVE  /\ job[p] # Idle /\ job[p].op = op /\ job[p].at = at /\ job[p].put = <<>>
           /\ job[p] \in Jobs /\ Apt(job[p]) /\ disk \in Disks /\ job[p].s \in Subs
           /\ Knows(disk, job[p], job[p].raced) /\ ~Carries(job[p]) /\ ~Writes(job[p])
<1>1. job[p] # Idle /\ job[p].op = op /\ job[p].at = at /\ job[p].put = <<>>
  BY AtIsHere
<1>2. job[p] \in Jobs /\ Apt(job[p]) /\ disk \in Disks /\ Knows(disk, job[p], job[p].raced)
  BY <1>1, Here
<1>3. ~Carries(job[p]) /\ ~Writes(job[p])
  BY <1>1 DEF Carries, Writes, SubOps
<1> QED BY <1>1, <1>2, <1>3 DEF Apt

LEMMA ListedIs == \A s : Listed(s) = ListIn(disk, s)
BY DEF Listed, ListIn, Loads, Loaded

LEMMA MadeCares ==
    /\ \A j, n, s : j.op # "submv" /\ j.made = <<>> => ~Cares(j, n, s)
    /\ \A i, j, n, s : i.op # "submv" /\ j.op = i.op /\ j.s = i.s /\ j.made = i.made /\ Cares(i, n, s)
                          => Cares(j, n, s)
    /\ \A j, n, s : j.op = "subrm" => ~Cares(j, n, s)
    /\ \A j, n, s : j.op = "submv" /\ (j.at \notin {"load", "rehome"} \/ j.left = <<>>) => ~Cares(j, n, s)
BY Ranges DEF Cares, Made, Awaited

LEMMA SubFields ==
    ASSUME NEW j, j.op \in SubOps, j.put = <<>>, NEW R
    PROVE  /\ ~Carries(j) /\ KnowsHalf(disk, j, R) /\ KnowsMv(disk, j, R)
           /\ j.op # "apply" => KnowsOne(disk, j, R)
           /\ j.op = "submv" => KnowsList(disk, j, R)
           /\ j.op # "submv" => KnowsSubMv(disk, j, R)
BY DEF SubOps, Carries, KnowsHalf, KnowsMv, KnowsOne, KnowsList, KnowsSubMv

LEMMA ApplyLoadsKeeps ==
    ASSUME Inv, NEW p \in Procs, ApplyLoads(p) PROVE Inv'
<1>1. /\ job[p] # Idle /\ job[p].op = "apply" /\ job[p].at = "start" /\ job[p].put = <<>>
      /\ job[p] \in Jobs /\ Apt(job[p]) /\ disk \in Disks /\ job[p].s \in Subs
  BY SubAt DEF ApplyLoads, SubOps
<1>2. PICK l, f : l = Listed(job[p].s) /\ f = SubFile(job[p].s)
  OBVIOUS
<1>0. l \in Seq(Names)
  BY <1>1, <1>2, ListedIs, StoredList
<1>3. l = ListIn(disk, job[p].s)
  BY <1>2, ListedIs
<1>4. PICK j : j = [job[p] EXCEPT !.at = "fetch", !.list = l]
  OBVIOUS
<1>5. /\ j \in Jobs /\ Kept(job[p], j) /\ j.at = "fetch" /\ j.list = l /\ j.left = job[p].left
      /\ j.made = job[p].made
  <2>1. j \in Jobs
    BY <1>1, <1>0, <1>4, Zenon DEF Jobs, Places
  <2> QED BY <1>1, <1>4, <2>1 DEF Jobs, Kept
<1>6. j.op = "apply" /\ j.put = <<>> /\ j.s = job[p].s
  BY <1>1, <1>5 DEF Kept
<1>7. job[p].made = <<>> /\ job[p].left = <<>>
  BY <1>1 DEF Apt, SubOps
<1>8. Apt(j)
  BY <1>1, <1>5, <1>6, <1>7, Ranges DEF Apt, NameOps
<1>9. Knows(disk, j, j.raced \ {f})
  <2>1. KnowsList(disk, j, j.raced \ {f}) /\ KnowsOne(disk, j, j.raced \ {f})
    BY <1>3, <1>5, <1>6 DEF KnowsList, KnowsOne
  <2> QED BY <2>1, <1>6, SubFields DEF Knows, SubOps
<1>10. ~Carries(j) /\ \A n, s : ~Cares(job[p], n, s)
  BY <1>1, <1>6, <1>7, MadeCares DEF Carries
<1>11. Read(p, {f}, j) /\ UNCHANGED quiet
  BY <1>2, <1>4 DEF ApplyLoads
<1> QED BY <1>1, <1>5, <1>8, <1>9, <1>10, <1>11, QuietRead

LEMMA ApplyFetchesKeeps ==
    ASSUME Inv, NEW p \in Procs, ApplyFetches(p) PROVE Inv'
<1>1. /\ job[p] # Idle /\ job[p].op = "apply" /\ job[p].at = "fetch" /\ job[p].put = <<>>
      /\ job[p] \in Jobs /\ Apt(job[p]) /\ disk \in Disks /\ job[p].s \in Subs
      /\ Knows(disk, job[p], job[p].raced)
  BY SubAt DEF ApplyFetches, SubOps
<1>2. job[p].made = <<>> /\ \A n, s : ~Cares(job[p], n, s)
  BY <1>1, MadeCares DEF Apt
<1>3. CASE Leave(p)
  BY <1>1, <1>2, <1>3, QuietLeave DEF ApplyFetches
<1>4. CASE ~Leave(p)
  <2>1. PICK entries \in Payloads :
            Read(p, {}, [job[p] EXCEPT !.at = "clear", !.todo = entries, !.left = job[p].list])
    BY <1>4 DEF ApplyFetches
  <2>2. entries \in Seq(Bases \cup {Unnamed, Refused}) /\ job[p].list \in Seq(Names)
    BY <1>1, ProfilesAssumption DEF Jobs
  <2>3. PICK j : j = [job[p] EXCEPT !.at = "clear", !.todo = entries, !.left = job[p].list]
    OBVIOUS
  <2>4. /\ j \in Jobs /\ Kept(job[p], j) /\ j.at = "clear" /\ j.list = job[p].list
        /\ j.left = job[p].list /\ j.made = job[p].made
    <3>1. j \in Jobs
      BY <1>1, <2>2, <2>3, Zenon DEF Jobs, Places
    <3> QED BY <1>1, <2>3, <3>1 DEF Jobs, Kept
  <2>5. j.op = "apply" /\ j.put = <<>> /\ j.s = job[p].s /\ j.raced = job[p].raced
    BY <1>1, <2>4 DEF Kept
  <2>6. Apt(j)
    BY <1>1, <1>2, <2>4, <2>5 DEF Apt, NameOps
  <2>7. Knows(disk, j, j.raced \ {})
    <3>1. KnowsList(disk, job[p], job[p].raced)
      BY <1>1 DEF Knows
    <3>2. KnowsList(disk, j, j.raced \ {}) /\ KnowsOne(disk, j, j.raced \ {})
      BY <1>1, <2>4, <2>5, <3>1 DEF KnowsList, KnowsOne, Cleared
    <3> QED BY <3>2, <2>5, SubFields DEF Knows, SubOps
  <2>8. ~Carries(j) /\ Read(p, {}, j) /\ UNCHANGED quiet
    BY <2>1, <2>3, <2>5 DEF Carries, ApplyFetches
  <2> QED BY <1>1, <1>2, <2>4, <2>6, <2>7, <2>8, QuietRead
<1> QED BY <1>3, <1>4

(* apply and sub rm pass over a name, or end the pass.                     *)
LEMMA PassKeeps ==
    ASSUME Inv, NEW p \in Procs, NEW op \in {"apply", "subrm"}, At(p, op, "clear"), UNCHANGED quiet,
           NEW q \in Seq(Names), NEW at, at = "clear" \/ (at = "pick" /\ op = "apply" /\ q = <<>>),
           Read(p, {}, [job[p] EXCEPT !.at = at, !.left = q]),
           Range(q) \subseteq Range(job[p].left),
           \A n \in Range(job[p].left) \ Range(q) : disk[ProfileFile(n)] = Absent
    PROVE  Inv'
<1>1. /\ job[p] # Idle /\ job[p].op = op /\ job[p].at = "clear" /\ job[p].put = <<>>
      /\ job[p] \in Jobs /\ Apt(job[p]) /\ disk \in Disks /\ job[p].s \in Subs
      /\ Knows(disk, job[p], job[p].raced)
  BY SubAt DEF SubOps
<1>2. PICK j : j = [job[p] EXCEPT !.at = at, !.left = q]
  OBVIOUS
<1>3. /\ j \in Jobs /\ Kept(job[p], j) /\ j.at = at /\ j.list = job[p].list /\ j.left = q
      /\ j.made = job[p].made
  <2>1. at \in Places
    BY DEF Places
  <2>2. j \in Jobs
    BY <1>1, <1>2, <2>1, Zenon DEF Jobs
  <2> QED BY <1>1, <1>2, <2>2 DEF Jobs, Kept
<1>4. j.op = op /\ j.put = <<>> /\ j.s = job[p].s /\ j.raced = job[p].raced
  BY <1>1, <1>3 DEF Kept
<1>5. Apt(j)
  BY <1>1, <1>3, <1>4 DEF Apt, NameOps, SubOps
<1>6. Knows(disk, j, j.raced \ {})
  <2>1. KnowsList(disk, job[p], job[p].raced)
    BY <1>1 DEF Knows
  <2>2. Cleared(disk, job[p], job[p].raced)
    BY <1>1, <2>1 DEF KnowsList
  <2>3. Cleared(disk, j, j.raced \ {})
    BY <1>1, <1>3, <1>4, <2>2 DEF Cleared
  <2>4. KnowsList(disk, j, j.raced \ {}) /\ KnowsOne(disk, j, j.raced \ {})
    BY <1>1, <1>3, <1>4, <2>1, <2>3 DEF KnowsList, KnowsOne
  <2> QED BY <2>4, <1>4, SubFields DEF Knows, SubOps
<1>7. ~Carries(j) /\ \A n, s : ~Cares(job[p], n, s)
  <2>1. job[p].made = <<>>
    BY <1>1 DEF Apt
  <2> QED BY <2>1, <1>1, <1>4, MadeCares DEF Carries
<1>8. Read(p, {}, j) /\ j.at # "end"
  BY <1>2, <1>3
<1> QED BY <1>1, <1>3, <1>5, <1>6, <1>7, <1>8, QuietRead

(* apply takes the next entry, and a name for it unless it is refused.     *)
LEMMA PickKeeps ==
    ASSUME Inv, NEW p \in Procs, At(p, "apply", "pick"), UNCHANGED quiet,
           NEW n \in Names, NEW u \in [Bases -> 0..Copies], NEW fs, NEW at,
           NEW todo \in Seq(Bases \cup {Unnamed, Refused}),
           Read(p, fs, [job[p] EXCEPT !.todo = todo, !.at = at, !.n = n, !.used = u]),
           \/ at = "pick" /\ fs = {}
           \/ /\ at = "save" /\ fs = {ProfileFile(n)}
              /\ Loaded(disk[ProfileFile(n)]) => disk[ProfileFile(n)].sub = job[p].s
    PROVE  Inv'
<1>1. /\ job[p] # Idle /\ job[p].op = "apply" /\ job[p].at = "pick" /\ job[p].put = <<>>
      /\ job[p] \in Jobs /\ Apt(job[p]) /\ disk \in Disks /\ job[p].s \in Subs
      /\ Knows(disk, job[p], job[p].raced)
  BY SubAt DEF SubOps
<1>2. PICK j : j = [job[p] EXCEPT !.todo = todo, !.at = at, !.n = n, !.used = u]
  OBVIOUS
<1>3. /\ j \in Jobs /\ Kept(job[p], j) /\ j.at = at /\ j.list = job[p].list /\ j.left = job[p].left
      /\ j.made = job[p].made /\ j.n = n
  <2>1. at \in Places
    BY DEF Places
  <2>2. j \in Jobs
    BY <1>1, <1>2, <2>1, Zenon DEF Jobs
  <2> QED BY <1>1, <1>2, <2>2 DEF Jobs, Kept
<1>4. j.op = "apply" /\ j.put = <<>> /\ j.s = job[p].s /\ j.raced = job[p].raced
  BY <1>1, <1>3 DEF Kept
<1>5. Apt(j) /\ j.at # "end"
  BY <1>1, <1>3, <1>4 DEF Apt, NameOps, SubOps
<1>6. Knows(disk, j, j.raced \ fs)
  <2>1. KnowsList(disk, job[p], job[p].raced)
    BY <1>1 DEF Knows
  <2>2. Cleared(disk, job[p], job[p].raced)
    BY <1>1, <2>1 DEF KnowsList
  <2>3. Cleared(disk, j, j.raced \ fs)
    BY <1>1, <1>3, <1>4, <2>2, FileKinds DEF Cleared
  <2>4. SubFile(j.s) \notin j.raced \ fs => SubFile(j.s) \notin job[p].raced
    BY <1>4, FileKinds
  <2>5. KnowsList(disk, j, j.raced \ fs)
    BY <1>1, <1>3, <1>4, <2>1, <2>3, <2>4 DEF KnowsList
  <2>6. KnowsOne(disk, j, j.raced \ fs)
    BY <1>3, <1>4 DEF KnowsOne
  <2> QED BY <2>5, <2>6, <1>4, SubFields DEF Knows, SubOps
<1>7. ~Carries(j) /\ \A x, s : Cares(job[p], x, s) => Cares(j, x, s)
  BY <1>1, <1>3, <1>4, MadeCares DEF Carries
<1>8. Read(p, fs, j)
  BY <1>2
<1> QED BY <1>1, <1>3, <1>5, <1>6, <1>7, <1>8, QuietRead

LEMMA RefuseKeeps ==
    ASSUME Inv, NEW p \in Procs, At(p, "apply", "pick"), UNCHANGED quiet,
           NEW todo \in Seq(Bases \cup {Unnamed, Refused}),
           Read(p, {}, [job[p] EXCEPT !.todo = todo])
    PROVE  Inv'
<1>1. /\ job[p] # Idle /\ job[p].op = "apply" /\ job[p].at = "pick" /\ job[p].put = <<>>
      /\ job[p] \in Jobs /\ Apt(job[p]) /\ disk \in Disks /\ job[p].s \in Subs
      /\ Knows(disk, job[p], job[p].raced)
  BY SubAt DEF SubOps
<1>2. PICK j : j = [job[p] EXCEPT !.todo = todo]
  OBVIOUS
<1>3. /\ j \in Jobs /\ Kept(job[p], j) /\ j.at = "pick" /\ j.list = job[p].list
      /\ j.left = job[p].left /\ j.made = job[p].made /\ j.n = job[p].n
  <2>1. j \in Jobs
    BY <1>1, <1>2, Zenon DEF Jobs
  <2> QED BY <1>1, <1>2, <2>1 DEF Jobs, Kept
<1>4. j.op = "apply" /\ j.put = <<>> /\ j.s = job[p].s /\ j.raced = job[p].raced
  BY <1>1, <1>3 DEF Kept
<1>5. Apt(j) /\ j.at # "end"
  BY <1>1, <1>3, <1>4 DEF Apt, NameOps, SubOps
<1>6. Knows(disk, j, j.raced \ {})
  <2>1. KnowsList(disk, job[p], job[p].raced)
    BY <1>1 DEF Knows
  <2>2. KnowsList(disk, j, j.raced \ {}) /\ KnowsOne(disk, j, j.raced \ {})
    BY <1>1, <1>3, <1>4, <2>1 DEF KnowsList, Cleared, KnowsOne
  <2> QED BY <2>2, <1>4, SubFields DEF Knows, SubOps
<1>7. ~Carries(j) /\ \A x, s : Cares(job[p], x, s) => Cares(j, x, s)
  BY <1>1, <1>3, <1>4, MadeCares DEF Carries
<1>8. Read(p, {}, j)
  BY <1>2
<1> QED BY <1>1, <1>3, <1>5, <1>6, <1>7, <1>8, QuietRead

LEMMA ApplyPicksKeeps ==
    ASSUME Inv, NEW p \in Procs, ApplyPicks(p) PROVE Inv'
<1>1. At(p, "apply", "pick") /\ UNCHANGED quiet /\ job[p].todo # <<>>
  BY DEF ApplyPicks
<1>2. job[p] \in Jobs /\ disk \in Disks /\ job[p].s \in Subs
  BY <1>1, SubAt DEF SubOps
<1>3. PICK todo, e, b, j : /\ todo = Tail(job[p].todo) /\ e = Head(job[p].todo)
                           /\ b = BaseOf(e, job[p].s) /\ j = [job[p] EXCEPT !.todo = todo]
  OBVIOUS
<1>4. /\ e \in Bases \cup {Unnamed, Refused} /\ todo \in Seq(Bases \cup {Unnamed, Refused})
      /\ job[p].used \in [Bases -> 0..Copies]
  <2>1. job[p].todo \in Seq(Bases \cup {Unnamed, Refused}) /\ job[p].used \in [Bases -> 0..Copies]
    BY <1>2 DEF Jobs
  <2> QED BY <1>1, <1>3, <2>1, Ranges
<1>5. e # Refused => b \in Bases
  BY <1>2, <1>3, <1>4, ProfilesAssumption DEF BaseOf
<1>6. \/ e = Refused /\ Read(p, {}, j)
      \/ /\ e # Refused /\ ~Taken(Plain(b), job[p].s)
         /\ Read(p, {ProfileFile(Plain(b))}, [j EXCEPT !.at = "save", !.n = Plain(b)])
      \/ /\ e # Refused
         /\ \E c \in FreeCounters(b, job[p].used[b]) :
                  Read(p, {ProfileFile(SubCopy(b, c))},
                       [j EXCEPT !.at = "save", !.n = SubCopy(b, c), !.used[b] = c + 1])
  BY <1>3 DEF ApplyPicks
<1>7. CASE e = Refused /\ Read(p, {}, j)
  BY <1>1, <1>3, <1>4, <1>7, RefuseKeeps
<1>8. CASE /\ e # Refused /\ ~Taken(Plain(b), job[p].s)
           /\ Read(p, {ProfileFile(Plain(b))}, [j EXCEPT !.at = "save", !.n = Plain(b)])
  <2>1. PICK n, u : n = Plain(b) /\ u = job[p].used
    OBVIOUS
  <2>2. n \in Names /\ u \in [Bases -> 0..Copies]
    BY <1>4, <1>5, <1>8, <2>1, NameKinds
  <2>3. [job[p] EXCEPT !.todo = todo, !.at = "save", !.n = n, !.used = u]
          = [j EXCEPT !.at = "save", !.n = Plain(b)]
    BY <1>2, <1>3, <2>1 DEF Jobs
  <2>4. Read(p, {ProfileFile(n)}, [job[p] EXCEPT !.todo = todo, !.at = "save", !.n = n, !.used = u])
    BY <1>8, <2>1, <2>3
  <2>5. Loaded(disk[ProfileFile(n)]) => disk[ProfileFile(n)].sub = job[p].s
    BY <1>8, <2>1 DEF Taken, Loads, Loaded
  <2> QED BY <1>1, <1>4, <2>2, <2>4, <2>5, PickKeeps
<1>9. ASSUME e # Refused, NEW c \in FreeCounters(b, job[p].used[b]),
             Read(p, {ProfileFile(SubCopy(b, c))},
                  [j EXCEPT !.at = "save", !.n = SubCopy(b, c), !.used[b] = c + 1])
      PROVE  Inv'
  <2>1. PICK n, u : n = SubCopy(b, c) /\ u = [job[p].used EXCEPT ![b] = c + 1]
    OBVIOUS
  <2>0. c \in job[p].used[b]..(Copies - 1) /\ ~Loads(ProfileFile(n)) /\ job[p].used[b] \in 0..Copies
    BY <1>4, <1>5, <1>9, <2>1 DEF FreeCounters
  <2>6. c \in 0..(Copies - 1) /\ c + 1 \in 0..Copies
    BY <2>0, ProfilesAssumption
  <2>2. n \in Names /\ u \in [Bases -> 0..Copies]
    BY <1>4, <1>5, <1>9, <2>1, <2>6, NameKinds
  <2>3. [job[p] EXCEPT !.todo = todo, !.at = "save", !.n = n, !.used = u]
          = [j EXCEPT !.at = "save", !.n = SubCopy(b, c), !.used[b] = c + 1]
    BY <1>2, <1>3, <2>1 DEF Jobs
  <2>4. Read(p, {ProfileFile(n)}, [job[p] EXCEPT !.todo = todo, !.at = "save", !.n = n, !.used = u])
    BY <1>9, <2>1, <2>3
  <2>5. ~Loaded(disk[ProfileFile(n)])
    BY <2>0 DEF Loads, Loaded
  <2> QED BY <1>1, <1>4, <2>2, <2>4, <2>5, PickKeeps
<1> QED BY <1>6, <1>7, <1>8, <1>9

LEMMA SubRmLoadsKeeps ==
    ASSUME Inv, NEW p \in Procs, SubRmLoads(p) PROVE Inv'
<1>1. /\ job[p] # Idle /\ job[p].op = "subrm" /\ job[p].at = "start" /\ job[p].put = <<>>
      /\ job[p] \in Jobs /\ Apt(job[p]) /\ disk \in Disks /\ job[p].s \in Subs
  BY SubAt DEF SubRmLoads, SubOps
<1>2. \A n, s : ~Cares(job[p], n, s)
  BY <1>1, MadeCares
<1>3. CASE Leave(p)
  BY <1>1, <1>2, <1>3, QuietLeave DEF SubRmLoads
<1>4. CASE ~Leave(p)
  <2>1. PICK l, f : l = Listed(job[p].s) /\ f = SubFile(job[p].s)
    OBVIOUS
  <2>2. l \in Seq(Names)
    BY <1>1, <2>1, ListedIs, StoredList
  <2>3. l = ListIn(disk, job[p].s)
    BY <2>1, ListedIs
  <2>4. PICK j : j = [job[p] EXCEPT !.at = "clear", !.list = l, !.left = l]
    OBVIOUS
  <2>5. /\ j \in Jobs /\ Kept(job[p], j) /\ j.at = "clear" /\ j.list = l /\ j.left = l
        /\ j.made = job[p].made
    <3>1. j \in Jobs
      BY <1>1, <2>2, <2>4, Zenon DEF Jobs, Places
    <3> QED BY <1>1, <2>4, <3>1 DEF Jobs, Kept
  <2>6. j.op = "subrm" /\ j.put = <<>> /\ j.s = job[p].s
    BY <1>1, <2>5 DEF Kept
  <2>7. Apt(j)
    BY <1>1, <2>5, <2>6 DEF Apt, NameOps
  <2>8. Knows(disk, j, j.raced \ {f})
    <3>1. KnowsList(disk, j, j.raced \ {f})
      BY <2>3, <2>5, <2>6 DEF KnowsList, Cleared
    <3> QED BY <3>1, <2>6, SubFields DEF Knows, SubOps
  <2>9. ~Carries(j)
    BY <2>6 DEF Carries
  <2>10. Read(p, {f}, j) /\ UNCHANGED quiet
    BY <1>4, <2>1, <2>4 DEF SubRmLoads
  <2> QED BY <1>1, <1>2, <2>5, <2>7, <2>8, <2>9, <2>10, QuietRead
<1> QED BY <1>3, <1>4

LEMMA SubMvLoadsKeeps ==
    ASSUME Inv, NEW p \in Procs, SubMvLoads(p) PROVE Inv'
<1>1. /\ job[p] # Idle /\ job[p].op = "submv" /\ job[p].at = "start" /\ job[p].put = <<>>
      /\ job[p] \in Jobs /\ Apt(job[p]) /\ disk \in Disks /\ job[p].s \in Subs
  BY SubAt DEF SubMvLoads, SubOps
<1>2. \A n, s : ~Cares(job[p], n, s)
  BY <1>1, MadeCares
<1>3. CASE Leave(p)
  BY <1>1, <1>2, <1>3, QuietLeave DEF SubMvLoads
<1>4. CASE ~Leave(p)
  <2>1. PICK l, f, g : l = Listed(job[p].s) /\ f = SubFile(job[p].s) /\ g = SubFile(job[p].t)
    OBVIOUS
  <2>2. l \in Seq(Names)
    BY <1>1, <2>1, ListedIs, StoredList
  <2>3. l = ListIn(disk, job[p].s)
    BY <2>1, ListedIs
  <2>4. PICK j : j = [job[p] EXCEPT !.at = "save", !.list = l, !.left = l]
    OBVIOUS
  <2>5. /\ j \in Jobs /\ Kept(job[p], j) /\ j.at = "save" /\ j.list = l /\ j.left = l
        /\ j.made = job[p].made
    <3>1. j \in Jobs
      BY <1>1, <2>2, <2>4, Zenon DEF Jobs, Places
    <3> QED BY <1>1, <2>4, <3>1 DEF Jobs, Kept
  <2>6. j.op = "submv" /\ j.put = <<>> /\ j.s = job[p].s /\ j.t = job[p].t
    BY <1>1, <2>5 DEF Kept
  <2>7. Apt(j)
    BY <1>1, <2>5, <2>6 DEF Apt, NameOps
  <2>8. Read(p, {f, g}, j) /\ UNCHANGED quiet /\ disk[g].is = "absent"
    BY <1>4, <2>1, <2>4 DEF SubMvLoads, Exists
  <2>9. disk[g] = Absent
    <3>1. disk[g] \in {Absent, Torn} \cup Lines
      BY <1>1, <2>1, FileKinds DEF Apt, Disks, Holds
    <3> QED BY <3>1, <2>8 DEF Torn, Lines
  <2>10. Knows(disk, j, j.raced \ {f, g})
    <3>1. KnowsSubMv(disk, j, j.raced \ {f, g})
      BY <2>1, <2>3, <2>5, <2>6, <2>9 DEF KnowsSubMv
    <3> QED BY <3>1, <2>6, SubFields DEF Knows, SubOps
  <2>11. ~Carries(j)
    BY <2>6 DEF Carries
  <2> QED BY <1>1, <1>2, <2>5, <2>7, <2>8, <2>10, <2>11, QuietRead
<1> QED BY <1>3, <1>4

LEMMA SubMvLoadsNextKeeps ==
    ASSUME Inv, NEW p \in Procs, SubMvLoadsNext(p) PROVE Inv'
<1>1. /\ job[p] # Idle /\ job[p].op = "submv" /\ job[p].at = "load" /\ job[p].put = <<>>
      /\ job[p] \in Jobs /\ Apt(job[p]) /\ disk \in Disks /\ job[p].s \in Subs
      /\ Knows(disk, job[p], job[p].raced)
  BY SubAt DEF SubMvLoadsNext, SubOps
<1>2. CASE job[p].left = <<>>
  <2>1. \A n, s : ~Cares(job[p], n, s)
    BY <1>1, <1>2, MadeCares
  <2> QED BY <1>1, <1>2, <2>1, QuietLeave DEF SubMvLoadsNext
<1>3. CASE job[p].left # <<>>
  <2>1. PICK h, f, w : h = Head(job[p].left) /\ f = ProfileFile(h)
                       /\ w = Rehomed(disk[f], job[p].s, job[p].t)
    OBVIOUS
  <2>2. h \in Names
    <3>1. job[p].left \in Seq(Names)
      BY <1>1 DEF Jobs
    <3> QED BY <1>3, <2>1, <3>1, Ranges
  <2>3. PICK j : j = [job[p] EXCEPT !.at = "rehome", !.got = w]
    OBVIOUS
  <2>4. Loaded(disk[f]) /\ Read(p, {f}, j) /\ UNCHANGED quiet
    BY <1>3, <2>1, <2>3 DEF SubMvLoadsNext, Loads, Loaded
  <2>5. disk[f] \in Profs
    BY <1>1, <2>1, <2>2, <2>4, StoredProfile
  <2>6. w \in Profs /\ w.sub = job[p].t /\ w.own = disk[f].own
    <3>1. job[p].t \in Subs
      BY <1>1 DEF Apt
    <3> QED BY <2>1, <2>5, <3>1 DEF Profs, Rehomed
  <2>7. /\ j \in Jobs /\ Kept(job[p], j) /\ j.at = "rehome" /\ j.list = job[p].list
        /\ j.left = job[p].left /\ j.got = w
    <3>1. j \in Jobs
      BY <1>1, <2>3, <2>6, Zenon DEF Jobs, Places
    <3> QED BY <1>1, <2>3, <3>1 DEF Jobs, Kept
  <2>8. j.op = "submv" /\ j.put = <<>> /\ j.s = job[p].s /\ j.t = job[p].t /\ j.raced = job[p].raced
    BY <1>1, <2>7 DEF Kept
  <2>9. Apt(j)
    BY <1>1, <1>3, <2>6, <2>7, <2>8 DEF Apt, NameOps
  <2>10. Knows(disk, j, j.raced \ {f})
    <3>1. SubFile(j.t) \notin j.raced \ {f} => j.list = ListIn(disk, j.t)
      BY <1>1, <2>1, <2>7, <2>8, FileKinds DEF Knows, KnowsSubMv
    <3>2. KnowsSubMv(disk, j, j.raced \ {f})
      BY <2>1, <2>4, <2>6, <2>7, <2>8, <3>1 DEF KnowsSubMv, Same
    <3> QED BY <3>2, <2>8, SubFields DEF Knows, SubOps
  <2>11. ~Carries(j) /\ \A n, s : Cares(job[p], n, s) => Cares(j, n, s)
    BY <1>1, <2>7, <2>8 DEF Carries, Cares, Made, Awaited
  <2> QED BY <1>1, <2>4, <2>7, <2>9, <2>10, <2>11, QuietRead
<1> QED BY <1>2, <1>3

LEMMA SubMvSkipsKeeps ==
    ASSUME Inv, NEW p \in Procs, SubMvSkips(p) PROVE Inv'
<1>1. /\ job[p] # Idle /\ job[p].op = "submv" /\ job[p].at = "load" /\ job[p].put = <<>>
      /\ job[p] \in Jobs /\ Apt(job[p]) /\ disk \in Disks /\ job[p].s \in Subs
      /\ Knows(disk, job[p], job[p].raced) /\ ~Writes(job[p])
  BY SubAt DEF SubMvSkips, SubOps
<1>2. PICK h, f, q : h = Head(job[p].left) /\ f = ProfileFile(h) /\ q = Tail(job[p].left)
  OBVIOUS
<1>3. /\ h \in Names /\ q \in Seq(Names) /\ Range(q) \subseteq Range(job[p].left)
      /\ Range(job[p].left) \subseteq Range(q) \cup {h}
  <2>1. job[p].left \in Seq(Names) /\ job[p].left # <<>>
    BY <1>1 DEF Jobs, SubMvSkips
  <2> QED BY <1>2, <2>1, Ranges
<1>4. PICK k : k = [job[p] EXCEPT !.left = q]
  OBVIOUS
<1>5. /\ k \in Jobs /\ Kept(job[p], k) /\ k.at = "load" /\ k.list = job[p].list /\ k.left = q
  <2>1. k \in Jobs
    BY <1>1, <1>3, <1>4, Zenon DEF Jobs, Places
  <2> QED BY <1>1, <1>4, <2>1 DEF Jobs, Kept
<1>6. k.op = "submv" /\ k.put = <<>> /\ k.s = job[p].s /\ k.t = job[p].t /\ k.raced = job[p].raced
      /\ k.id = job[p].id
  BY <1>1, <1>5 DEF Kept
<1>7. Fit(k)
  <2>1. Apt(k)
    BY <1>1, <1>3, <1>5, <1>6 DEF Apt, NameOps
  <2> QED BY <1>5, <1>6, <2>1 DEF Fit, Half
<1>8. Knows(disk, k, k.raced)
  <2>1. KnowsSubMv(disk, k, k.raced)
    BY <1>1, <1>5, <1>6 DEF Knows, KnowsSubMv
  <2> QED BY <2>1, <1>6, SubFields DEF Knows, SubOps
<1>9. /\ ~Loaded(disk[f]) /\ disk' = disk /\ UNCHANGED quiet
      /\ spoilt' = spoilt \cup (IF disk[f].is # "absent" THEN {SubFile(job[p].s)} ELSE {})
      /\ job' = [job EXCEPT ![p] = k]
  BY <1>2, <1>4 DEF SubMvSkips, Loads, Loaded, Exists
<1>10. spoilt \subseteq spoilt' /\ spoilt' \subseteq Files
  BY <1>1, <1>9, FileKinds DEF Inv, Typing
<1>11. ASSUME NEW n \in Names, NEW s \in Subs, Wanted(disk, job, n, s), Cares(job[p], n, s)
       PROVE  Cares(k, n, s) \/ SubFile(s) \in spoilt'
  <2>1. s = job[p].s /\ n \in Range(q) \cup {h}
    BY <1>1, <1>3, <1>11 DEF Cares, Made, Awaited
  <2>2. CASE n \in Range(q)
    BY <2>1, <2>2, <1>5, <1>6 DEF Cares, Awaited
  <2>3. CASE n = h
    <3>1. ~Stored(disk, n, s)
      BY <2>3, <1>2, <1>9 DEF Stored
    <3>2. PICK r \in Procs : Pending(job[r], n, s)
      BY <3>1, <1>11 DEF Wanted
    <3>3. KnowsHalf(disk, job[r], job[r].raced)
      BY <3>2 DEF Inv, Informed, Knows, Pending
    <3>4. disk[f] = Torn
      BY <3>2, <3>3, <2>3, <1>2 DEF Pending, KnowsHalf
    <3> QED BY <3>4, <2>1, <1>9 DEF Torn
  <2> QED BY <2>1, <2>2, <2>3
<1>12. ~Carries(k) /\ k.id \in 1..issued
  <2>1. job[p].id \in 1..issued
    BY <1>1, Here
  <2> QED BY <2>1, <1>6 DEF Carries
<1>13. /\ running' = running /\ issued' \in 0..Issues /\ issued <= issued' /\ told' = told
       /\ pointer' \in [{"active", "autoswitch"} -> Names \cup {NoName}] /\ k.id \in 1..issued'
  BY <1>9, <1>12 DEF quiet, Inv, Typing
<1> QED BY <1>1, <1>5, <1>6, <1>7, <1>8, <1>9, <1>10, <1>11, <1>12, <1>13, AsideKeeps

(***************************************************************************)
(* The steps that change a file.                                           *)
(***************************************************************************)
LEMMA SpoilsRaced ==
    ASSUME NEW p \in Procs, NEW f, NEW v, NEW w, NEW j, Change(p, f, v, j),
           w = IF v = Torn THEN j.put[2] ELSE v
    PROVE  /\ spoilt \subseteq spoilt'
           /\ \A x : x \in Basis(job[p], f, w) /\ x \in job[p].raced
                       => f \in spoilt' /\ Owner(w) \subseteq spoilt'
BY DEF Change, Spoils

LEMMA StillEvident ==
    ASSUME Inv, NEW p \in Procs, NEW j, NEW n \in Names, NEW s \in Subs,
           Wanted(disk, job, n, s), spoilt \subseteq spoilt',
           Cares(job[p], n, s) => Cared(p, j, n, s)
    PROVE  n \in Range(ListIn(disk, s)) \/ Cared(p, j, n, s)
<1>1. Evident(disk, job, spoilt, n, s)
  BY DEF Inv, Accounted
<1> QED BY <1>1 DEF Evident, Cared

LEMMA QuietChange ==
    ASSUME Inv, NEW p \in Procs, job[p] # Idle, job[p].put = <<>>, NEW f \in Files, f # StatusFile,
           NEW v \in {Absent, Torn}, NEW j \in Jobs, Change(p, f, v, j), UNCHANGED quiet,
           v = Torn => j.put # <<>>, j.id = job[p].id, j.raced = job[p].raced, ~Carries(j),
           ~Gone(j) => Apt(j) /\ Half(j) /\ Knows([disk EXCEPT ![f] = v], j, j.raced \ {f}),
           \A n \in Names, s \in Subs : Answers(p, f, v, j, n, s)
    PROVE  Inv'
<1>1. /\ running' = running /\ issued' = issued /\ told' = told /\ pointer' = pointer
      /\ told' \in [Names -> Words]
  BY DEF quiet, Inv, Typing
<1>2. ~Gone(j) => Fit(j)
  BY DEF Fit
<1>3. ~Writes(job[p]) /\ v \in {Absent, Torn} \cup Holds(f)
  BY DEF Writes
<1> QED BY <1>1, <1>2, <1>3, ChangeKeeps DEF Inv

(* A profile's file is removed.                                            *)
LEMMA RemoveKeeps ==
    ASSUME Inv, NEW p \in Procs, job[p] # Idle, job[p].put = <<>>, NEW x \in Names, NEW j \in Jobs,
           Remove(p, ProfileFile(x), j), UNCHANGED quiet, Kept(job[p], j),
           \A n, s : ~Cares(job[p], n, s), ~Carries(j),
           ~Gone(j) => Apt(j) /\ Knows([disk EXCEPT ![ProfileFile(x)] = Absent], j, j.raced \ {ProfileFile(x)})
    PROVE  Inv'
<1>1. PICK f, v : f = ProfileFile(x) /\ v = Absent
  OBVIOUS
<1>2. Change(p, f, v, j) /\ f \in Files /\ f # StatusFile /\ v \in {Absent, Torn} /\ v # Torn
  BY <1>1, FileKinds DEF Remove, Absent, Torn
<1>3. j.put = <<>> /\ j.id = job[p].id /\ j.raced = job[p].raced
  BY DEF Kept
<1>4. \A n \in Names, s \in Subs : Answers(p, f, v, j, n, s)
  <2>1. ~Loaded(v) /\ \A s : f # SubFile(s)
    BY <1>1, FileKinds DEF Loaded, Absent
  <2> QED BY <2>1, <1>3 DEF Answers
<1>5. Half(j)
  BY <1>3 DEF Half
<1>6. ~Gone(j) => Apt(j) /\ Half(j) /\ Knows([disk EXCEPT ![f] = v], j, j.raced \ {f})
  BY <1>1, <1>5
<1> QED BY <1>2, <1>3, <1>4, <1>6, QuietChange

LEMMA RmRemovesKeeps ==
    ASSUME Inv, NEW p \in Procs, RmRemoves(p) PROVE Inv'
<1>1. /\ job[p] # Idle /\ job[p].op = "rm" /\ job[p].put = <<>> /\ job[p] \in Jobs
      /\ job[p].n \in Names /\ \A n, s : ~Cares(job[p], n, s)
  BY NameAt DEF RmRemoves, NameOps
<1>2. CASE Leave(p)
  BY <1>1, <1>2, QuietLeave DEF RmRemoves
<1>3. CASE ~Leave(p)
  <2>1. PICK j : j = [job[p] EXCEPT !.at = "end"]
    OBVIOUS
  <2>2. j \in Jobs /\ Kept(job[p], j) /\ j.at = "end"
    <3>1. j \in Jobs
      BY <1>1, <2>1, Zenon DEF Jobs, Places
    <3> QED BY <1>1, <2>1, <3>1 DEF Jobs, Kept
  <2>3. j.op = "rm" /\ Gone(j)
    BY <1>1, <2>2 DEF Kept, Gone
  <2>4. Remove(p, ProfileFile(job[p].n), j) /\ UNCHANGED quiet /\ ~Carries(j)
    BY <1>3, <2>1, <2>3 DEF RmRemoves, Carries
  <2> QED BY <1>1, <2>2, <2>3, <2>4, RemoveKeeps
<1> QED BY <1>2, <1>3

LEMMA MvRemovesKeeps ==
    ASSUME Inv, NEW p \in Procs, MvRemoves(p) PROVE Inv'
<1>1. /\ job[p] # Idle /\ job[p].op = "mv" /\ job[p].put = <<>> /\ job[p] \in Jobs
      /\ Apt(job[p]) /\ job[p].n \in Names /\ \A n, s : ~Cares(job[p], n, s)
  BY NameAt DEF MvRemoves, NameOps
<1>2. job[p].m \in Names
  BY <1>1 DEF Apt
<1>3. CASE Exists(ProfileFile(job[p].n))
  <2>1. PICK j : j = [job[p] EXCEPT !.at = "status"]
    OBVIOUS
  <2>2. j \in Jobs /\ Kept(job[p], j) /\ j.at = "status" /\ j.n = job[p].n
    <3>1. j \in Jobs
      BY <1>1, <2>1, Zenon DEF Jobs, Places
    <3> QED BY <1>1, <2>1, <3>1 DEF Jobs, Kept
  <2>3. j.op = "mv" /\ j.m = job[p].m /\ j.put = <<>>
    BY <1>1, <2>2 DEF Kept
  <2>4. Remove(p, ProfileFile(job[p].n), j) /\ UNCHANGED quiet /\ ~Carries(j)
    BY <1>3, <2>1, <2>2, <2>3 DEF MvRemoves, Carries
  <2>5. Apt(j)
    BY <1>1, <2>2, <2>3 DEF Apt, SubOps, NameOps
  <2>6. \A d, R : Knows(d, j, R)
    BY <2>2, <2>3 DEF Knows, KnowsMv, KnowsHalf, KnowsOne, KnowsList, KnowsSubMv
  <2> QED BY <1>1, <2>2, <2>4, <2>5, <2>6, RemoveKeeps
<1>4. CASE ~Exists(ProfileFile(job[p].n))
  <2>1. PICK j : j = [job[p] EXCEPT !.at = "end"]
    OBVIOUS
  <2>2. j \in Jobs /\ Kept(job[p], j) /\ j.at = "end"
    <3>1. j \in Jobs
      BY <1>1, <2>1, Zenon DEF Jobs, Places
    <3> QED BY <1>1, <2>1, <3>1 DEF Jobs, Kept
  <2>3. j.op = "mv" /\ Gone(j)
    BY <1>1, <2>2 DEF Kept, Gone
  <2>4. Remove(p, ProfileFile(job[p].m), j) /\ UNCHANGED quiet /\ ~Carries(j)
    BY <1>4, <2>1, <2>2, <2>3 DEF MvRemoves, Carries
  <2> QED BY <1>1, <1>2, <2>2, <2>3, <2>4, RemoveKeeps
<1> QED BY <1>3, <1>4

LEMMA ClearKeeps ==
    ASSUME Inv, NEW p \in Procs, NEW op \in {"apply", "subrm"}, At(p, op, "clear"), UNCHANGED quiet,
           job[p].left # <<>>,
           Remove(p, ProfileFile(Head(job[p].left)), [job[p] EXCEPT !.left = Tail(@)])
    PROVE  Inv'
<1>1. /\ job[p] # Idle /\ job[p].op = op /\ job[p].at = "clear" /\ job[p].put = <<>>
      /\ job[p] \in Jobs /\ Apt(job[p]) /\ disk \in Disks /\ job[p].s \in Subs
      /\ Knows(disk, job[p], job[p].raced)
  BY SubAt DEF SubOps
<1>2. PICK h, q, f : h = Head(job[p].left) /\ q = Tail(job[p].left) /\ f = ProfileFile(h)
  OBVIOUS
<1>3. /\ h \in Names /\ q \in Seq(Names) /\ Range(q) \subseteq Range(job[p].left)
      /\ Range(job[p].left) \subseteq Range(q) \cup {h}
  <2>1. job[p].left \in Seq(Names)
    BY <1>1 DEF Jobs
  <2> QED BY <1>2, <2>1, Ranges
<1>4. PICK j : j = [job[p] EXCEPT !.left = q]
  OBVIOUS
<1>5. /\ j \in Jobs /\ Kept(job[p], j) /\ j.at = "clear" /\ j.list = job[p].list /\ j.left = q
      /\ j.made = job[p].made
  <2>1. j \in Jobs
    BY <1>1, <1>3, <1>4, Zenon DEF Jobs
  <2> QED BY <1>1, <1>4, <2>1 DEF Jobs, Kept
<1>6. j.op = op /\ j.put = <<>> /\ j.s = job[p].s /\ j.raced = job[p].raced
  BY <1>1, <1>5 DEF Kept
<1>7. Apt(j)
  BY <1>1, <1>3, <1>5, <1>6 DEF Apt, NameOps, SubOps
<1>8. PICK e : e = [disk EXCEPT ![f] = Absent]
  OBVIOUS
<1>9. Knows(e, j, j.raced \ {f})
  <2>1. KnowsList(disk, job[p], job[p].raced)
    BY <1>1 DEF Knows
  <2>2. Cleared(disk, job[p], job[p].raced)
    BY <1>1, <2>1 DEF KnowsList
  <2>3. /\ e[f] = Absent /\ \A g \in Files : g # f => e[g] = disk[g]
    BY <1>1, <1>2, <1>3, <1>8, FileKinds DEF Disks
  <2>4. \A n \in Range(j.list) : n \in Names /\ ProfileFile(n) \in Files
    BY <1>5, Ranges, FileKinds DEF Jobs
  <2>5. Cleared(e, j, j.raced \ {f})
    BY <1>1, <1>2, <1>3, <1>5, <1>6, <2>2, <2>3, <2>4 DEF Cleared
  <2>6. ListIn(e, j.s) = ListIn(disk, j.s) /\ SubFile(j.s) # f
    BY <1>1, <1>2, <1>6, <2>3, FileKinds DEF ListIn
  <2>7. KnowsList(e, j, j.raced \ {f})
    BY <1>1, <1>5, <1>6, <2>1, <2>5, <2>6 DEF KnowsList
  <2> QED BY <2>7, <1>5, <1>6 DEF Knows, KnowsHalf, KnowsOne, KnowsMv, KnowsSubMv
<1>10. ~Carries(j) /\ \A n, s : ~Cares(job[p], n, s)
  <2>1. job[p].made = <<>>
    BY <1>1 DEF Apt
  <2> QED BY <2>1, <1>1, <1>6, MadeCares DEF Carries
<1>11. Remove(p, ProfileFile(h), j)
  BY <1>2, <1>4
<1>12. Knows([disk EXCEPT ![ProfileFile(h)] = Absent], j, j.raced \ {ProfileFile(h)})
  BY <1>2, <1>8, <1>9
<1> QED BY <1>1, <1>3, <1>5, <1>7, <1>10, <1>11, <1>12, RemoveKeeps

(* A name that the new list leaves out, and that came back, spoils it.     *)
LEMMA LeftOut ==
    ASSUME Inv, NEW p \in Procs, NEW op \in {"apply", "subrm"}, NEW at \in {"clear", "pick"},
           At(p, op, at), job[p].left = <<>>,
           NEW v, NEW w, NEW j, Change(p, SubFile(job[p].s), v, j), w = IF v = Torn THEN j.put[2] ELSE v,
           NEW n \in Names, Stored(disk, n, job[p].s), n \in Range(ListIn(disk, job[p].s)),
           n \notin Range(job[p].made), n \notin Lists(w)
    PROVE  SubFile(job[p].s) \in spoilt'
<1>1. /\ job[p].op = op /\ job[p].at = at /\ Knows(disk, job[p], job[p].raced)
      /\ job[p] # Idle
  BY SubAt DEF SubOps
<1>2. PICK f : f = SubFile(job[p].s)
  OBVIOUS
<1>3. CASE f \in job[p].raced
  <2>1. f \in Basis(job[p], f, w)
    BY DEF Basis
  <2> QED BY <2>1, <1>2, <1>3, SpoilsRaced
<1>4. CASE f \notin job[p].raced
  <2>1. job[p].list = ListIn(disk, job[p].s) /\ Cleared(disk, job[p], job[p].raced)
    BY <1>1, <1>2, <1>4 DEF Knows, KnowsList
  <2>2. n \in Range(job[p].list) \ (Range(job[p].left) \cup Range(job[p].made))
    BY <2>1, Ranges
  <2>3. ProfileFile(n) \in job[p].raced
    <3>1. disk[ProfileFile(n)] # Absent
      BY DEF Stored, Loaded, Absent
    <3> QED BY <2>1, <2>2, <3>1, <1>1 DEF Cleared
  <2>4. Member(n, job[p].s)
    BY DEF Member, Stored, Loads, Loaded
  <2>5. ProfileFile(n) \in Basis(job[p], f, w)
    BY <1>1, <1>2, <2>4 DEF Basis
  <2>6. f \in spoilt'
    BY <1>2, <2>3, <2>5, SpoilsRaced
  <2> QED BY <1>2, <2>6
<1> QED BY <1>3, <1>4

LEMMA ApplyClearsKeeps ==
    ASSUME Inv, NEW p \in Procs, ApplyClears(p) PROVE Inv'
<1>1. At(p, "apply", "clear") /\ UNCHANGED quiet
  BY DEF ApplyClears
<1>2. job[p] \in Jobs /\ disk \in Disks /\ job[p].at = "clear" /\ job[p].left \in Seq(Names)
  BY <1>1, SubAt DEF SubOps, Jobs
<1>3. CASE job[p].left = <<>>
  <2>1. [job[p] EXCEPT !.at = "pick"] = [job[p] EXCEPT !.at = "pick", !.left = <<>>]
    BY <1>2, <1>3 DEF Jobs
  <2>2. Read(p, {}, [job[p] EXCEPT !.at = "pick", !.left = <<>>])
    BY <1>3, <2>1 DEF ApplyClears
  <2>3. <<>> \in Seq(Names) /\ Range(<<>>) \subseteq Range(job[p].left)
        /\ \A n \in Range(job[p].left) \ Range(<<>>) : disk[ProfileFile(n)] = Absent
    BY <1>3
  <2> QED BY <1>1, <2>2, <2>3, PassKeeps
<1>4. CASE job[p].left # <<>> /\ Exists(ProfileFile(Head(job[p].left)))
  <2>1. Remove(p, ProfileFile(Head(job[p].left)), [job[p] EXCEPT !.left = Tail(@)])
    BY <1>4 DEF ApplyClears
  <2> QED BY <1>1, <1>4, <2>1, ClearKeeps
<1>5. CASE job[p].left # <<>> /\ ~Exists(ProfileFile(Head(job[p].left)))
  <2>1. PICK q, h : q = Tail(job[p].left) /\ h = Head(job[p].left)
    OBVIOUS
  <2>2. [job[p] EXCEPT !.left = Tail(@)] = [job[p] EXCEPT !.at = "clear", !.left = q]
    BY <1>2, <2>1 DEF Jobs
  <2>3. Read(p, {}, [job[p] EXCEPT !.at = "clear", !.left = q])
    BY <1>5, <2>2 DEF ApplyClears
  <2>4. /\ h \in Names /\ q \in Seq(Names) /\ Range(q) \subseteq Range(job[p].left)
        /\ Range(job[p].left) \subseteq Range(q) \cup {h}
    BY <1>2, <1>5, <2>1, Ranges
  <2>5. disk[ProfileFile(h)] = Absent
    <3>1. disk[ProfileFile(h)] \in {Absent, Torn} \cup Profs
      BY <1>2, <2>4, FileKinds DEF Disks, Holds
    <3> QED BY <3>1, <1>5, <2>1 DEF Exists, Torn, Profs
  <2>6. \A n \in Range(job[p].left) \ Range(q) : disk[ProfileFile(n)] = Absent
    BY <2>4, <2>5
  <2> QED BY <1>1, <2>3, <2>4, <2>6, PassKeeps
<1> QED BY <1>3, <1>4, <1>5

LEMMA SubRmClearsKeeps ==
    ASSUME Inv, NEW p \in Procs, SubRmClears(p) PROVE Inv'
<1>1. At(p, "subrm", "clear") /\ UNCHANGED quiet
  BY DEF SubRmClears
<1>2. /\ job[p] # Idle /\ job[p].op = "subrm" /\ job[p].at = "clear" /\ job[p].put = <<>>
      /\ job[p] \in Jobs /\ disk \in Disks /\ job[p].s \in Subs /\ Apt(job[p])
      /\ job[p].left \in Seq(Names) /\ \A n, s : ~Cares(job[p], n, s)
  BY <1>1, SubAt, MadeCares DEF SubOps, Jobs
<1>3. CASE Leave(p)
  BY <1>1, <1>2, <1>3, QuietLeave
<1>4. CASE job[p].left = <<>> /\ ~Leave(p)
  <2>1. PICK j, f, v : j = [job[p] EXCEPT !.at = "end"] /\ f = SubFile(job[p].s) /\ v = Absent
    OBVIOUS
  <2>2. j \in Jobs /\ Kept(job[p], j) /\ j.at = "end"
    <3>1. j \in Jobs
      BY <1>2, <2>1, Zenon DEF Jobs, Places
    <3> QED BY <1>2, <2>1, <3>1 DEF Jobs, Kept
  <2>3. j.op = "subrm" /\ Gone(j) /\ j.put = <<>> /\ j.id = job[p].id /\ j.raced = job[p].raced
    BY <1>2, <2>2 DEF Kept, Gone
  <2>4. Change(p, f, v, j) /\ ~Carries(j)
    BY <1>4, <2>1, <2>3 DEF SubRmClears, Remove, Carries
  <2>5. f \in Files /\ f # StatusFile /\ v \in {Absent, Torn} /\ v # Torn
    BY <1>2, <2>1, FileKinds DEF Absent, Torn
  <2>6. ASSUME NEW n \in Names, NEW s \in Subs PROVE Answers(p, f, v, j, n, s)
    <3>1. ~Loaded(v) /\ Lists(v) = {}
      BY <2>1 DEF Loaded, Absent, Lists
    <3>2. ASSUME f = SubFile(s), Stored(disk, n, s), n \in Range(ListIn(disk, s))
          PROVE  SubFile(s) \in spoilt'
      <4>1. s = job[p].s
        BY <3>2, <2>1, FileKinds
      <4>2. job[p].made = <<>> /\ n \notin Range(job[p].made)
        BY <1>2, Ranges DEF Apt
      <4>3. Change(p, SubFile(job[p].s), v, j) /\ v = IF v = Torn THEN j.put[2] ELSE v
        BY <2>1, <2>4, <2>5
      <4> QED BY <1>1, <1>4, <3>1, <3>2, <4>1, <4>2, <4>3, LeftOut
    <3> QED BY <1>2, <2>3, <3>1, <3>2 DEF Answers, Cared
  <2> QED BY <1>1, <1>2, <2>2, <2>3, <2>4, <2>5, <2>6, QuietChange
<1>5. CASE job[p].left # <<>> /\ Exists(ProfileFile(Head(job[p].left)))
  <2>1. Remove(p, ProfileFile(Head(job[p].left)), [job[p] EXCEPT !.left = Tail(@)])
    BY <1>5 DEF SubRmClears
  <2> QED BY <1>1, <1>5, <2>1, ClearKeeps
<1>6. CASE job[p].left # <<>> /\ ~Exists(ProfileFile(Head(job[p].left)))
  <2>1. PICK q, h : q = Tail(job[p].left) /\ h = Head(job[p].left)
    OBVIOUS
  <2>2. [job[p] EXCEPT !.left = Tail(@)] = [job[p] EXCEPT !.at = "clear", !.left = q]
    BY <1>2, <2>1 DEF Jobs
  <2>3. Read(p, {}, [job[p] EXCEPT !.at = "clear", !.left = q])
    BY <1>6, <2>2 DEF SubRmClears
  <2>4. /\ h \in Names /\ q \in Seq(Names) /\ Range(q) \subseteq Range(job[p].left)
        /\ Range(job[p].left) \subseteq Range(q) \cup {h}
    BY <1>2, <1>6, <2>1, Ranges
  <2>5. disk[ProfileFile(h)] = Absent
    <3>1. disk[ProfileFile(h)] \in {Absent, Torn} \cup Profs
      BY <1>2, <2>4, FileKinds DEF Disks, Holds
    <3> QED BY <3>1, <1>6, <2>1 DEF Exists, Torn, Profs
  <2>6. \A n \in Range(job[p].left) \ Range(q) : disk[ProfileFile(n)] = Absent
    BY <2>4, <2>5
  <2> QED BY <1>1, <2>3, <2>4, <2>6, PassKeeps
<1> QED BY <1>3, <1>4, <1>5, <1>6

(* k is i with the second half of a write of w to f.                       *)
Puts(i, k, f, w) ==
    /\ k.put = <<f, w>> /\ k.put # <<>> /\ k.put[1] = f /\ k.put[2] = w
    /\ k.op = i.op /\ k.n = i.n /\ k.m = i.m /\ k.s = i.s /\ k.t = i.t /\ k.id = i.id
    /\ k.at = i.at /\ k.got = i.got /\ k.list = i.list /\ k.left = i.left
    /\ k.made = i.made /\ k.raced = i.raced

LEMMA Putting ==
    ASSUME NEW i \in Jobs, NEW f \in Files, NEW w \in Values, NEW k, k = [i EXCEPT !.put = <<f, w>>]
    PROVE  k \in Jobs /\ Puts(i, k, f, w)
<1>1. <<f, w>> \in Files \X Values
  OBVIOUS
<1>2. k \in Jobs
  BY <1>1, Zenon DEF Jobs
<1> QED BY <1>2 DEF Jobs, Puts

LEMMA Saved ==
    ASSUME NEW v \in Profs
    PROVE  LET w == [v EXCEPT !.groups = SaveGroups(v)] IN
           w \in Profs /\ w.sub = v.sub /\ w.own = v.own /\ w \in Values
           /\ \A n : w \in Holds(ProfileFile(n))
<1> DEFINE w == [v EXCEPT !.groups = SaveGroups(v)]
<1>1. SaveGroups(v) \in SUBSET Subs /\ (v.sub # NoSub => v.sub \in SaveGroups(v))
  BY DEF Profs, SaveGroups
<1>2. w \in Profs /\ w.sub = v.sub /\ w.own = v.own /\ w.groups = SaveGroups(v)
  BY <1>1 DEF Profs
<1>3. \A n : ProfileFile(n)[1] = "profile"
  BY DEF ProfileFile
<1> HIDE DEF w
<1>4. \A n : w \in Holds(ProfileFile(n))
  BY <1>1, <1>2, <1>3 DEF Holds
<1> QED BY <1>2, <1>4 DEF Values, w

(* A profile is saved: its file f is truncated.                            *)
LEMMA SaveKeeps ==
    ASSUME Inv, NEW p \in Procs, job[p] # Idle, job[p].put = <<>>, NEW x \in Names, NEW f,
           f = ProfileFile(x), NEW w, NEW k \in Jobs, Change(p, f, Torn, k), UNCHANGED quiet,
           k.put # <<>>, k.put[1] = f, k.put[2] = w, k.id = job[p].id, k.raced = job[p].raced,
           ~Carries(k), Apt(k), Half(k), Knows([disk EXCEPT ![f] = Torn], k, k.raced \ {f}),
           \A n \in Names, s \in Subs : n # x /\ Cares(job[p], n, s) => Cares(k, n, s),
           \A s \in Subs : w.sub = s /\ SubFile(s) \notin k.raced
               => Cared(p, k, x, s) \/ x \in Range(ListIn(disk, s))
    PROVE  Inv'
<1>1. f \in Files /\ f # StatusFile /\ \A s : f # SubFile(s)
  BY FileKinds
<1>2. ~Gone(k) /\ ~Loaded(Torn)
  BY DEF Gone, Loaded, Torn
<1>3. ASSUME NEW n \in Names, NEW s \in Subs PROVE Answers(p, f, Torn, k, n, s)
  <2>1. f = ProfileFile(n) <=> n = x
    BY FileKinds
  <2>2. SubFile(s) \notin k.raced \ {f} => SubFile(s) \notin k.raced
    BY <1>1
  <2> QED BY <1>1, <1>2, <2>1, <2>2 DEF Answers, Cared
<1> QED BY <1>1, <1>3, QuietChange

LEMMA SaveGotKeeps ==
    ASSUME Inv, NEW p \in Procs, SaveGot(p) PROVE Inv'
<1>1. /\ job[p] # Idle /\ job[p].op \in {"add", "edit", "regroup", "import"} /\ job[p].at = "save"
      /\ job[p].put = <<>> /\ job[p] \in Jobs /\ disk \in Disks /\ Apt(job[p])
      /\ job[p].n \in Names /\ Knows(disk, job[p], job[p].raced) /\ \A n, s : ~Cares(job[p], n, s)
  BY NameAt DEF SaveGot, NameOps
<1>2. PICK x, v, f : x = job[p].n /\ v = job[p].got /\ f = ProfileFile(x)
  OBVIOUS
<1>3. v \in Profs /\ x \in Names /\ f \in Files
  BY <1>1, <1>2, FileKinds DEF Apt
<1>4. PICK w : w = [v EXCEPT !.groups = SaveGroups(v)]
  OBVIOUS
<1>5. w \in Profs /\ w.sub = v.sub /\ w \in Values /\ w \in Holds(f)
  BY <1>2, <1>3, <1>4, Saved
<1>6. PICK i : i = [job[p] EXCEPT !.at = "end"]
  OBVIOUS
<1>7. i \in Jobs /\ Kept(job[p], i) /\ i.at = "end" /\ i.n = x
  <2>1. i \in Jobs
    BY <1>1, <1>6, Zenon DEF Jobs, Places
  <2> QED BY <1>1, <1>2, <1>6, <2>1 DEF Jobs, Kept
<1>8. PICK k : k = [i EXCEPT !.put = <<f, w>>]
  OBVIOUS
<1>9. /\ k \in Jobs /\ k.put # <<>> /\ k.put[1] = f /\ k.put[2] = w /\ k.op = i.op
      /\ k.n = i.n /\ k.id = i.id /\ k.at = i.at /\ k.raced = i.raced
  <2>1. k \in Jobs /\ Puts(i, k, f, w)
    BY <1>3, <1>5, <1>7, <1>8, Putting, Zenon
  <2> QED BY <2>1 DEF Puts
<1>10. /\ k.op \in {"add", "edit", "regroup", "import"} /\ k.id = job[p].id /\ k.raced = job[p].raced
       /\ k.at = "end" /\ k.n = x
  BY <1>1, <1>7, <1>9 DEF Kept
<1>11. Change(p, f, Torn, k) /\ UNCHANGED quiet
  BY <1>2, <1>4, <1>6, <1>8 DEF SaveGot, saveProfile, Write
<1>12. ~Carries(k) /\ Apt(k)
  BY <1>3, <1>10 DEF Carries, Apt, NameOps, SubOps
<1>13. Half(k)
  BY <1>2, <1>5, <1>9, <1>10, FileKinds DEF Half
<1>14. Knows([disk EXCEPT ![f] = Torn], k, k.raced \ {f})
  <2>1. [disk EXCEPT ![f] = Torn][f] = Torn
    BY <1>1, <1>3 DEF Disks
  <2> QED BY <2>1, <1>9, <1>10 DEF Knows, KnowsHalf, KnowsOne, KnowsMv, KnowsList, KnowsSubMv
<1>15. ASSUME NEW s \in Subs, w.sub = s
       PROVE  Cared(p, k, x, s) \/ x \in Range(ListIn(disk, s))
  <2>1. s # NoSub /\ v.sub = s /\ Owner(w) = {SubFile(s)}
    BY <1>5, <1>15, ProfilesAssumption DEF Owner, Profs
  <2>2. job[p].op \in {"edit", "regroup"}
    BY <1>1, <1>2, <2>1 DEF Apt
  <2>3. w = IF Torn = Torn THEN k.put[2] ELSE Torn
    BY <1>9
  <2>4. CASE f \in job[p].raced
    <3>1. f \in Basis(job[p], f, w)
      BY DEF Basis
    <3>2. SubFile(s) \in spoilt'
      BY <1>11, <2>1, <2>3, <2>4, <3>1, SpoilsRaced
    <3> QED BY <3>2 DEF Cared
  <2>5. CASE f \notin job[p].raced
    <3>1. Stored(disk, x, s)
      BY <1>1, <1>2, <2>1, <2>2, <2>5 DEF Knows, KnowsOne, Same, Stored
    <3>2. spoilt \subseteq spoilt'
      BY <1>11, <2>3, SpoilsRaced
    <3> QED BY <1>1, <1>3, <3>1, <3>2, StillEvident DEF Wanted
  <2> QED BY <2>4, <2>5
<1> QED BY <1>1, <1>2, <1>3, <1>9, <1>10, <1>11, <1>12, <1>13, <1>14, <1>15, SaveKeeps

LEMMA MvSavesKeeps ==
    ASSUME Inv, NEW p \in Procs, MvSaves(p) PROVE Inv'
<1>1. /\ job[p] # Idle /\ job[p].op = "mv" /\ job[p].at = "save"
      /\ job[p].put = <<>> /\ job[p] \in Jobs /\ disk \in Disks /\ Apt(job[p])
      /\ job[p].n \in Names /\ Knows(disk, job[p], job[p].raced) /\ \A n, s : ~Cares(job[p], n, s)
  BY NameAt DEF MvSaves, NameOps
<1>2. PICK x, v, f : x = job[p].m /\ v = job[p].got /\ f = ProfileFile(x)
  OBVIOUS
<1>3. v \in Profs /\ x \in Names /\ x # job[p].n /\ f \in Files
  BY <1>1, <1>2, FileKinds DEF Apt
<1>4. PICK w : w = [v EXCEPT !.groups = SaveGroups(v)]
  OBVIOUS
<1>5. w \in Profs /\ w.sub = v.sub /\ w.own = v.own /\ w \in Values /\ w \in Holds(f)
  BY <1>2, <1>3, <1>4, Saved
<1>6. PICK i : i = [job[p] EXCEPT !.at = "remove"]
  OBVIOUS
<1>7. i \in Jobs /\ Kept(job[p], i) /\ i.at = "remove" /\ i.n = job[p].n /\ i.got = v
  <2>1. i \in Jobs
    BY <1>1, <1>6, Zenon DEF Jobs, Places
  <2> QED BY <1>1, <1>2, <1>6, <2>1 DEF Jobs, Kept
<1>8. PICK k : k = [i EXCEPT !.put = <<f, w>>]
  OBVIOUS
<1>9. /\ k \in Jobs /\ k.put # <<>> /\ k.put[1] = f /\ k.put[2] = w /\ k.op = i.op /\ k.m = i.m
      /\ k.n = i.n /\ k.id = i.id /\ k.at = i.at /\ k.raced = i.raced /\ k.got = i.got
  <2>1. k \in Jobs /\ Puts(i, k, f, w)
    BY <1>3, <1>5, <1>7, <1>8, Putting, Zenon
  <2> QED BY <2>1 DEF Puts
<1>10. /\ k.op = "mv" /\ k.id = job[p].id /\ k.raced = job[p].raced
       /\ k.at = "remove" /\ k.n = job[p].n /\ k.m = x /\ k.got = v
  BY <1>1, <1>2, <1>7, <1>9 DEF Kept
<1>11. Change(p, f, Torn, k) /\ UNCHANGED quiet
  BY <1>2, <1>4, <1>6, <1>8 DEF MvSaves, saveProfile, Write
<1>12. ~Carries(k) /\ Apt(k)
  BY <1>1, <1>3, <1>10 DEF Carries, Apt, NameOps, SubOps
<1>13. Half(k)
  BY <1>2, <1>5, <1>9, <1>10, FileKinds DEF Half
<1>14. Knows([disk EXCEPT ![f] = Torn], k, k.raced \ {f})
  <2>1. PICK e : e = [disk EXCEPT ![f] = Torn]
    OBVIOUS
  <2>2. ProfileFile(k.n) # f /\ ProfileFile(k.n) \in Files
    BY <1>1, <1>2, <1>3, <1>10, FileKinds
  <2>3. e[f] = Torn /\ e[ProfileFile(k.n)] = disk[ProfileFile(k.n)]
    BY <1>1, <1>3, <2>1, <2>2 DEF Disks
  <2>4. ProfileFile(k.n) \notin k.raced => Same(disk[ProfileFile(k.n)], v)
    BY <1>1, <1>2, <1>10 DEF Knows, KnowsMv
  <2>5. KnowsMv(e, k, k.raced \ {f})
    BY <1>9, <1>10, <2>2, <2>3, <2>4 DEF KnowsMv
  <2>6. Knows(e, k, k.raced \ {f})
    BY <2>3, <2>5, <1>9, <1>10 DEF Knows, KnowsHalf, KnowsOne, KnowsList, KnowsSubMv
  <2> QED BY <2>1, <2>6
<1>15. ASSUME NEW s \in Subs, w.sub = s
       PROVE  Cared(p, k, x, s) \/ x \in Range(ListIn(disk, s))
  <2>1. s # NoSub /\ v.sub = s /\ Owner(w) = {SubFile(s)}
    BY <1>5, <1>15, ProfilesAssumption DEF Owner, Profs
  <2>2. ProfileFile(job[p].n) \in job[p].raced
    BY <1>1, <1>2, <2>1 DEF Knows, KnowsMv
  <2>3. w = IF Torn = Torn THEN k.put[2] ELSE Torn
    BY <1>9
  <2>4. ProfileFile(job[p].n) \in Basis(job[p], f, w)
    BY <1>1 DEF Basis
  <2>5. SubFile(s) \in spoilt'
    BY <1>11, <2>1, <2>2, <2>3, <2>4, SpoilsRaced
  <2> QED BY <2>5 DEF Cared
<1> QED BY <1>1, <1>2, <1>3, <1>9, <1>10, <1>11, <1>12, <1>13, <1>14, <1>15, SaveKeeps

LEMMA ApplySavesKeeps ==
    ASSUME Inv, NEW p \in Procs, ApplySaves(p) PROVE Inv'
<1>1. /\ job[p] # Idle /\ job[p].op = "apply" /\ job[p].at = "save" /\ job[p].put = <<>>
      /\ job[p] \in Jobs /\ Apt(job[p]) /\ disk \in Disks /\ job[p].s \in Subs
      /\ Knows(disk, job[p], job[p].raced)
  BY SubAt DEF ApplySaves, SubOps
<1>2. PICK x, v, f : x = job[p].n /\ v = Profile(job[p].s, {}, 0) /\ f = ProfileFile(x)
  OBVIOUS
<1>3. v \in Profs /\ v.sub = job[p].s /\ x \in Names /\ f \in Files
  BY <1>1, <1>2, FileKinds, ProfilesAssumption DEF Apt, Profs, Profile
<1>4. PICK w : w = [v EXCEPT !.groups = SaveGroups(v)]
  OBVIOUS
<1>5. w \in Profs /\ w.sub = job[p].s /\ w \in Values /\ w \in Holds(f)
  BY <1>2, <1>3, <1>4, Saved
<1>6. PICK made, i : made = Append(job[p].made, x) /\ i = [job[p] EXCEPT !.at = "pick", !.made = made]
  OBVIOUS
<1>7. made \in Seq(Names) /\ Range(made) = Range(job[p].made) \cup {x}
  <2>1. job[p].made \in Seq(Names)
    BY <1>1 DEF Jobs
  <2> QED BY <1>3, <1>6, <2>1, Ranges
<1>8. /\ i \in Jobs /\ Kept(job[p], i) /\ i.at = "pick" /\ i.made = made /\ i.list = job[p].list
      /\ i.left = job[p].left
  <2>1. made \in Seq(Names) /\ i = [job[p] EXCEPT !.at = "pick", !.made = made]
    BY <1>6, <1>7
  <2>2. i \in Jobs
    BY <1>1, <2>1, Zenon DEF Jobs, Places
  <2> QED BY <1>1, <2>1, <2>2 DEF Jobs, Kept
<1>9. PICK k : k = [i EXCEPT !.put = <<f, w>>]
  OBVIOUS
<1>10. /\ k \in Jobs /\ k.put # <<>> /\ k.put[1] = f /\ k.put[2] = w /\ k.op = i.op /\ k.s = i.s
       /\ k.id = i.id /\ k.at = i.at /\ k.raced = i.raced /\ k.made = i.made
       /\ k.list = i.list /\ k.left = i.left
  <2>1. k \in Jobs /\ Puts(i, k, f, w)
    BY <1>3, <1>5, <1>8, <1>9, Putting, Zenon
  <2> QED BY <2>1 DEF Puts
<1>11. /\ k.op = "apply" /\ k.s = job[p].s /\ k.id = job[p].id /\ k.raced = job[p].raced
       /\ k.at = "pick" /\ k.made = made /\ k.list = job[p].list /\ k.left = job[p].left
  BY <1>1, <1>8, <1>10 DEF Kept
<1>12. Change(p, f, Torn, k) /\ UNCHANGED quiet
  BY <1>2, <1>4, <1>6, <1>9 DEF ApplySaves, saveProfile, Write, subscriptionEntryToProfile
<1>13. ~Carries(k) /\ Apt(k)
  BY <1>1, <1>11 DEF Carries, Apt, NameOps, SubOps
<1>14. Half(k)
  BY <1>2, <1>5, <1>7, <1>10, <1>11, FileKinds DEF Half
<1>15. Knows([disk EXCEPT ![f] = Torn], k, k.raced \ {f})
  <2>1. PICK e : e = [disk EXCEPT ![f] = Torn]
    OBVIOUS
  <2>2. e[f] = Torn /\ \A g \in Files : g # f => e[g] = disk[g]
    BY <1>1, <1>3, <2>1 DEF Disks
  <2>3. KnowsList(disk, job[p], job[p].raced) /\ Cleared(disk, job[p], job[p].raced)
    BY <1>1 DEF Knows, KnowsList
  <2>4. \A n \in Range(job[p].list) : n \in Names /\ ProfileFile(n) \in Files
    BY <1>1, Ranges, FileKinds DEF Jobs
  <2>5. Cleared(e, k, k.raced \ {f})
    <3> SUFFICES ASSUME NEW n \in Range(k.list) \ (Range(k.left) \cup Range(k.made)),
                        ProfileFile(n) \notin k.raced \ {f}
                 PROVE  e[ProfileFile(n)] = Absent
      BY DEF Cleared
    <3>1. n # x /\ n \in Range(job[p].list) \ (Range(job[p].left) \cup Range(job[p].made))
      BY <1>7, <1>11
    <3>2. ProfileFile(n) # f /\ ProfileFile(n) \in Files
      BY <3>1, <1>2, <2>4, FileKinds
    <3>3. disk[ProfileFile(n)] = Absent
      BY <1>2, <1>11, <2>3, <3>1, <3>2 DEF Cleared
    <3> QED BY <2>2, <3>2, <3>3
  <2>6. ListIn(e, k.s) = ListIn(disk, k.s) /\ SubFile(k.s) # f
    BY <1>1, <1>2, <1>11, <2>2, FileKinds DEF ListIn
  <2>7. KnowsList(e, k, k.raced \ {f})
    BY <1>1, <1>11, <2>3, <2>5, <2>6 DEF KnowsList
  <2>8. Knows(e, k, k.raced \ {f})
    BY <2>2, <2>7, <1>10, <1>11 DEF Knows, KnowsHalf, KnowsOne, KnowsMv, KnowsSubMv
  <2> QED BY <2>1, <2>8
<1>16. \A n, s : Cares(job[p], n, s) => Cares(k, n, s)
  BY <1>1, <1>7, <1>11 DEF Cares, Made, Awaited
<1>17. \A s \in Subs : w.sub = s => Cared(p, k, x, s)
  <2>1. ~Gone(k)
    BY <1>10 DEF Gone
  <2> QED BY <2>1, <1>5, <1>7, <1>11 DEF Cared, Cares, Made
<1> QED BY <1>1, <1>2, <1>3, <1>10, <1>11, <1>12, <1>13, <1>14, <1>15, <1>16, <1>17, SaveKeeps

LEMMA ListLine ==
    ASSUME NEW q \in Seq(Names), NEW s \in Subs
    PROVE  /\ Subscription(q) \in Values /\ Subscription(q) \in Holds(SubFile(s))
           /\ Lists(Subscription(q)) = Range(q)
BY FileKinds DEF Subscription, Values, Lines, Holds, Lists

LEMMA ApplyListsKeeps ==
    ASSUME Inv, NEW p \in Procs, ApplyLists(p) PROVE Inv'
<1>1. /\ job[p] # Idle /\ job[p].op = "apply" /\ job[p].at = "pick" /\ job[p].put = <<>>
      /\ job[p] \in Jobs /\ Apt(job[p]) /\ disk \in Disks /\ job[p].s \in Subs
      /\ Knows(disk, job[p], job[p].raced) /\ At(p, "apply", "pick")
  BY SubAt DEF ApplyLists, SubOps
<1>2. PICK f, w : f = SubFile(job[p].s) /\ w = Subscription(job[p].made)
  OBVIOUS
<1>3. /\ f \in Files /\ f # StatusFile /\ w \in Values /\ w \in Holds(f)
      /\ Lists(w) = Range(job[p].made)
  <2>1. job[p].made \in Seq(Names)
    BY <1>1 DEF Jobs
  <2> QED BY <1>1, <1>2, <2>1, ListLine, FileKinds
<1>4. PICK i : i = [job[p] EXCEPT !.at = "end"]
  OBVIOUS
<1>5. /\ i \in Jobs /\ Kept(job[p], i) /\ i.at = "end" /\ i.made = job[p].made
      /\ i.list = job[p].list /\ i.left = job[p].left
  <2>1. i \in Jobs
    BY <1>1, <1>4, Zenon DEF Jobs, Places
  <2> QED BY <1>1, <1>4, <2>1 DEF Jobs, Kept
<1>6. PICK k : k = [i EXCEPT !.put = <<f, w>>]
  OBVIOUS
<1>7. k \in Jobs /\ Puts(i, k, f, w)
  BY <1>3, <1>5, <1>6, Putting, Zenon
<1>8. /\ k.op = "apply" /\ k.s = job[p].s /\ k.id = job[p].id /\ k.raced = job[p].raced
      /\ k.at = "end" /\ k.made = job[p].made /\ k.list = job[p].list /\ k.left = job[p].left
      /\ k.put # <<>> /\ k.put[1] = f /\ k.put[2] = w /\ k.put = <<f, w>>
  BY <1>1, <1>5, <1>7 DEF Kept, Puts
<1>9. Change(p, f, Torn, k) /\ UNCHANGED quiet
  BY <1>2, <1>4, <1>6 DEF ApplyLists, Write, NewList
<1>10. ~Carries(k) /\ Apt(k)
  BY <1>1, <1>8 DEF Carries, Apt, NameOps, SubOps
<1>11. Half(k)
  BY <1>2, <1>3, <1>8 DEF Half
<1>12. Knows([disk EXCEPT ![f] = Torn], k, k.raced \ {f})
  <2>1. [disk EXCEPT ![f] = Torn][f] = Torn
    BY <1>1, <1>3 DEF Disks
  <2> QED BY <2>1, <1>8 DEF Knows, KnowsHalf, KnowsOne, KnowsMv, KnowsList, KnowsSubMv
<1>13. ASSUME NEW n \in Names, NEW s \in Subs PROVE Answers(p, f, Torn, k, n, s)
  <2>1. ~Gone(k) /\ ~Loaded(Torn) /\ f # ProfileFile(n)
    BY <1>2, <1>8, FileKinds DEF Gone, Loaded, Torn
  <2>2. Cares(job[p], n, s) => Cares(k, n, s)
    BY <1>1, <1>8, MadeCares
  <2>3. ASSUME f = SubFile(s), Stored(disk, n, s), n \in Range(ListIn(disk, s))
        PROVE  Cared(p, k, n, s)
    <3>1. s = job[p].s
      BY <1>2, <2>3, FileKinds
    <3>2. CASE n \in Range(job[p].made)
      BY <2>1, <3>1, <3>2, <1>8 DEF Cared, Cares, Made
    <3>3. CASE n \notin Range(job[p].made)
      <4>1. w = IF Torn = Torn THEN k.put[2] ELSE Torn
        BY <1>8
      <4>2. job[p].left = <<>> /\ n \notin Lists(w)
        BY <1>1, <1>3, <3>3 DEF Apt
      <4>3. Change(p, SubFile(job[p].s), Torn, k)
        BY <1>2, <1>9
      <4>4. SubFile(job[p].s) \in spoilt'
        BY <1>1, <2>3, <3>1, <3>3, <4>1, <4>2, <4>3, LeftOut
      <4> QED BY <3>1, <4>4 DEF Cared
    <3> QED BY <3>2, <3>3
  <2> QED BY <2>1, <2>2, <2>3, <1>8 DEF Answers, Cared
<1> QED BY <1>1, <1>3, <1>7, <1>8, <1>9, <1>10, <1>11, <1>12, <1>13, QuietChange

LEMMA SubMvSavesKeeps ==
    ASSUME Inv, NEW p \in Procs, SubMvSaves(p) PROVE Inv'
<1>1. /\ job[p] # Idle /\ job[p].op = "submv" /\ job[p].at = "save" /\ job[p].put = <<>>
      /\ job[p] \in Jobs /\ Apt(job[p]) /\ disk \in Disks /\ job[p].s \in Subs
      /\ Knows(disk, job[p], job[p].raced)
  BY SubAt DEF SubMvSaves, SubOps
<1>2. PICK f, w : f = SubFile(job[p].t) /\ w = Subscription(job[p].list)
  OBVIOUS
<1>3. job[p].t \in Subs /\ job[p].t # job[p].s /\ f \in Files /\ f # StatusFile /\ w \in Values /\ w \in Holds(f)
  <2>1. job[p].list \in Seq(Names) /\ job[p].t \in Subs /\ job[p].t # job[p].s
    BY <1>1 DEF Jobs, Apt
  <2> QED BY <1>1, <1>2, <2>1, ListLine, FileKinds
<1>4. PICK i : i = [job[p] EXCEPT !.at = "remove"]
  OBVIOUS
<1>5. /\ i \in Jobs /\ Kept(job[p], i) /\ i.at = "remove" /\ i.list = job[p].list
      /\ i.left = job[p].left
  <2>1. i \in Jobs
    BY <1>1, <1>4, Zenon DEF Jobs, Places
  <2> QED BY <1>1, <1>4, <2>1 DEF Jobs, Kept
<1>6. PICK k : k = [i EXCEPT !.put = <<f, w>>]
  OBVIOUS
<1>7. k \in Jobs /\ Puts(i, k, f, w)
  BY <1>3, <1>5, <1>6, Putting, Zenon
<1>8. /\ k.op = "submv" /\ k.s = job[p].s /\ k.t = job[p].t /\ k.id = job[p].id
      /\ k.raced = job[p].raced /\ k.at = "remove" /\ k.list = job[p].list /\ k.left = job[p].left
      /\ k.put # <<>> /\ k.put[1] = f /\ k.put[2] = w /\ k.put = <<f, w>>
  BY <1>1, <1>5, <1>7 DEF Kept, Puts
<1>9. Change(p, f, Torn, k) /\ UNCHANGED quiet
  BY <1>2, <1>4, <1>6 DEF SubMvSaves, Write
<1>10. ~Carries(k) /\ Apt(k)
  BY <1>1, <1>8 DEF Carries, Apt, NameOps, SubOps
<1>11. Half(k)
  BY <1>2, <1>3, <1>8 DEF Half
<1>12. Knows([disk EXCEPT ![f] = Torn], k, k.raced \ {f})
  <2>1. PICK e : e = [disk EXCEPT ![f] = Torn]
    OBVIOUS
  <2>2. e[f] = Torn /\ \A g \in Files : g # f => e[g] = disk[g]
    BY <1>1, <1>3, <2>1 DEF Disks
  <2>3. SubFile(k.s) # f /\ ListIn(e, k.s) = ListIn(disk, k.s)
    BY <1>1, <1>2, <1>3, <1>8, <2>2, FileKinds DEF ListIn
  <2>4. KnowsSubMv(e, k, k.raced \ {f})
    BY <1>1, <1>8, <2>3 DEF Knows, KnowsSubMv
  <2>5. Knows(e, k, k.raced \ {f})
    BY <2>2, <2>4, <1>8 DEF Knows, KnowsHalf, KnowsOne, KnowsMv, KnowsList
  <2> QED BY <2>1, <2>5
<1>13. ASSUME NEW n \in Names, NEW s \in Subs PROVE Answers(p, f, Torn, k, n, s)
  <2>1. ~Gone(k) /\ ~Loaded(Torn) /\ f # ProfileFile(n)
    BY <1>2, <1>8, FileKinds DEF Gone, Loaded, Torn
  <2>2. ~Cares(job[p], n, s)
    BY <1>1, MadeCares
  <2>3. ASSUME f = SubFile(s), n \in Range(ListIn(disk, s))
        PROVE  SubFile(s) \in spoilt'
    <3>1. w = IF Torn = Torn THEN k.put[2] ELSE Torn
      BY <1>8
    <3>2. f \in job[p].raced
      <4>1. f \notin job[p].raced => disk[f] = Absent
        BY <1>1, <1>2 DEF Knows, KnowsSubMv
      <4>2. disk[f] = Absent => ListIn(disk, s) = <<>>
        BY <2>3 DEF ListIn, Loaded, Absent
      <4> QED BY <4>1, <4>2, <2>3, Ranges
    <3>3. f \in Basis(job[p], f, w)
      BY DEF Basis
    <3> QED BY <1>9, <2>3, <3>1, <3>2, <3>3, SpoilsRaced
  <2> QED BY <2>1, <2>2, <2>3, <1>8 DEF Answers, Cared
<1> QED BY <1>1, <1>3, <1>7, <1>8, <1>9, <1>10, <1>11, <1>12, <1>13, QuietChange

LEMMA SubMvRemovesKeeps ==
    ASSUME Inv, NEW p \in Procs, SubMvRemoves(p) PROVE Inv'
<1>1. /\ job[p] # Idle /\ job[p].op = "submv" /\ job[p].at = "remove" /\ job[p].put = <<>>
      /\ job[p] \in Jobs /\ Apt(job[p]) /\ disk \in Disks /\ job[p].s \in Subs
      /\ Knows(disk, job[p], job[p].raced) /\ UNCHANGED quiet
  BY SubAt DEF SubMvRemoves, SubOps
<1>2. \A n, s : ~Cares(job[p], n, s)
  BY <1>1, MadeCares
<1>3. CASE Leave(p)
  BY <1>1, <1>2, <1>3, QuietLeave
<1>4. CASE ~Leave(p)
  <2>1. PICK j, f, v : j = [job[p] EXCEPT !.at = "load"] /\ f = SubFile(job[p].s) /\ v = Absent
    OBVIOUS
  <2>2. /\ j \in Jobs /\ Kept(job[p], j) /\ j.at = "load" /\ j.list = job[p].list
        /\ j.left = job[p].left
    <3>1. j \in Jobs
      BY <1>1, <2>1, Zenon DEF Jobs, Places
    <3> QED BY <1>1, <2>1, <3>1 DEF Jobs, Kept
  <2>3. /\ j.op = "submv" /\ j.put = <<>> /\ j.id = job[p].id /\ j.raced = job[p].raced
        /\ j.s = job[p].s /\ j.t = job[p].t /\ ~Gone(j)
    BY <1>1, <2>2 DEF Kept, Gone
  <2>4. Change(p, f, v, j) /\ ~Carries(j)
    BY <1>4, <2>1, <2>3 DEF SubMvRemoves, Remove, Carries
  <2>5. f \in Files /\ f # StatusFile /\ v \in {Absent, Torn} /\ v # Torn
    BY <1>1, <2>1, FileKinds DEF Absent, Torn
  <2>6. Apt(j) /\ Half(j)
    BY <1>1, <2>2, <2>3 DEF Apt, NameOps, Half
  <2>7. Knows([disk EXCEPT ![f] = v], j, j.raced \ {f})
    <3>1. PICK e : e = [disk EXCEPT ![f] = v]
      OBVIOUS
    <3>2. \A g \in Files : g # f => e[g] = disk[g]
      BY <1>1, <3>1 DEF Disks
    <3>3. SubFile(j.t) # f /\ ListIn(e, j.t) = ListIn(disk, j.t)
      BY <1>1, <2>1, <2>3, <3>2, FileKinds DEF ListIn, Apt
    <3>4. KnowsSubMv(e, j, j.raced \ {f})
      BY <1>1, <2>2, <2>3, <3>3 DEF Knows, KnowsSubMv
    <3>5. Knows(e, j, j.raced \ {f})
      BY <3>4, <2>3 DEF Knows, KnowsHalf, KnowsOne, KnowsMv, KnowsList
    <3> QED BY <3>1, <3>5
  <2>8. ASSUME NEW n \in Names, NEW s \in Subs PROVE Answers(p, f, v, j, n, s)
    <3>1. ~Loaded(v)
      BY <2>1 DEF Loaded, Absent
    <3>2. ASSUME f = SubFile(s), n \in Range(ListIn(disk, s))
          PROVE  Cared(p, j, n, s)
      <4>1. s = job[p].s
        BY <3>2, <2>1, FileKinds
      <4>2. CASE f \in job[p].raced
        <5>1. v = IF v = Torn THEN j.put[2] ELSE v
          BY <2>5
        <5>2. f \in Basis(job[p], f, v)
          BY DEF Basis
        <5>3. f \in spoilt'
          BY <2>4, <4>2, <5>1, <5>2, SpoilsRaced
        <5> QED BY <5>3, <3>2 DEF Cared
      <4>3. CASE f \notin job[p].raced
        <5>1. job[p].list = ListIn(disk, s) /\ job[p].left = job[p].list
          BY <1>1, <2>1, <4>1, <4>3 DEF Knows, KnowsSubMv, Apt
        <5> QED BY <5>1, <4>1, <2>2, <2>3, <3>2 DEF Cared, Cares, Awaited
      <4> QED BY <4>2, <4>3
    <3> QED BY <1>2, <2>3, <3>1, <3>2 DEF Answers
  <2> QED BY <1>1, <2>2, <2>3, <2>4, <2>5, <2>6, <2>7, <2>8, QuietChange
<1> QED BY <1>3, <1>4

LEMMA SubMvSavesNextKeeps ==
    ASSUME Inv, NEW p \in Procs, SubMvSavesNext(p) PROVE Inv'
<1>1. /\ job[p] # Idle /\ job[p].op = "submv" /\ job[p].at = "rehome" /\ job[p].put = <<>>
      /\ job[p] \in Jobs /\ Apt(job[p]) /\ disk \in Disks /\ job[p].s \in Subs
      /\ Knows(disk, job[p], job[p].raced)
  BY SubAt DEF SubMvSavesNext, SubOps
<1>2. PICK x, v, f, q : /\ x = Head(job[p].left) /\ v = job[p].got /\ f = ProfileFile(x)
                        /\ q = Tail(job[p].left)
  OBVIOUS
<1>3. /\ x \in Names /\ q \in Seq(Names) /\ Range(q) \subseteq Range(job[p].left)
      /\ Range(job[p].left) \subseteq Range(q) \cup {x} /\ x \in Range(job[p].left)
  <2>1. job[p].left \in Seq(Names) /\ job[p].left # <<>>
    BY <1>1 DEF Jobs, Apt
  <2> QED BY <1>2, <2>1, Ranges
<1>4. v \in Profs /\ v.sub = job[p].t /\ job[p].t \in Subs /\ f \in Files
      /\ Range(job[p].left) \subseteq Range(job[p].list)
  BY <1>1, <1>2, <1>3, FileKinds DEF Apt, SubOps
<1>5. PICK w : w = [v EXCEPT !.groups = SaveGroups(v)]
  OBVIOUS
<1>6. w \in Profs /\ w.sub = job[p].t /\ w \in Values /\ w \in Holds(f)
  BY <1>2, <1>4, <1>5, Saved
<1>7. PICK i : i = [job[p] EXCEPT !.at = "load", !.left = q]
  OBVIOUS
<1>8. /\ i \in Jobs /\ Kept(job[p], i) /\ i.at = "load" /\ i.list = job[p].list /\ i.left = q
  <2>1. i \in Jobs
    BY <1>1, <1>3, <1>7, Zenon DEF Jobs, Places
  <2> QED BY <1>1, <1>7, <2>1 DEF Jobs, Kept
<1>9. PICK k : k = [i EXCEPT !.put = <<f, w>>]
  OBVIOUS
<1>10. k \in Jobs /\ Puts(i, k, f, w)
  BY <1>4, <1>6, <1>8, <1>9, Putting, Zenon
<1>11. /\ k.op = "submv" /\ k.s = job[p].s /\ k.t = job[p].t /\ k.id = job[p].id
       /\ k.raced = job[p].raced /\ k.at = "load" /\ k.list = job[p].list /\ k.left = q
       /\ k.put # <<>> /\ k.put[1] = f /\ k.put[2] = w
  BY <1>1, <1>8, <1>10 DEF Kept, Puts
<1>12. Change(p, f, Torn, k) /\ UNCHANGED quiet
  BY <1>2, <1>5, <1>7, <1>9 DEF SubMvSavesNext, saveProfile, Write
<1>13. ~Carries(k) /\ Apt(k)
  BY <1>1, <1>3, <1>4, <1>11 DEF Carries, Apt, NameOps, SubOps
<1>14. Half(k)
  BY <1>2, <1>3, <1>6, <1>11, FileKinds DEF Half
<1>15. SubFile(k.t) \notin k.raced => k.list = ListIn(disk, k.t)
  BY <1>1, <1>11 DEF Knows, KnowsSubMv
<1>16. Knows([disk EXCEPT ![f] = Torn], k, k.raced \ {f})
  <2>1. PICK e : e = [disk EXCEPT ![f] = Torn]
    OBVIOUS
  <2>2. e[f] = Torn /\ \A g \in Files : g # f => e[g] = disk[g]
    BY <1>1, <1>4, <2>1 DEF Disks
  <2>3. SubFile(k.t) # f /\ ListIn(e, k.t) = ListIn(disk, k.t)
    BY <1>2, <1>4, <1>11, <2>2, FileKinds DEF ListIn
  <2>4. KnowsSubMv(e, k, k.raced \ {f})
    BY <1>11, <1>15, <2>3 DEF KnowsSubMv
  <2>5. Knows(e, k, k.raced \ {f})
    BY <2>2, <2>4, <1>11 DEF Knows, KnowsHalf, KnowsOne, KnowsMv, KnowsList
  <2> QED BY <2>1, <2>5
<1>17. \A n, s : n # x /\ Cares(job[p], n, s) => Cares(k, n, s)
  BY <1>1, <1>3, <1>11 DEF Cares, Made, Awaited
<1>18. \A s \in Subs : w.sub = s /\ SubFile(s) \notin k.raced => x \in Range(ListIn(disk, s))
  BY <1>3, <1>4, <1>6, <1>11, <1>15
<1> QED BY <1>1, <1>2, <1>3, <1>10, <1>11, <1>12, <1>13, <1>14, <1>16, <1>17, <1>18, SaveKeeps

(* status.json is truncated.                                               *)
LEMMA StatusSaveKeeps ==
    ASSUME Inv, NEW p \in Procs, job[p] # Idle, job[p].put = <<>>, NEW k \in Jobs,
           Change(p, StatusFile, Torn, k), running' = running, issued' = issued,
           pointer' = pointer, told' \in [Names -> Words],
           k.put # <<>>, k.put[1] = StatusFile, k.id = job[p].id,
           k.raced = job[p].raced, k.got = job[p].got, Apt(k), Half(k),
           Knows([disk EXCEPT ![StatusFile] = Torn], k, k.raced \ {StatusFile}),
           \A n, s : ~Cares(job[p], n, s), Carries(job[p]),
           Saying(k, told') = Saying(job[p], told)
    PROVE  Inv'
<1>1. StatusFile \in Files /\ ~Gone(k) /\ ~Loaded(Torn) /\ Fit(k)
  BY FileKinds DEF Gone, Loaded, Torn, Fit
<1>2. \A n \in Names, s \in Subs : Answers(p, StatusFile, Torn, k, n, s)
  BY <1>1, FileKinds DEF Answers
<1>3. Typing' /\ Informed' /\ Accounted(disk, job, spoilt)'
  BY <1>1, <1>2, ChangeKeeps
<1>4. PICK l : /\ l \in Jobs \cup {Idle} /\ job' = Overtaken(job, p, StatusFile, l)
               /\ ~Gone(k) => l \in Jobs /\ Alike(k, l)
  BY ChangeShape
<1>5. l \in Jobs /\ Writes(l) /\ l.got = job[p].got /\ Saying(l, told') = Saying(job[p], told)
  <2>1. l \in Jobs /\ Alike(k, l)
    BY <1>1, <1>4
  <2>2. Writes(k)
    BY JobIsNotIdle DEF Writes
  <2>3. l.got = k.got
    BY <2>1 DEF Alike
  <2> QED BY <2>1, <2>2, <2>3, AlikeRest
<1>6. spoilt \subseteq spoilt' /\ (StatusFile \in job[p].raced => StatusFile \in spoilt')
  <2>1. PICK w : w = IF Torn = Torn THEN k.put[2] ELSE Torn
    OBVIOUS
  <2>2. StatusFile \in Basis(job[p], StatusFile, w)
    BY DEF Basis
  <2> QED BY <2>1, <2>2, SpoilsRaced
<1>7. PICK ls, sp2, td2, e : ls = job' /\ sp2 = spoilt' /\ td2 = told' /\ e = disk'
  OBVIOUS
<1>8. /\ ls = Overtaken(job, p, StatusFile, l) /\ spoilt \subseteq sp2
      /\ StatusFile \in job[p].raced => StatusFile \in sp2
  BY <1>4, <1>6, <1>7
<1>9. Saying(l, td2) = Saying(job[p], told) /\ job \in [Procs -> Jobs \cup {Idle}] /\ Truthful(disk, job, spoilt, told)
  BY <1>5, <1>7 DEF Inv, Typing
<1>10. Truthful(e, ls, sp2, td2)
  BY <1>5, <1>8, <1>9, TrueTruncate
<1> QED BY <1>3, <1>7, <1>10 DEF Inv

LEMMA FlagSavesKeeps ==
    ASSUME Inv, NEW p \in Procs, FlagSaves(p) PROVE Inv'
<1>1. /\ job[p] # Idle /\ job[p].op \in {"enable", "disable"} /\ job[p].at = "save"
      /\ job[p].put = <<>> /\ job[p] \in Jobs /\ disk \in Disks /\ Apt(job[p])
      /\ job[p].n \in Names /\ \A n, s : ~Cares(job[p], n, s)
  BY NameAt DEF FlagSaves, NameOps
<1>2. PICK w, f : w = job[p].got /\ f = StatusFile
  OBVIOUS
<1>3. w \in Flags /\ w \in Values /\ w \in Holds(f) /\ f \in Files
  BY <1>1, <1>2, FileKinds DEF Apt, Values, Holds
<1>4. PICK i : i = [job[p] EXCEPT !.at = "end"]
  OBVIOUS
<1>5. i \in Jobs /\ Kept(job[p], i) /\ i.at = "end" /\ i.n = job[p].n /\ i.got = w
  <2>1. i \in Jobs
    BY <1>1, <1>4, Zenon DEF Jobs, Places
  <2> QED BY <1>1, <1>2, <1>4, <2>1 DEF Jobs, Kept
<1>6. PICK k : k = [i EXCEPT !.put = <<f, w>>]
  OBVIOUS
<1>7. k \in Jobs /\ Puts(i, k, f, w)
  BY <1>3, <1>5, <1>6, Putting, Zenon
<1>8. /\ k.op = job[p].op /\ k.id = job[p].id /\ k.raced = job[p].raced /\ k.at = "end"
      /\ k.n = job[p].n /\ k.got = w /\ k.put # <<>> /\ k.put[1] = f /\ k.put[2] = w
  BY <1>5, <1>7 DEF Kept, Puts
<1>9. Change(p, f, Torn, k) /\ UNCHANGED quiet
  BY <1>2, <1>4, <1>6 DEF FlagSaves, Write
<1>10. Apt(k) /\ Half(k)
  BY <1>1, <1>2, <1>3, <1>8 DEF Apt, NameOps, SubOps, Half
<1>11. Knows([disk EXCEPT ![f] = Torn], k, k.raced \ {f})
  <2>1. [disk EXCEPT ![f] = Torn][f] = Torn
    BY <1>1, <1>3 DEF Disks
  <2> QED BY <1>1, <2>1, <1>8 DEF Knows, KnowsHalf, KnowsOne, KnowsMv, KnowsList, KnowsSubMv
<1>12. /\ running' = running /\ issued' = issued /\ told' = told /\ pointer' = pointer
       /\ told' \in [Names -> Words]
  BY <1>9 DEF quiet, Inv, Typing
<1>13. Carries(job[p]) /\ Saying(k, told') = Saying(job[p], told)
  BY <1>1, <1>8, <1>12 DEF Carries, Saying
<1> QED BY <1>1, <1>2, <1>7, <1>8, <1>9, <1>10, <1>11, <1>12, <1>13, StatusSaveKeeps

LEMMA MvSavesStatusKeeps ==
    ASSUME Inv, NEW p \in Procs, MvSavesStatus(p) PROVE Inv'
<1>1. /\ job[p] # Idle /\ job[p].op = "mv" /\ job[p].at = "flag"
      /\ job[p].put = <<>> /\ job[p] \in Jobs /\ disk \in Disks /\ Apt(job[p])
      /\ job[p].n \in Names /\ \A n, s : ~Cares(job[p], n, s)
  BY NameAt DEF MvSavesStatus, NameOps
<1>2. PICK w, f : w = job[p].got /\ f = StatusFile
  OBVIOUS
<1>3. w \in Flags /\ w \in Values /\ w \in Holds(f) /\ f \in Files /\ job[p].m \in Names
  BY <1>1, <1>2, FileKinds DEF Apt, Values, Holds
<1>4. PICK i : i = [job[p] EXCEPT !.at = "pointers"]
  OBVIOUS
<1>5. i \in Jobs /\ Kept(job[p], i) /\ i.at = "pointers" /\ i.n = job[p].n /\ i.got = w
  <2>1. i \in Jobs
    BY <1>1, <1>4, Zenon DEF Jobs, Places
  <2> QED BY <1>1, <1>2, <1>4, <2>1 DEF Jobs, Kept
<1>6. PICK k : k = [i EXCEPT !.put = <<f, w>>]
  OBVIOUS
<1>7. k \in Jobs /\ Puts(i, k, f, w)
  BY <1>3, <1>5, <1>6, Putting, Zenon
<1>8. /\ k.op = "mv" /\ k.id = job[p].id /\ k.raced = job[p].raced /\ k.at = "pointers"
      /\ k.n = job[p].n /\ k.m = job[p].m /\ k.got = w /\ k.put # <<>> /\ k.put[1] = f /\ k.put[2] = w
  BY <1>1, <1>5, <1>7 DEF Kept, Puts
<1>9. Change(p, f, Torn, k) /\ running' = running /\ issued' = issued /\ pointer' = pointer
  BY <1>2, <1>4, <1>6 DEF MvSavesStatus, Write
<1>10. Apt(k) /\ Half(k)
  BY <1>1, <1>2, <1>3, <1>8 DEF Apt, NameOps, SubOps, Half
<1>11. Knows([disk EXCEPT ![f] = Torn], k, k.raced \ {f})
  <2>1. [disk EXCEPT ![f] = Torn][f] = Torn
    BY <1>1, <1>3 DEF Disks
  <2> QED BY <2>1, <1>8 DEF Knows, KnowsHalf, KnowsOne, KnowsMv, KnowsList, KnowsSubMv
<1>12. /\ told' = [told EXCEPT ![job[p].m] = told[job[p].n], ![job[p].n] = "on"]
       /\ told' \in [Names -> Words]
  <2>1. told \in [Names -> Words]
    BY DEF Inv, Typing
  <2> QED BY <2>1, <1>1, <1>3 DEF MvSavesStatus, Words
<1>13. Carries(job[p]) /\ Saying(k, told') = Saying(job[p], told)
  <2>1. Saying(k, told') = told'
    BY <1>8 DEF Saying
  <2>2. Saying(job[p], told) = [told EXCEPT ![job[p].m] = told[job[p].n], ![job[p].n] = "on"]
    BY <1>1 DEF Saying
  <2> QED BY <1>1, <1>12, <2>1, <2>2 DEF Carries
<1> QED BY <1>1, <1>2, <1>7, <1>8, <1>9, <1>10, <1>11, <1>12, <1>13, StatusSaveKeeps

(* The second half of a write.                                             *)
LEMMA FlushKnows ==
    ASSUME NEW d \in Disks, NEW i \in Jobs, Apt(i), Half(i), i.put # <<>>, Knows(d, i, i.raced),
           NEW k \in Jobs, Kept([i EXCEPT !.put = <<>>], k), k.at = i.at, k.n = i.n,
           k.got = i.got, k.list = i.list, k.left = i.left, k.made = i.made, ~Gone(k),
           NEW f, NEW v, f = i.put[1], v = i.put[2], NEW e, e = [d EXCEPT ![f] = v]
    PROVE  Knows(e, k, i.raced \ {f})
<1>1. k.op = i.op /\ k.m = i.m /\ k.s = i.s /\ k.t = i.t /\ k.put = <<>> /\ k.raced = i.raced
  BY DEF Kept, Jobs
<1>2. f \in Files /\ e[f] = v /\ (\A g \in Files : g # f => e[g] = d[g])
  BY DEF Jobs, Disks
<1>3. KnowsHalf(e, k, i.raced \ {f})
  BY <1>1 DEF KnowsHalf
<1>4. KnowsOne(e, k, i.raced \ {f})
  BY <1>1 DEF KnowsOne, Half, Gone
<1>5. KnowsMv(e, k, i.raced \ {f})
  <2> SUFFICES ASSUME k.op = "mv", k.at = "remove" PROVE KnowsMv(e, k, i.raced \ {f})
    BY <1>1 DEF KnowsMv, Half
  <2>1. f = ProfileFile(i.m) /\ v.own = i.got.own /\ v \in Holds(f) /\ i.n \in Names /\ i.m # i.n
    BY <1>1, FileKinds DEF Half, Apt, NameOps
  <2>2. Loaded(v)
    BY <2>1 DEF Holds, ProfileFile, Profs, Loaded
  <2>3. ProfileFile(i.n) # f /\ ProfileFile(i.n) \in Files
    BY <2>1, FileKinds
  <2>4. ProfileFile(i.n) \notin i.raced => Same(d[ProfileFile(i.n)], i.got)
    BY <1>1 DEF Knows, KnowsMv
  <2> QED BY <1>1, <1>2, <2>1, <2>2, <2>3, <2>4 DEF KnowsMv, Same
<1>6. KnowsList(e, k, i.raced \ {f})
  <2> SUFFICES ASSUME k.op = "apply", k.at = "pick" PROVE KnowsList(e, k, i.raced \ {f})
    BY <1>1 DEF KnowsList, Half, Gone
  <2>1. PICK x \in Range(i.made) : f = ProfileFile(x)
    BY <1>1 DEF Half
  <2>2. KnowsList(d, i, i.raced) /\ Cleared(d, i, i.raced)
    BY <1>1 DEF Knows, KnowsList
  <2>3. \A n \in Range(i.list) : n \in Names /\ ProfileFile(n) \in Files
    BY Ranges, FileKinds DEF Jobs
  <2>4. Cleared(e, k, i.raced \ {f})
    BY <1>1, <1>2, <2>1, <2>2, <2>3, FileKinds DEF Cleared
  <2>5. i.s \in Subs /\ SubFile(i.s) # f /\ ListIn(e, i.s) = ListIn(d, i.s)
    BY <1>1, <1>2, <2>1, FileKinds DEF ListIn, Apt, SubOps
  <2> QED BY <1>1, <2>2, <2>4, <2>5 DEF KnowsList
<1>7. KnowsSubMv(e, k, i.raced \ {f})
  <2> SUFFICES ASSUME k.op = "submv" PROVE KnowsSubMv(e, k, i.raced \ {f})
    BY DEF KnowsSubMv
  <2>1. i.s \in Subs /\ i.t \in Subs /\ i.s # i.t /\ KnowsSubMv(d, i, i.raced)
    BY <1>1 DEF Apt, SubOps, Knows
  <2>2. CASE k.at = "load"
    <3>1. PICK x \in Names : f = ProfileFile(x)
      BY <1>1, <2>2 DEF Half
    <3>2. SubFile(i.t) # f /\ ListIn(e, i.t) = ListIn(d, i.t)
      BY <1>2, <2>1, <3>1, FileKinds DEF ListIn
    <3> QED BY <1>1, <2>1, <2>2, <3>2 DEF KnowsSubMv
  <2>3. CASE k.at = "remove"
    <3>1. f = SubFile(i.t) /\ v = Subscription(i.list)
      BY <1>1, <2>3 DEF Half
    <3>2. ListIn(e, i.t) = i.list
      BY <1>2, <3>1 DEF ListIn, Subscription, Loaded
    <3>3. SubFile(i.s) # f /\ ListIn(e, i.s) = ListIn(d, i.s)
      BY <1>2, <2>1, <3>1, FileKinds DEF ListIn
    <3> QED BY <1>1, <2>1, <2>3, <3>2, <3>3 DEF KnowsSubMv
  <2> QED BY <1>1, <2>2, <2>3 DEF Half
<1> QED BY <1>3, <1>4, <1>5, <1>6, <1>7 DEF Knows

LEMMA FlushKeeps ==
    ASSUME Inv, NEW p \in Procs, Flush(p) PROVE Inv'
<1>1. job[p] # Idle /\ job[p].put # <<>>
  BY DEF Flush
<1>2. /\ job[p] \in Jobs /\ Apt(job[p]) /\ Half(job[p]) /\ Knows(disk, job[p], job[p].raced)
      /\ disk \in Disks
  BY <1>1, Here
<1>3. PICK f, v : f = job[p].put[1] /\ v = job[p].put[2]
  OBVIOUS
<1>4. f \in Files /\ v \in Holds(f) /\ Loaded(v) /\ v # Torn
  <2>1. f \in Files /\ v \in Holds(f)
    BY <1>1, <1>2, <1>3 DEF Jobs, Half
  <2> QED BY <2>1 DEF Holds, Profs, Lines, Flags, Loaded, Torn
<1>5. PICK k : k = [job[p] EXCEPT !.put = <<>>]
  OBVIOUS
<1>6. k \in Jobs
  BY <1>2, <1>5, Zenon DEF Jobs
<1>7. /\ k.op = job[p].op /\ k.n = job[p].n /\ k.m = job[p].m /\ k.s = job[p].s /\ k.t = job[p].t
      /\ k.id = job[p].id /\ k.at = job[p].at /\ k.got = job[p].got /\ k.list = job[p].list
      /\ k.left = job[p].left /\ k.made = job[p].made /\ k.put = <<>> /\ k.raced = job[p].raced
  BY <1>2, <1>5 DEF Jobs
<1>8. Change(p, f, v, k) /\ running' = running /\ issued' = issued /\ pointer' = pointer
  BY <1>3, <1>5 DEF Flush
<1>9. Fit(k) /\ (Gone(k) <=> job[p].at = "end")
  <2>1. Apt(k)
    BY <1>2, <1>7 DEF Apt
  <2> QED BY <2>1, <1>6, <1>7 DEF Fit, Half, Gone
<1>10. ~Gone(k) => Knows([disk EXCEPT ![f] = v], k, k.raced \ {f})
  <2>1. Kept([job[p] EXCEPT !.put = <<>>], k)
    BY <1>5 DEF Kept
  <2> QED BY <1>1, <1>2, <1>3, <1>6, <1>7, <2>1, FlushKnows
<1>11. told \in [Names -> Words] /\ told' \in [Names -> Words]
  <2>1. told \in [Names -> Words]
    BY DEF Inv, Typing
  <2>2. job[p].op \in {"enable", "disable"} => job[p].n \in Names /\ Flag(job[p].op) \in {"on", "off"}
    BY <1>2 DEF Apt, NameOps, Flag
  <2> QED BY <2>1, <2>2 DEF Flush, Words
<1>12. /\ spoilt \subseteq spoilt'
       /\ \A x : x \in Basis(job[p], f, v) /\ x \in job[p].raced
                   => f \in spoilt' /\ Owner(v) \subseteq spoilt'
  <2>1. v = IF v = Torn THEN k.put[2] ELSE v
    BY <1>4
  <2> QED BY <1>8, <2>1, SpoilsRaced
<1>13. ASSUME NEW n \in Names, NEW s \in Subs PROVE Answers(p, f, v, k, n, s)
  <2>1. Cares(job[p], n, s) <=> Cares(k, n, s)
    BY <1>7 DEF Cares, Made, Awaited
  <2>2. ASSUME Cares(job[p], n, s), Gone(k)
        PROVE  f = SubFile(s) /\ n \in Range(ListIn([disk EXCEPT ![f] = v], s))
    <3>1. job[p].op = "apply" /\ job[p].s = s /\ n \in Range(job[p].made) /\ job[p].at = "end"
      BY <2>2, <1>9 DEF Cares, Made, Awaited
    <3>2. f = SubFile(s) /\ v = Subscription(job[p].made)
      BY <1>1, <1>2, <1>3, <3>1 DEF Half
    <3>3. [disk EXCEPT ![f] = v][f] = v
      BY <1>2, <1>4 DEF Disks
    <3> QED BY <3>1, <3>2, <3>3, <1>4 DEF ListIn, Subscription
  <2>3. ASSUME f = SubFile(s), n \in Range(ListIn(disk, s)) PROVE SubFile(s) \in spoilt'
    <3>1. f \in Basis(job[p], f, v)
      BY DEF Basis
    <3>2. f \notin job[p].raced => disk[f] = Torn
      BY <1>1, <1>2, <1>3 DEF Knows, KnowsHalf
    <3>3. disk[f] # Torn
      BY <2>3, Ranges DEF ListIn, Loaded, Torn
    <3> QED BY <3>1, <3>2, <3>3, <2>3, <1>12
  <2>4. ASSUME f = ProfileFile(n), v.sub = s
        PROVE  Cared(p, k, n, s) \/ n \in Range(ListIn(disk, s))
    <3>1. s # NoSub /\ Owner(v) = {SubFile(s)}
      <4>1. v \in Profs
        BY <1>4, <2>4, FileKinds DEF Holds
      <4> QED BY <4>1, <2>4, ProfilesAssumption DEF Owner, Profs
    <3>2. f \in Basis(job[p], f, v) /\ SubFile(s) \in Basis(job[p], f, v)
      BY <3>1 DEF Basis
    <3>3. CASE f \in job[p].raced \/ SubFile(s) \in job[p].raced
      BY <1>12, <3>1, <3>2, <3>3 DEF Cared
    <3>4. CASE f \notin job[p].raced /\ SubFile(s) \notin job[p].raced
      <4>1. Wanted(disk, job, n, s)
        BY <1>1, <1>3, <2>4, <3>4 DEF Wanted, Pending
      <4>2. Cares(job[p], n, s) => Cared(p, k, n, s)
        BY <2>1, <2>2, <2>4, FileKinds DEF Cared
      <4> QED BY <1>12, <4>1, <4>2, StillEvident
    <3> QED BY <3>3, <3>4
  <2>5. /\ f # ProfileFile(n) /\ Cares(job[p], n, s)
             => Cared(p, k, n, s) \/ n \in Range(ListIn([disk EXCEPT ![f] = v], s))
        /\ f = SubFile(s) /\ n \in Range(ListIn(disk, s)) => Cared(p, k, n, s)
    BY <2>1, <2>2, <2>3 DEF Cared
  <2> QED BY <2>4, <2>5, <1>7 DEF Answers
<1>14. /\ Typing' /\ Informed' /\ Accounted(disk, job, spoilt)'
       /\ f # StatusFile /\ told' = told /\ ~Writes(job[p]) /\ ~Carries(k)
             => Truthful(disk, job, spoilt, told)'
  <2>1. v \in {Absent, Torn} \cup Holds(f) /\ (v = Torn => k.put # <<>>)
    BY <1>4
  <2> QED BY <1>1, <1>4, <1>6, <1>7, <1>8, <1>9, <1>10, <1>11, <1>13, <2>1, ChangeKeeps
<1>15. CASE f # StatusFile
  <2>1. job[p].op \notin {"enable", "disable"} /\ ~(job[p].op = "mv" /\ job[p].at = "pointers")
        /\ (job[p].op = "mv" => job[p].at = "remove")
    BY <1>1, <1>2, <1>3, <1>15, FileKinds DEF Half
  <2>2. told' = told /\ ~Writes(job[p]) /\ ~Carries(k)
    BY <1>3, <1>7, <1>15, <2>1 DEF Flush, Writes, Carries
  <2> QED BY <1>14, <1>15, <2>2 DEF Inv
<1>16. CASE f = StatusFile
  <2>1. /\ v = job[p].got
        /\ \/ job[p].op \in {"enable", "disable"} /\ job[p].at = "end"
           \/ job[p].op = "mv" /\ job[p].at = "pointers"
    BY <1>1, <1>2, <1>3, <1>16 DEF Half
  <2>2. v \in Flags
    BY <1>4, <1>16, FileKinds DEF Holds
  <2>3. Carries(job[p]) /\ told' = Saying(job[p], told)
    BY <1>1, <2>1 DEF Carries, Saying, Flush
  <2>4. PICK l : /\ l \in Jobs \cup {Idle} /\ disk' = [disk EXCEPT ![f] = v]
                 /\ job' = Overtaken(job, p, f, l) /\ (Gone(k) => l = Idle)
                 /\ ~Gone(k) => l \in Jobs /\ Alike(k, l)
    BY <1>6, <1>8, ChangeShape
  <2>5. ~Carries(l)
    <3>1. CASE Gone(k)
      BY <3>1, <2>4, NothingOfIdle
    <3>2. CASE ~Gone(k)
      <4>1. job[p].op = "mv" /\ job[p].at = "pointers"
        BY <3>2, <1>9, <2>1
      <4>2. ~Carries(k)
        BY <4>1, <1>7 DEF Carries
      <4> QED BY <4>2, <3>2, <2>4, <1>6, AlikeRest
    <3> QED BY <3>1, <3>2
  <2>6. spoilt \subseteq spoilt' /\ (StatusFile \in job[p].raced => StatusFile \in spoilt')
    <3>1. f \in Basis(job[p], f, v)
      BY DEF Basis
    <3> QED BY <3>1, <1>12, <1>16
  <2>7. PICK ls, sp2, td2, e : ls = job' /\ sp2 = spoilt' /\ td2 = told' /\ e = disk'
    OBVIOUS
  <2>8. /\ ls = Overtaken(job, p, StatusFile, l) /\ spoilt \subseteq sp2
        /\ (StatusFile \in job[p].raced => StatusFile \in sp2)
        /\ e[StatusFile] = v /\ td2 = Saying(job[p], told)
    BY <1>2, <1>4, <1>16, <2>3, <2>4, <2>6, <2>7 DEF Disks
  <2>9. job \in [Procs -> Jobs \cup {Idle}] /\ Truthful(disk, job, spoilt, told)
    BY DEF Inv, Typing
  <2>10. Truthful(e, ls, sp2, td2)
    <3>1. l \in Jobs \cup {Idle} /\ job[p].got \in Flags /\ e[StatusFile] = job[p].got
      BY <2>1, <2>2, <2>4, <2>8
    <3> QED BY <2>3, <2>5, <2>8, <2>9, <3>1, TrueFlush
  <2> QED BY <1>14, <2>7, <2>10 DEF Inv
<1> QED BY <1>15, <1>16

(***************************************************************************)
(* The commands users start, and kills.                                    *)
(***************************************************************************)
LEMMA IssueKeeps ==
    ASSUME Inv, NEW p \in Procs, NEW op, NEW args, Issue(p, op, args),
           op \in NameOps \cup SubOps, args.n \in Names \cup {NoName}, args.m \in Names \cup {NoName},
           args.s \in Subs \cup {NoSub}, args.t \in Subs \cup {NoSub}, args.g \in SUBSET Subs,
           op \in NameOps => args.n \in Names,
           op = "mv" => args.m \in Names /\ args.m # args.n,
           op \in SubOps => args.s \in Subs,
           op = "submv" => args.t \in Subs /\ args.t # args.s
    PROVE  Inv'
<1>1. PICK k : k = Job(op, args, issued + 1)
  OBVIOUS
<1>2. /\ issued \in 0..Issues /\ issued + 1 \in 1..Issues /\ issued + 1 \in 0..Issues
      /\ issued <= issued + 1 /\ issued + 1 \in 1..(issued + 1)
  BY ProfilesAssumption DEF Inv, Typing, Issue
<1>3. PICK id, u : id = issued + 1 /\ u = [x \in Bases |-> 0]
  OBVIOUS
<1>4. id \in 1..Issues /\ u \in [Bases -> 0..Copies]
  BY <1>2, <1>3, ProfilesAssumption
<1>5. k = [op |-> op, n |-> args.n, m |-> args.m, s |-> args.s, t |-> args.t, g |-> args.g,
           id |-> id, at |-> "start", got |-> Absent, list |-> <<>>, left |-> <<>>, todo |-> <<>>,
           made |-> <<>>, used |-> u, put |-> <<>>, raced |-> {}]
  BY <1>1, <1>3 DEF Job
<1>6. k \in Jobs
  <2>1. "start" \in Places /\ <<>> \in Seq(Names) /\ <<>> \in Seq(Bases \cup {Unnamed, Refused})
        /\ {} \in SUBSET Files /\ Absent \in Profs \cup Flags \cup {Absent}
        /\ <<>> \in {<<>>} \cup (Files \X Values)
    BY DEF Places
  <2> QED BY <1>4, <1>5, <2>1, Zenon DEF Jobs
<1>7. /\ k.op = op /\ k.n = args.n /\ k.m = args.m /\ k.s = args.s /\ k.t = args.t /\ k.id = id
      /\ k.at = "start" /\ k.list = <<>> /\ k.left = <<>> /\ k.made = <<>> /\ k.put = <<>> /\ k.raced = {}
  BY <1>5
<1>8. Fit(k)
  <2>1. Apt(k)
    BY <1>7 DEF Apt
  <2> QED BY <2>1, <1>6, <1>7 DEF Fit, Half
<1>9. Knows(disk, k, k.raced)
  BY <1>7 DEF Knows, KnowsHalf, KnowsOne, KnowsMv, KnowsList, KnowsSubMv
<1>10. ~Carries(k) /\ ~Writes(job[p]) /\ \A n, s : ~Cares(job[p], n, s)
  <2>1. job[p] = Idle
    BY DEF Issue
  <2> QED BY <2>1, <1>7, NothingOfIdle DEF Carries
<1>11. /\ job' = [job EXCEPT ![p] = k] /\ disk' = disk /\ running' = running /\ told' = told
       /\ issued' = issued + 1 /\ pointer' = pointer /\ spoilt' = spoilt
  BY <1>1 DEF Issue
<1>12. /\ issued' \in 0..Issues /\ issued <= issued' /\ spoilt \subseteq spoilt' /\ spoilt' \subseteq Files
       /\ pointer' \in [{"active", "autoswitch"} -> Names \cup {NoName}] /\ k.id \in 1..issued'
  BY <1>2, <1>3, <1>7, <1>11 DEF Inv, Typing
<1> QED BY <1>6, <1>7, <1>8, <1>9, <1>10, <1>11, <1>12, AsideKeeps

LEMMA IssueAnyKeeps ==
    ASSUME Inv, NEW p \in Procs, IssueAny(p) PROVE Inv'
<1> USE DEF NoArgs
<1>1. ASSUME NEW x \in Typed, NEW op \in {"add", "edit", "rm", "enable", "disable"},
             Issue(p, op, [NoArgs EXCEPT !.n = x])
      PROVE  Inv'
  <2>1. x \in Names
    BY ProfilesAssumption
  <2> QED BY <1>1, <2>1, IssueKeeps DEF NameOps, SubOps
<1>2. ASSUME NEW x \in Typed, NEW gs \in GroupArgs, Issue(p, "regroup", [NoArgs EXCEPT !.n = x, !.g = gs])
      PROVE  Inv'
  <2>1. x \in Names /\ gs \in SUBSET Subs
    BY ProfilesAssumption
  <2> QED BY <1>2, <2>1, IssueKeeps DEF NameOps, SubOps
<1>3. ASSUME NEW x \in Typed, NEW gs \in GroupArgs,
             Issue(p, "import", [NoArgs EXCEPT !.n = Plain(x[1]), !.g = gs])
      PROVE  Inv'
  <2>1. Plain(x[1]) \in Names /\ gs \in SUBSET Subs
    BY ProfilesAssumption, NameKinds
  <2> QED BY <1>3, <2>1, IssueKeeps DEF NameOps, SubOps
<1>4. ASSUME NEW x \in Typed, NEW y \in Typed \ {x}, Issue(p, "mv", [NoArgs EXCEPT !.n = x, !.m = y])
      PROVE  Inv'
  <2>1. x \in Names /\ y \in Names /\ x # y
    BY ProfilesAssumption
  <2> QED BY <1>4, <2>1, IssueKeeps DEF NameOps, SubOps
<1>5. ASSUME NEW x \in Subs, NEW op \in {"apply", "subrm"}, Issue(p, op, [NoArgs EXCEPT !.s = x])
      PROVE  Inv'
  BY <1>5, IssueKeeps DEF NameOps, SubOps
<1>6. ASSUME NEW x \in Subs, NEW y \in Subs \ {x}, Issue(p, "submv", [NoArgs EXCEPT !.s = x, !.t = y])
      PROVE  Inv'
  BY <1>6, IssueKeeps DEF NameOps, SubOps
<1> QED BY <1>1, <1>2, <1>3, <1>4, <1>5, <1>6, Zenon DEF IssueAny

LEMMA KillKeeps ==
    ASSUME Inv, NEW p \in Procs, Kill(p) PROVE Inv'
<1>1. job[p] \in Jobs /\ Apt(job[p]) /\ Half(job[p])
  BY Here DEF Kill
<1>2. PICK k : k = Idle
  OBVIOUS
<1>3. /\ job' = [job EXCEPT ![p] = k] /\ disk' = disk /\ running' = running /\ told' = told
      /\ issued' = issued /\ pointer' = pointer /\ spoilt' = spoilt \cup Unfinished(job[p])
  BY <1>2 DEF Kill, quiet
<1>4. Unfinished(job[p]) \subseteq Files
  <2>1. job[p].put # <<>> => job[p].put[1] \in Files
    BY <1>1 DEF Jobs
  <2>2. job[p].op \in {"apply", "submv"} => SubFile(job[p].s) \in Files
    BY <1>1, FileKinds DEF Apt, SubOps
  <2> QED BY <2>1, <2>2, FileKinds DEF Unfinished
<1>5. /\ issued' \in 0..Issues /\ issued <= issued' /\ spoilt \subseteq spoilt' /\ spoilt' \subseteq Files
      /\ pointer' \in [{"active", "autoswitch"} -> Names \cup {NoName}]
  BY <1>3, <1>4 DEF Inv, Typing
<1>6. \A n \in Names, s \in Subs : Cares(job[p], n, s) => SubFile(s) \in spoilt'
  BY <1>3, Ranges DEF Cares, Made, Awaited, Unfinished
<1>7. Writes(job[p]) => StatusFile \in spoilt'
  BY <1>3 DEF Writes, Unfinished
<1>8. ~Carries(k) /\ k \in Jobs \cup {Idle}
  BY <1>2, NothingOfIdle
<1> QED BY <1>2, <1>3, <1>5, <1>6, <1>7, <1>8, AsideKeeps

LEMMA InitInv == Init => Inv
<1> SUFFICES ASSUME Init PROVE Inv
  OBVIOUS
<1> USE DEF Init
<1>0. PICK off \in Leftovers :
          /\ disk = [f \in Files |-> IF f = StatusFile THEN OldFlags(off) ELSE Absent]
          /\ told = [n \in Names |-> IF n \in off THEN "off" ELSE "on"]
  OBVIOUS
<1>1. disk \in Disks
  <2>1. OldFlags(off) \in {Absent} \cup Flags
    BY DEF OldFlags, Statuses, Flags
  <2>2. StatusFile \in Files /\ Holds(StatusFile) = Flags
    BY FileKinds DEF Holds
  <2>3. \A f \in Files : disk[f] \in {Absent, Torn} \cup Holds(f)
    BY <1>0, <2>1, <2>2
  <2>4. \A f \in Files : disk[f] \in {Absent, Torn} \cup Values
    BY <1>0, <2>1 DEF Values
  <2>5. disk \in [Files -> {Absent, Torn} \cup Values]
    BY <1>0, <2>4
  <2> QED BY <2>3, <2>5 DEF Disks
<1>2. job \in [Procs -> Jobs \cup {Idle}] /\ \A p \in Procs : job[p] = Idle
  OBVIOUS
<1>3. Typing
  <2>1. pointer \in [{"active", "autoswitch"} -> Names \cup {NoName}]
    BY ProfilesAssumption
  <2>2. running \subseteq Names /\ issued \in 0..Issues
    BY ProfilesAssumption
  <2> QED BY <1>0, <1>1, <1>2, <2>1, <2>2 DEF Typing, Words
<1>4. Informed
  BY <1>2 DEF Informed
<1>5. Accounted(disk, job, spoilt)
  <2>1. ~Loaded(Absent) /\ \A n \in Names : disk[ProfileFile(n)] = Absent
    BY <1>0, FileKinds DEF Loaded, Absent
  <2> QED BY <1>2, <2>1, NothingOfIdle DEF Accounted, Wanted, Stored
<1>6. Truthful(disk, job, spoilt, told)
  <2>1. EntriesIn(disk) = [n \in Names |-> IF n \in off THEN "off" ELSE "none"]
    <3>1. disk[StatusFile] = OldFlags(off)
      BY <1>0, FileKinds
    <3>2. CASE off = {}
      BY <3>1, <3>2 DEF EntriesIn, OldFlags, Loaded, Absent, NoEntries
    <3>3. CASE off # {}
      BY <3>1, <3>3 DEF EntriesIn, OldFlags, Loaded, Statuses
    <3> QED BY <3>2, <3>3
  <2>2. Matches(EntriesIn(disk), told)
    BY <1>0, <2>1 DEF Matches
  <2> QED BY <1>2, <2>2, NothingOfIdle DEF Truthful, Promise
<1> QED BY <1>3, <1>4, <1>5, <1>6 DEF Inv

LEMMA NextInv == Inv /\ [Next]_vars => Inv'
<1> SUFFICES ASSUME Inv, [Next]_vars PROVE Inv'
  OBVIOUS
<1>1. CASE UNCHANGED vars
  BY <1>1 DEF vars, Inv, Typing, Informed, Accounted, Truthful, Promise, Evident, Wanted
<1>2. ASSUME NEW p \in Procs, IssueAny(p) \/ Step(p) \/ Kill(p) PROVE Inv'
  <2>1. CASE IssueAny(p)
    BY <2>1, IssueAnyKeeps
  <2>2. CASE Kill(p)
    BY <2>2, KillKeeps
  <2>3. CASE Step(p)
    BY <2>3, FlushKeeps, AddLoadsKeeps, EditLoadsKeeps, ImportPicksKeeps, SaveGotKeeps,
       RmFiltersKeeps, RmRemovesKeeps, ChecksKeeps, FlagLoadsKeeps, FlagSavesKeeps,
       MvChecksKeeps, MvLoadsKeeps, MvSavesKeeps, MvRemovesKeeps, MvLoadsStatusKeeps, MvFindsNoFlagKeeps,
       MvSavesStatusKeeps, MvPointsKeeps, ApplyLoadsKeeps, ApplyFetchesKeeps, ApplyClearsKeeps,
       ApplyPicksKeeps, ApplySavesKeeps, ApplyListsKeeps, SubRmLoadsKeeps, SubRmClearsKeeps,
       SubMvLoadsKeeps, SubMvSavesKeeps, SubMvRemovesKeeps, SubMvLoadsNextKeeps, SubMvSkipsKeeps,
       SubMvSavesNextKeeps DEF Step
  <2> QED BY <1>2, <2>1, <2>2, <2>3
<1> QED BY <1>1, <1>2 DEF Next

LEMMA Invariance == Spec => []Inv
BY InitInv, NextInv, PTL DEF Spec

LEMMA InvTypeOK == Inv => TypeOK
<1> SUFFICES ASSUME Inv PROVE TypeOK
  OBVIOUS
<1>1. Typing /\ disk \in Disks
  BY DEF Inv, Typing
<1>2. ASSUME NEW n \in Names PROVE disk[ProfileFile(n)] \in Contents
  <2>1. CASE ~Loaded(disk[ProfileFile(n)])
    <3>1. disk[ProfileFile(n)] \in {Absent, Torn} \cup Profs
      BY <1>1, FileKinds DEF Disks, Holds
    <3> QED BY <2>1, <3>1 DEF Loaded, Profs, Contents
  <2>2. CASE Loaded(disk[ProfileFile(n)])
    <3>1. PICK v : v = disk[ProfileFile(n)]
      OBVIOUS
    <3>2. v \in Profs
      BY <1>1, <2>2, <3>1, StoredProfile
    <3>3. v = Profile(v.sub, v.groups, v.own) /\ v.sub \in Subs \cup {NoSub}
          /\ v.groups \in SUBSET Subs /\ v.own \in 0..Issues
      BY <3>2 DEF Profs, Profile
    <3> QED BY <3>1, <3>3 DEF Contents
  <2> QED BY <2>1, <2>2
<1>3. ASSUME NEW s \in Subs, Loaded(disk[SubFile(s)]) PROVE Range(disk[SubFile(s)].profiles) \subseteq Names
  BY <1>1, <1>3, StoredList, Ranges DEF ListIn
<1>4. Loads(StatusFile) => disk[StatusFile].map \in [Names -> {"none", "on", "off"}]
  BY <1>1, StoredFlags DEF EntriesIn, Loads, Loaded
<1>5. \A p \in Procs : job[p] = Idle \/ (job[p].id \in 1..issued /\ job[p].raced \subseteq Files)
  BY Here
<1>6. DOMAIN disk = Files /\ \A k \in DOMAIN pointer : pointer[k] \in Names \cup {NoName}
  BY <1>1 DEF Disks, Typing
<1> QED BY <1>1, <1>2, <1>3, <1>4, <1>5, <1>6 DEF TypeOK, Typing, Words

(* Whatever commands run together, a file is absent, truncated or holds what *)
(* its command wrote there (saveProfile, saveSubscription, saveStatuses), the *)
(* names on a list are names of profiles, and status.json flags only those. *)
THEOREM TypeCorrect == Spec => []TypeOK
BY Invariance, InvTypeOK, PTL

LEMMA InvManagedListed == Inv => ManagedListed
<1> SUFFICES ASSUME Inv, NEW n \in Names, NEW s \in Subs, Member(n, s)
             PROVE  /\ s \in disk[ProfileFile(n)].groups
                    /\ \/ n \in profilesInSubscription(s)
                       \/ SubFile(s) \in spoilt \/ \E p \in Procs : Busy(p, s)
  BY DEF ManagedListed
<1>1. Stored(disk, n, s) /\ disk \in Disks
  BY DEF Member, Stored, Loads, Loaded, Inv, Typing
<1>2. s \in disk[ProfileFile(n)].groups
  <2>1. disk[ProfileFile(n)] \in Holds(ProfileFile(n))
    BY <1>1, FileKinds DEF Disks, Stored, Loaded, Absent, Torn
  <2> QED BY <1>1, <2>1, FileKinds, ProfilesAssumption DEF Holds, Stored
<1>3. Evident(disk, job, spoilt, n, s)
  BY <1>1 DEF Inv, Accounted, Wanted
<1>4. n \in Range(ListIn(disk, s)) => n \in profilesInSubscription(s)
  BY Ranges DEF ListIn, profilesInSubscription, Loads, Loaded
<1>5. \A p \in Procs : Cares(job[p], n, s) => Busy(p, s)
  BY DEF Cares, Made, Awaited, Busy
<1> QED BY <1>2, <1>3, <1>4, <1>5 DEF Evident

(* A profile that a subscription manages is in the group of the subscription *)
(* (saveProfile puts it there) and on the list of its file, on which sub   *)
(* update, sub rm and sub mv rely to find it, unless a killed or overtaken *)
(* command spoilt the list or sub add, update or mv is at work on it.      *)
THEOREM ListedAlways == Spec => []ManagedListed
BY Invariance, InvManagedListed, PTL

LEMMA InvStatusTold == Inv => StatusTold
<1>1. Entries = EntriesIn(disk)
  BY DEF Entries, EntriesIn, Loads, Loaded
<1> QED BY <1>1 DEF Inv, Truthful, StatusTold, Matches, Writes, isProfileEnabled

(* When no command is writing status.json, a profile is enabled exactly if *)
(* enable, disable and mv last said so: none of them loses the flag that   *)
(* another one set (setProfileEnabled, renameProfile), unless the other came *)
(* between its loading and its saving, or it was killed half way or read a *)
(* file half written; a profile that mv gave a name with an old flag is    *)
(* excepted until enable or disable speaks of it again.                    *)
THEOREM ToldAlways == Spec => []StatusTold
BY Invariance, InvStatusTold, PTL

(***************************************************************************)
(* OwnKept: what a step may end.                                           *)
(***************************************************************************)
Alive(d, js, t) ==
    \/ \E n \in Names : d[ProfileFile(n)].is = "profile" /\ d[ProfileFile(n)].own = t
    \/ \E q \in Procs : js[q] # Idle /\ js[q].put # <<>> /\ js[q].put[2].is = "profile"
                        /\ js[q].put[2].own = t

LEMMA LivingIs ==
    /\ \A t : t \in Living <=> t # 0 /\ Alive(disk, job, t)
    /\ \A t : t \in Living' <=> t # 0 /\ Alive(disk', job', t)
<1>1. \A t : t \in Living <=> t # 0 /\ Alive(disk, job, t)
  BY DEF Living, Owns, Halves, Alive
<1>2. \A t : t \in Living' <=> t # 0 /\ Alive(disk', job', t)
  BY DEF Living, Owns, Halves, Alive
<1> QED BY <1>1, <1>2

Grounds == \A t \in Living \ Living' :
    \E p \in Procs : Moved(p) /\ (t \in Owns(Halves(p)) \/ \E n \in Names :
        t \in Owns({disk[ProfileFile(n)]}) /\ Excused(p, n))

LEMMA MovedBy ==
    ASSUME NEW p \in Procs, job[p] # Idle, job[p] \in Jobs,
           \/ job'[p] = Idle
           \/ /\ job'[p] \in Jobs
              /\ \/ job'[p].at # job[p].at \/ job'[p].put # job[p].put
                 \/ job'[p].left # job[p].left
    PROVE  Moved(p)
<1>1. \A a, b \in Jobs : [a EXCEPT !.raced = {}] = [b EXCEPT !.raced = {}]
          => a.at = b.at /\ a.put = b.put /\ a.left = b.left
  <2> SUFFICES ASSUME NEW a \in Jobs, NEW b \in Jobs, [a EXCEPT !.raced = {}] = [b EXCEPT !.raced = {}]
               PROVE  a.at = b.at /\ a.put = b.put /\ a.left = b.left
    OBVIOUS
  <2>1. Alike(a, [a EXCEPT !.raced = {}]) /\ Alike(b, [b EXCEPT !.raced = {}])
    BY Raced
  <2> QED BY <2>1 DEF Alike
<1> QED BY <1>1 DEF Moved

(* Where no file changes, only a kill ends a profile: one half written.    *)
LEMMA AsideGrounds ==
    ASSUME Inv, NEW p \in Procs, disk' = disk, \A q \in Procs \ {p} : job'[q] = job[q],
           \/ job[p] = Idle \/ job[p].put = <<>> \/ job'[p] = Idle
    PROVE  Grounds
<1> SUFFICES ASSUME NEW t \in Living \ Living'
             PROVE  Moved(p) /\ t \in Owns(Halves(p))
  BY DEF Grounds
<1>1. t # 0 /\ Alive(disk, job, t) /\ ~Alive(disk', job', t)
  BY LivingIs
<1>2. job[p] # Idle /\ job[p].put # <<>> /\ job[p].put[2].is = "profile" /\ job[p].put[2].own = t
  BY <1>1 DEF Alive
<1>3. job'[p] = Idle
  BY <1>2
<1>4. Moved(p)
  BY <1>2, <1>3 DEF Moved
<1> QED BY <1>1, <1>2, <1>4 DEF Owns, Halves

LEMMA ReadGrounds ==
    ASSUME Inv, NEW p \in Procs, job[p].put = <<>>, NEW fs, NEW j, Read(p, fs, j)
    PROVE  Grounds
<1>1. job \in [Procs -> Jobs \cup {Idle}]
  BY DEF Inv, Typing
<1>2. disk' = disk /\ \A q \in Procs \ {p} : job'[q] = job[q]
  BY <1>1 DEF Read
<1> QED BY <1>2, AsideGrounds

(* A change of f ends at most the profile stored there.                    *)
LEMMA ChangeGrounds ==
    ASSUME Inv, NEW p \in Procs, job[p] # Idle, NEW f \in Files, NEW v, NEW j \in Jobs,
           Change(p, f, v, j), v \in {Absent, Torn} \cup Holds(f),
           job[p].put = <<>> \/ (f = job[p].put[1] /\ v = job[p].put[2]),
           Gone(j) \/ j.at # job[p].at \/ j.put # job[p].put \/ j.left # job[p].left,
           \A n \in Names : f = ProfileFile(n) /\ disk[f] \in Profs =>
               \/ Excused(p, n)
               \/ j.put # <<>> /\ j.put[2] \in Profs /\ j.put[2].own = disk[f].own
               \/ \E x \in Names : /\ ProfileFile(x) # f /\ disk[ProfileFile(x)] \in Profs
                                   /\ disk[ProfileFile(x)].own = disk[f].own
    PROVE  Grounds
<1>1. job[p] \in Jobs /\ disk \in Disks /\ job \in [Procs -> Jobs \cup {Idle}]
  BY Here DEF Inv, Typing
<1>2. PICK k : /\ k \in Jobs \cup {Idle} /\ disk' = [disk EXCEPT ![f] = v]
               /\ job' = Overtaken(job, p, f, k) /\ (Gone(j) => k = Idle)
               /\ ~Gone(j) => k \in Jobs /\ Alike(j, k)
  BY ChangeShape
<1>3. /\ job'[p] = k
      /\ \A q \in Procs \ {p} :
           \/ job[q] = Idle /\ job'[q] = Idle
           \/ job[q] \in Jobs /\ job'[q] \in Jobs /\ Alike(job[q], job'[q])
  BY <1>1, <1>2, Others
<1>4. disk'[f] = v /\ \A g \in Files : g # f => disk'[g] = disk[g]
  BY <1>1, <1>2 DEF Disks
<1>5. Moved(p)
  <2>1. \/ job'[p] = Idle
        \/ /\ job'[p] \in Jobs
           /\ \/ job'[p].at # job[p].at \/ job'[p].put # job[p].put
              \/ job'[p].left # job[p].left
    BY <1>2, <1>3 DEF Alike
  <2> QED BY <1>1, <2>1, MovedBy
<1> SUFFICES ASSUME NEW t \in Living \ Living'
             PROVE  \E n \in Names : t \in Owns({disk[ProfileFile(n)]}) /\ Excused(p, n)
  BY <1>5 DEF Grounds
<1>6. t # 0 /\ Alive(disk, job, t) /\ ~Alive(disk', job', t)
  BY LivingIs
<1>7. ASSUME NEW q \in Procs, job[q] # Idle, job[q].put # <<>>, job[q].put[2].is = "profile",
             job[q].put[2].own = t
      PROVE  FALSE
  <2>1. CASE q # p
    <3>1. job[q] \in Jobs /\ job'[q] \in Jobs /\ Alike(job[q], job'[q]) /\ job'[q] # Idle
      BY <1>3, <1>7, <2>1, JobIsNotIdle
    <3>2. job'[q].put = job[q].put
      BY <3>1 DEF Alike
    <3> QED BY <1>6, <1>7, <3>1, <3>2 DEF Alive
  <2>2. CASE q = p
    <3>1. f = job[p].put[1] /\ v = job[p].put[2] /\ v \in Holds(f)
      BY <1>7, <2>2 DEF Absent, Torn
    <3>2. f[1] = "profile"
      BY <3>1, <1>7, <2>2 DEF Holds, Lines, Flags
    <3>3. PICK n \in Names : f = ProfileFile(n)
      BY <3>2, FileKinds DEF Files
    <3> QED BY <1>4, <1>6, <1>7, <2>2, <3>1, <3>3 DEF Alive
  <2> QED BY <2>1, <2>2
<1>8. PICK n \in Names : disk[ProfileFile(n)].is = "profile" /\ disk[ProfileFile(n)].own = t
  BY <1>6, <1>7 DEF Alive
<1>9. f = ProfileFile(n)
  BY <1>4, <1>6, <1>8, FileKinds DEF Alive
<1>10. disk[f] \in Profs
  <2>1. disk[ProfileFile(n)] \in {Absent, Torn} \cup Profs
    BY <1>1, FileKinds DEF Disks, Holds
  <2> QED BY <1>8, <1>9, <2>1 DEF Absent, Torn
<1>11. ~(j.put # <<>> /\ j.put[2] \in Profs /\ j.put[2].own = t)
  <2> SUFFICES ASSUME j.put # <<>>, j.put[2] \in Profs, j.put[2].own = t PROVE FALSE
    OBVIOUS
  <2>1. job'[p] \in Jobs /\ job'[p].put = j.put /\ job'[p] # Idle
    BY <1>2, <1>3, JobIsNotIdle DEF Gone, Alike
  <2> QED BY <1>6, <2>1 DEF Alive, Profs
<1>12. ~\E x \in Names : /\ ProfileFile(x) # f /\ disk[ProfileFile(x)] \in Profs
                         /\ disk[ProfileFile(x)].own = t
  BY <1>4, <1>6, FileKinds DEF Alive, Profs
<1>13. Excused(p, n)
  BY <1>8, <1>9, <1>10, <1>11, <1>12
<1> QED BY <1>6, <1>8, <1>13 DEF Owns

Reading(p) ==
    \/ AddLoads(p) \/ EditLoads(p) \/ ImportPicks(p) \/ RmFilters(p) \/ EnableChecks(p)
    \/ DisableChecks(p) \/ FlagLoads(p) \/ MvChecks(p) \/ MvLoads(p) \/ MvLoadsStatus(p)
    \/ MvPoints(p) \/ ApplyLoads(p) \/ ApplyFetches(p) \/ ApplyPicks(p) \/ SubRmLoads(p)
    \/ SubMvLoads(p) \/ SubMvLoadsNext(p)

LEMMA ReadingGrounds ==
    ASSUME Inv, NEW p \in Procs, Reading(p) PROVE Grounds
<1>1. job[p].put = <<>>
  BY DEF Reading, At, AddLoads, EditLoads, ImportPicks, RmFilters, EnableChecks, DisableChecks,
     FlagLoads, MvChecks, MvLoads, MvLoadsStatus, MvPoints, ApplyLoads, ApplyFetches, ApplyPicks,
     SubRmLoads, SubMvLoads, SubMvLoadsNext
<1> DEFINE Reads == \E fs, j : Read(p, fs, j)
<1>2. Leave(p) => Reads
  BY DEF Leave
<1>3. AddLoads(p) => Reads
  BY Zenon DEF AddLoads
<1>4. EditLoads(p) => Reads
  BY <1>2, Zenon DEF EditLoads
<1>5. ImportPicks(p) => Reads
  BY Zenon DEF ImportPicks
<1>6. RmFilters(p) \/ EnableChecks(p) \/ DisableChecks(p) \/ MvChecks(p) => Reads
  BY <1>2, Zenon DEF RmFilters, EnableChecks, DisableChecks, MvChecks
<1>7. FlagLoads(p) \/ MvLoadsStatus(p) \/ ApplyLoads(p) => Reads
  BY Zenon DEF FlagLoads, MvLoadsStatus, ApplyLoads
<1>8. MvLoads(p) => Reads
  BY <1>2, Zenon DEF MvLoads
<1>9. MvPoints(p) \/ ApplyFetches(p) => Reads
  BY <1>2, Zenon DEF MvPoints, ApplyFetches
<1>10. ApplyPicks(p) => Reads
  BY Zenon DEF ApplyPicks
<1>11. SubRmLoads(p) \/ SubMvLoads(p) \/ SubMvLoadsNext(p) => Reads
  BY <1>2, Zenon DEF SubRmLoads, SubMvLoads, SubMvLoadsNext
<1>12. Reads
  BY <1>3, <1>4, <1>5, <1>6, <1>7, <1>8, <1>9, <1>10, <1>11 DEF Reading
<1> QED BY <1>1, <1>12, ReadGrounds

LEMMA LeaveGrounds ==
    ASSUME Inv, NEW p \in Procs, job[p].put = <<>>, Leave(p) PROVE Grounds
BY ReadGrounds DEF Leave

(* The step that begins to save v as x.                                    *)
LEMMA SaveGrounds ==
    ASSUME Inv, NEW p \in Procs, job[p] # Idle, job[p].put = <<>>, NEW x \in Names, NEW v \in Profs,
           NEW i \in Jobs, saveProfile(p, x, v, i),
           disk[ProfileFile(x)] \in Profs => Excused(p, x) \/ v.own = disk[ProfileFile(x)].own
    PROVE  Grounds
<1>1. PICK f, w : f = ProfileFile(x) /\ w = [v EXCEPT !.groups = SaveGroups(v)]
  OBVIOUS
<1>2. f \in Files /\ w \in Profs /\ w.own = v.own /\ w \in Values
  BY <1>1, FileKinds, Saved
<1>3. PICK k : k = [i EXCEPT !.put = <<f, w>>]
  OBVIOUS
<1>4. k \in Jobs /\ Puts(i, k, f, w)
  BY <1>2, <1>3, Putting, Zenon
<1>5. k.put # <<>> /\ k.put[2] = w
  BY <1>4 DEF Puts
<1>6. Change(p, f, Torn, k)
  BY <1>1, <1>3 DEF saveProfile, Write
<1>7. \A n \in Names : f = ProfileFile(n) /\ disk[f] \in Profs =>
               \/ Excused(p, n)
               \/ k.put # <<>> /\ k.put[2] \in Profs /\ k.put[2].own = disk[f].own
  BY <1>1, <1>2, <1>5, FileKinds
<1> QED BY <1>2, <1>4, <1>5, <1>6, <1>7, ChangeGrounds

LEMMA SaveGotGrounds ==
    ASSUME Inv, NEW p \in Procs, SaveGot(p) PROVE Grounds
<1>1. /\ job[p] # Idle /\ job[p].op \in {"add", "edit", "regroup", "import"} /\ job[p].at = "save"
      /\ job[p].put = <<>> /\ job[p] \in Jobs /\ Apt(job[p])
      /\ job[p].n \in Names /\ Knows(disk, job[p], job[p].raced)
  BY NameAt DEF SaveGot, NameOps
<1>2. PICK i, x, v : i = [job[p] EXCEPT !.at = "end"] /\ x = job[p].n /\ v = job[p].got
  OBVIOUS
<1>3. i \in Jobs
  BY <1>1, <1>2, Zenon DEF Jobs, Places
<1>4. v \in Profs /\ saveProfile(p, x, v, i) /\ x \in Names
  BY <1>1, <1>2 DEF Apt, SaveGot
<1>5. ASSUME disk[ProfileFile(x)] \in Profs PROVE Excused(p, x) \/ v.own = disk[ProfileFile(x)].own
  <2>1. Loaded(disk[ProfileFile(x)])
    BY <1>5 DEF Profs, Loaded
  <2>2. CASE ProfileFile(x) \in job[p].raced \/ job[p].op = "add"
    BY <2>2, <1>2 DEF Excused
  <2>3. CASE ProfileFile(x) \notin job[p].raced /\ job[p].op # "add"
    BY <2>1, <2>3, <1>1, <1>2 DEF Knows, KnowsOne, Same
  <2> QED BY <2>2, <2>3
<1> QED BY <1>1, <1>3, <1>4, <1>5, SaveGrounds

LEMMA MvSavesGrounds ==
    ASSUME Inv, NEW p \in Procs, MvSaves(p) PROVE Grounds
<1>1. /\ job[p] # Idle /\ job[p].op = "mv" /\ job[p].at = "save" /\ job[p].put = <<>>
      /\ job[p] \in Jobs /\ Apt(job[p]) /\ Knows(disk, job[p], job[p].raced)
  BY NameAt DEF MvSaves, NameOps
<1>2. PICK i, x, v : i = [job[p] EXCEPT !.at = "remove"] /\ x = job[p].m /\ v = job[p].got
  OBVIOUS
<1>3. i \in Jobs
  BY <1>1, <1>2, Zenon DEF Jobs, Places
<1>4. v \in Profs /\ saveProfile(p, x, v, i) /\ x \in Names
  BY <1>1, <1>2 DEF Apt, MvSaves
<1>5. ASSUME disk[ProfileFile(x)] \in Profs PROVE Excused(p, x)
  <2>1. disk[ProfileFile(x)] # Absent
    BY <1>5 DEF Profs, Absent
  <2>2. ProfileFile(x) \in job[p].raced
    BY <2>1, <1>1, <1>2 DEF Knows, KnowsMv
  <2> QED BY <2>2 DEF Excused
<1> QED BY <1>1, <1>3, <1>4, <1>5, SaveGrounds

LEMMA ApplySavesGrounds ==
    ASSUME Inv, NEW p \in Procs, ApplySaves(p) PROVE Grounds
<1>1. /\ job[p] # Idle /\ job[p].op = "apply" /\ job[p].at = "save" /\ job[p].put = <<>>
      /\ job[p] \in Jobs /\ Apt(job[p]) /\ job[p].s \in Subs /\ Knows(disk, job[p], job[p].raced)
  BY SubAt DEF ApplySaves, SubOps
<1>2. PICK made, x, v : made = Append(job[p].made, x) /\ x = job[p].n /\ v = Profile(job[p].s, {}, 0)
  OBVIOUS
<1>3. v \in Profs /\ x \in Names
  BY <1>1, <1>2, ProfilesAssumption DEF Apt, Profs, Profile
<1>4. made \in Seq(Names)
  <2>1. job[p].made \in Seq(Names)
    BY <1>1 DEF Jobs
  <2> QED BY <1>2, <1>3, <2>1, Ranges
<1>5. PICK i : i = [job[p] EXCEPT !.at = "pick", !.made = made]
  OBVIOUS
<1>6. i \in Jobs
  BY <1>1, <1>4, <1>5, Zenon DEF Jobs, Places
<1>7. saveProfile(p, x, v, i)
  BY <1>2, <1>5 DEF ApplySaves, subscriptionEntryToProfile
<1>8. ASSUME disk[ProfileFile(x)] \in Profs PROVE Excused(p, x)
  <2>1. Loaded(disk[ProfileFile(x)])
    BY <1>8 DEF Profs, Loaded
  <2>2. ProfileFile(x) \in job[p].raced \/ disk[ProfileFile(x)].sub = job[p].s
    BY <2>1, <1>1, <1>2 DEF Knows, KnowsOne
  <2> QED BY <2>2, <1>1 DEF Excused
<1> QED BY <1>1, <1>3, <1>6, <1>7, <1>8, SaveGrounds

LEMMA SubMvSavesNextGrounds ==
    ASSUME Inv, NEW p \in Procs, SubMvSavesNext(p) PROVE Grounds
<1>1. /\ job[p] # Idle /\ job[p].op = "submv" /\ job[p].at = "rehome" /\ job[p].put = <<>>
      /\ job[p] \in Jobs /\ Apt(job[p]) /\ Knows(disk, job[p], job[p].raced)
  BY SubAt DEF SubMvSavesNext, SubOps
<1>2. PICK x, v, q : x = Head(job[p].left) /\ v = job[p].got /\ q = Tail(job[p].left)
  OBVIOUS
<1>3. x \in Names /\ q \in Seq(Names)
  <2>1. job[p].left \in Seq(Names) /\ job[p].left # <<>>
    BY <1>1 DEF Jobs, Apt
  <2> QED BY <1>2, <2>1, Ranges
<1>4. PICK i : i = [job[p] EXCEPT !.at = "load", !.left = q]
  OBVIOUS
<1>5. i \in Jobs
  BY <1>1, <1>3, <1>4, Zenon DEF Jobs, Places
<1>6. v \in Profs /\ saveProfile(p, x, v, i)
  BY <1>1, <1>2, <1>4 DEF Apt, SubMvSavesNext
<1>7. Excused(p, x) \/ v.own = disk[ProfileFile(x)].own
  <2>1. ProfileFile(x) \in job[p].raced \/ Same(disk[ProfileFile(x)], v)
    BY <1>1, <1>2 DEF Knows, KnowsSubMv
  <2> QED BY <2>1 DEF Excused, Same
<1> QED BY <1>1, <1>3, <1>5, <1>6, <1>7, SaveGrounds

(* The step that removes x.                                                *)
LEMMA RemoveGrounds ==
    ASSUME Inv, NEW p \in Procs, job[p] # Idle, job[p].put = <<>>, NEW x \in Names, NEW j \in Jobs,
           Remove(p, ProfileFile(x), j), j.put = <<>>, j.at # job[p].at \/ j.left # job[p].left,
           disk[ProfileFile(x)] \in Profs =>
               \/ Excused(p, x)
               \/ \E y \in Names : /\ y # x /\ disk[ProfileFile(y)] \in Profs
                                   /\ disk[ProfileFile(y)].own = disk[ProfileFile(x)].own
    PROVE  Grounds
<1>1. PICK f, v : f = ProfileFile(x) /\ v = Absent
  OBVIOUS
<1>2. f \in Files /\ Change(p, f, v, j) /\ v \in {Absent, Torn} \cup Holds(f)
  BY <1>1, FileKinds DEF Remove
<1>3. \A n \in Names : f = ProfileFile(n) /\ disk[f] \in Profs =>
               \/ Excused(p, n)
               \/ \E y \in Names : /\ ProfileFile(y) # f /\ disk[ProfileFile(y)] \in Profs
                                   /\ disk[ProfileFile(y)].own = disk[f].own
  BY <1>1, FileKinds
<1> QED BY <1>2, <1>3, ChangeGrounds

LEMMA RmRemovesGrounds ==
    ASSUME Inv, NEW p \in Procs, RmRemoves(p) PROVE Grounds
<1>1. /\ job[p] # Idle /\ job[p].op = "rm" /\ job[p].at = "remove" /\ job[p].put = <<>>
      /\ job[p] \in Jobs /\ job[p].n \in Names
  BY NameAt DEF RmRemoves, NameOps
<1>2. CASE Leave(p)
  BY <1>1, <1>2, LeaveGrounds
<1>3. CASE ~Leave(p)
  <2>1. PICK j : j = [job[p] EXCEPT !.at = "end"]
    OBVIOUS
  <2>2. j \in Jobs
    BY <1>1, <2>1, Zenon DEF Jobs, Places
  <2>3. j.at = "end" /\ j.put = <<>> /\ Remove(p, ProfileFile(job[p].n), j)
    BY <1>1, <1>3, <2>1 DEF Jobs, RmRemoves
  <2>4. Excused(p, job[p].n)
    BY <1>1 DEF Excused
  <2> QED BY <1>1, <2>2, <2>3, <2>4, RemoveGrounds
<1> QED BY <1>2, <1>3

LEMMA MvRemovesGrounds ==
    ASSUME Inv, NEW p \in Procs, MvRemoves(p) PROVE Grounds
<1>1. /\ job[p] # Idle /\ job[p].op = "mv" /\ job[p].at = "remove" /\ job[p].put = <<>>
      /\ job[p] \in Jobs /\ job[p].n \in Names /\ Apt(job[p]) /\ disk \in Disks
      /\ Knows(disk, job[p], job[p].raced)
  BY NameAt DEF MvRemoves, NameOps
<1>2. PICK x, y, old, new : x = job[p].n /\ y = job[p].m /\ old = ProfileFile(x) /\ new = ProfileFile(y)
  OBVIOUS
<1>3. x \in Names /\ y \in Names /\ x # y
  BY <1>1, <1>2 DEF Apt
<1>4. CASE old \in job[p].raced \/ new \in job[p].raced
  <2>1. Excused(p, x) /\ Excused(p, y)
    BY <1>1, <1>2, <1>4 DEF Excused
  <2>2. CASE Exists(old)
    <3>1. PICK j : j = [job[p] EXCEPT !.at = "status"]
      OBVIOUS
    <3>2. j \in Jobs
      BY <1>1, <3>1, Zenon DEF Jobs, Places
    <3>3. j.at = "status" /\ j.put = <<>> /\ Remove(p, ProfileFile(x), j)
      BY <1>1, <1>2, <2>2, <3>1 DEF Jobs, MvRemoves
    <3> QED BY <1>1, <1>3, <2>1, <3>2, <3>3, RemoveGrounds
  <2>3. CASE ~Exists(old)
    <3>1. PICK j : j = [job[p] EXCEPT !.at = "end"]
      OBVIOUS
    <3>2. j \in Jobs
      BY <1>1, <3>1, Zenon DEF Jobs, Places
    <3>3. j.at = "end" /\ j.put = <<>> /\ Remove(p, ProfileFile(y), j)
      BY <1>1, <1>2, <2>3, <3>1 DEF Jobs, MvRemoves
    <3> QED BY <1>1, <1>3, <2>1, <3>2, <3>3, RemoveGrounds
  <2> QED BY <2>2, <2>3
<1>5. CASE old \notin job[p].raced /\ new \notin job[p].raced
  <2>1. Same(disk[old], job[p].got) /\ Same(disk[new], job[p].got)
    BY <1>1, <1>2, <1>5 DEF Knows, KnowsMv
  <2>2. disk[new] \in Profs /\ disk[new].own = disk[old].own /\ Exists(old)
    <3>1. disk[new] \in Profs
      BY <1>1, <1>2, <1>3, <2>1, StoredProfile DEF Same
    <3> QED BY <2>1, <3>1 DEF Same, Exists, Loaded
  <2>3. PICK j : j = [job[p] EXCEPT !.at = "status"]
    OBVIOUS
  <2>4. j \in Jobs
    BY <1>1, <2>3, Zenon DEF Jobs, Places
  <2>5. j.at = "status" /\ j.put = <<>> /\ Remove(p, ProfileFile(x), j)
    BY <1>1, <1>2, <2>2, <2>3 DEF Jobs, MvRemoves
  <2>6. \E z \in Names : /\ z # x /\ disk[ProfileFile(z)] \in Profs
                         /\ disk[ProfileFile(z)].own = disk[ProfileFile(x)].own
    BY <1>2, <1>3, <2>2
  <2> QED BY <1>1, <1>3, <2>4, <2>5, <2>6, RemoveGrounds
<1> QED BY <1>4, <1>5

LEMMA ClearGrounds ==
    ASSUME Inv, NEW p \in Procs, NEW op \in {"apply", "subrm"}, At(p, op, "clear"),
           job[p].left # <<>>,
           Remove(p, ProfileFile(Head(job[p].left)), [job[p] EXCEPT !.left = Tail(@)])
    PROVE  Grounds
<1>1. job[p] # Idle /\ job[p].op = op /\ job[p].put = <<>> /\ job[p] \in Jobs /\ Apt(job[p])
  BY SubAt DEF SubOps
<1>2. PICK x, q : x = Head(job[p].left) /\ q = Tail(job[p].left)
  OBVIOUS
<1>3. x \in Names /\ q \in Seq(Names) /\ q # job[p].left /\ x \in Range(job[p].left)
  <2>1. PICK l : l = job[p].left
    OBVIOUS
  <2>2. l \in Seq(Names) /\ l # <<>>
    BY <1>1, <2>1 DEF Jobs
  <2>3. /\ Head(l) \in Range(l) /\ Tail(l) \in Seq(Names) /\ Tail(l) # l
        /\ Range(l) \subseteq Names
    BY <2>2, Ranges
  <2> QED BY <1>2, <2>1, <2>3
<1>4. PICK j : j = [job[p] EXCEPT !.left = q]
  OBVIOUS
<1>5. j \in Jobs
  BY <1>1, <1>3, <1>4, Zenon DEF Jobs
<1>6. j.left = q /\ j.put = <<>> /\ Remove(p, ProfileFile(x), j)
  BY <1>1, <1>2, <1>4 DEF Jobs
<1>7. Excused(p, x)
  BY <1>1, <1>3 DEF Excused, Apt, SubOps
<1> QED BY <1>1, <1>3, <1>5, <1>6, <1>7, RemoveGrounds

(* A step that changes no profile's file.                                  *)
LEMMA OtherGrounds ==
    ASSUME Inv, NEW p \in Procs, job[p] # Idle, job[p].put = <<>>, NEW f \in Files,
           NEW v \in {Absent, Torn}, NEW j \in Jobs, Change(p, f, v, j), \A n : f # ProfileFile(n),
           j.at # job[p].at
    PROVE  Grounds
BY ChangeGrounds

LEMMA ListGrounds ==
    ASSUME Inv, NEW p \in Procs,
           ApplyLists(p) \/ SubMvSaves(p) \/ FlagSaves(p) \/ MvSavesStatus(p)
    PROVE  Grounds
<1>1. /\ job[p] # Idle /\ job[p].put = <<>> /\ job[p] \in Jobs /\ Apt(job[p])
      /\ ApplyLists(p) => job[p].op = "apply" /\ job[p].at = "pick"
      /\ SubMvSaves(p) => job[p].op = "submv" /\ job[p].at = "save"
      /\ FlagSaves(p) => job[p].op \in {"enable", "disable"} /\ job[p].at = "save"
      /\ MvSavesStatus(p) => job[p].op = "mv" /\ job[p].at = "flag"
  <2>1. CASE ApplyLists(p)
    <3>1. At(p, "apply", "pick")
      BY <2>1 DEF ApplyLists
    <3> QED BY <3>1, SubAt DEF SubOps, SubMvSaves, FlagSaves, MvSavesStatus, At
  <2>2. CASE SubMvSaves(p)
    <3>1. At(p, "submv", "save")
      BY <2>2 DEF SubMvSaves
    <3> QED BY <3>1, SubAt DEF SubOps, ApplyLists, FlagSaves, MvSavesStatus, At
  <2>3. CASE FlagSaves(p)
    <3>1. \E op \in {"enable", "disable"} : At(p, op, "save")
      BY <2>3 DEF FlagSaves
    <3> QED BY <3>1, NameAt DEF NameOps, ApplyLists, SubMvSaves, MvSavesStatus, At
  <2>4. CASE MvSavesStatus(p)
    <3>1. At(p, "mv", "flag")
      BY <2>4 DEF MvSavesStatus
    <3> QED BY <3>1, NameAt DEF NameOps, ApplyLists, SubMvSaves, FlagSaves, At
  <2> QED BY <2>1, <2>2, <2>3, <2>4
<1>2. ASSUME NEW f \in Files, NEW w \in Values, NEW at \in Places, at # job[p].at,
             \A n : f # ProfileFile(n), Write(p, f, w, [job[p] EXCEPT !.at = at])
      PROVE  Grounds
  <2>1. PICK i : i = [job[p] EXCEPT !.at = at]
    OBVIOUS
  <2>2. i \in Jobs
    BY <1>1, <2>1, Zenon DEF Jobs
  <2>3. i.at = at
    BY <1>1, <2>1 DEF Jobs
  <2>4. PICK k : k = [i EXCEPT !.put = <<f, w>>]
    OBVIOUS
  <2>5. k \in Jobs /\ Puts(i, k, f, w)
    BY <2>2, <2>4, Putting, Zenon
  <2>6. k.at # job[p].at /\ Change(p, f, Torn, k)
    BY <1>2, <2>1, <2>3, <2>4, <2>5 DEF Puts, Write
  <2> QED BY <1>1, <1>2, <2>5, <2>6, OtherGrounds
<1>3. CASE ApplyLists(p)
  <2>1. PICK f, w : f = SubFile(job[p].s) /\ w = Subscription(job[p].made)
    OBVIOUS
  <2>2. f \in Files /\ w \in Values /\ \A n : f # ProfileFile(n)
    <3>1. job[p].s \in Subs /\ job[p].made \in Seq(Names)
      BY <1>1, <1>3 DEF Apt, SubOps, Jobs
    <3> QED BY <2>1, <3>1, FileKinds, ListLine
  <2>3. Write(p, f, w, [job[p] EXCEPT !.at = "end"]) /\ "end" \in Places /\ "end" # job[p].at
    BY <1>1, <1>3, <2>1 DEF ApplyLists, NewList, Places
  <2> QED BY <1>2, <2>2, <2>3
<1>4. CASE SubMvSaves(p)
  <2>1. PICK f, w : f = SubFile(job[p].t) /\ w = Subscription(job[p].list)
    OBVIOUS
  <2>2. f \in Files /\ w \in Values /\ \A n : f # ProfileFile(n)
    <3>1. job[p].t \in Subs /\ job[p].list \in Seq(Names)
      BY <1>1, <1>4 DEF Apt, SubOps, Jobs
    <3> QED BY <2>1, <3>1, FileKinds, ListLine
  <2>3. Write(p, f, w, [job[p] EXCEPT !.at = "remove"]) /\ "remove" \in Places /\ "remove" # job[p].at
    BY <1>1, <1>4, <2>1 DEF SubMvSaves, Places
  <2> QED BY <1>2, <2>2, <2>3
<1>5. CASE FlagSaves(p)
  <2>1. StatusFile \in Files /\ job[p].got \in Values /\ \A n : StatusFile # ProfileFile(n)
    BY <1>1, <1>5, FileKinds DEF Apt, Values
  <2>2. /\ Write(p, StatusFile, job[p].got, [job[p] EXCEPT !.at = "end"])
        /\ "end" \in Places /\ "end" # job[p].at
    BY <1>1, <1>5 DEF FlagSaves, Places
  <2> QED BY <1>2, <2>1, <2>2
<1>6. CASE MvSavesStatus(p)
  <2>1. StatusFile \in Files /\ job[p].got \in Values /\ \A n : StatusFile # ProfileFile(n)
    BY <1>1, <1>6, FileKinds DEF Apt, Values
  <2>2. /\ Write(p, StatusFile, job[p].got, [job[p] EXCEPT !.at = "pointers"])
        /\ "pointers" \in Places /\ "pointers" # job[p].at
    BY <1>1, <1>6 DEF MvSavesStatus, Places
  <2> QED BY <1>2, <2>1, <2>2
<1> QED BY <1>3, <1>4, <1>5, <1>6

(* A step that removes the list of s.                                      *)
LEMMA ListGoneGrounds ==
    ASSUME Inv, NEW p \in Procs, job[p] # Idle, job[p].put = <<>>, NEW s \in Subs,
           NEW at \in Places, at # job[p].at, Remove(p, SubFile(s), [job[p] EXCEPT !.at = at])
    PROVE  Grounds
<1>1. job[p] \in Jobs
  BY Here
<1>2. PICK j, f, v : j = [job[p] EXCEPT !.at = at] /\ f = SubFile(s) /\ v = Absent
  OBVIOUS
<1>3. j \in Jobs
  BY <1>1, <1>2, Zenon DEF Jobs
<1>4. j.at = at
  BY <1>1, <1>2 DEF Jobs
<1>5. f \in Files /\ v \in {Absent, Torn} /\ Change(p, f, v, j) /\ \A n : f # ProfileFile(n)
  BY <1>2, FileKinds DEF Remove
<1> QED BY <1>3, <1>4, <1>5, OtherGrounds

LEMMA ClearsGrounds ==
    ASSUME Inv, NEW p \in Procs, ApplyClears(p) \/ SubRmClears(p) PROVE Grounds
<1>1. PICK op \in {"apply", "subrm"} :
          At(p, op, "clear") /\ (op = "apply" => ApplyClears(p)) /\ (op = "subrm" => SubRmClears(p))
  BY Zenon DEF ApplyClears, SubRmClears
<1>2. job[p] # Idle /\ job[p].put = <<>> /\ job[p].s \in Subs /\ job[p].at = "clear"
  BY <1>1, SubAt DEF SubOps
<1>3. CASE job[p].left # <<>> /\ Exists(ProfileFile(Head(job[p].left)))
  <2>1. Remove(p, ProfileFile(Head(job[p].left)), [job[p] EXCEPT !.left = Tail(@)])
    BY <1>1, <1>3 DEF ApplyClears, SubRmClears
  <2> QED BY <1>1, <1>3, <2>1, ClearGrounds
<1>4. CASE ~(job[p].left # <<>> /\ Exists(ProfileFile(Head(job[p].left))))
  <2>1. \/ Leave(p)
        \/ \E j : Read(p, {}, j)
        \/ Remove(p, SubFile(job[p].s), [job[p] EXCEPT !.at = "end"])
    BY <1>4, Zenon DEF ApplyClears, SubRmClears
  <2>2. CASE Remove(p, SubFile(job[p].s), [job[p] EXCEPT !.at = "end"])
    <3>1. "end" \in Places
      BY DEF Places
    <3> QED BY <1>2, <2>2, <3>1, ListGoneGrounds
  <2> QED BY <1>2, <2>1, <2>2, LeaveGrounds, ReadGrounds
<1> QED BY <1>3, <1>4

LEMMA SubMvRemovesGrounds ==
    ASSUME Inv, NEW p \in Procs, SubMvRemoves(p) PROVE Grounds
<1>1. /\ job[p] # Idle /\ job[p].at = "remove" /\ job[p].put = <<>> /\ job[p].s \in Subs
  BY SubAt DEF SubMvRemoves, SubOps
<1>2. CASE Leave(p)
  BY <1>1, <1>2, LeaveGrounds
<1>3. CASE ~Leave(p)
  <2>1. Remove(p, SubFile(job[p].s), [job[p] EXCEPT !.at = "load"]) /\ "load" \in Places
    BY <1>3 DEF SubMvRemoves, Places
  <2> QED BY <1>1, <2>1, ListGoneGrounds
<1> QED BY <1>2, <1>3

LEMMA FlushGrounds ==
    ASSUME Inv, NEW p \in Procs, Flush(p) PROVE Grounds
<1>1. job[p] # Idle /\ job[p].put # <<>>
  BY DEF Flush
<1>2. job[p] \in Jobs /\ Half(job[p]) /\ Knows(disk, job[p], job[p].raced)
  BY <1>1, Here
<1>3. PICK f, v, j : f = job[p].put[1] /\ v = job[p].put[2] /\ j = [job[p] EXCEPT !.put = <<>>]
  OBVIOUS
<1>4. j \in Jobs
  BY <1>2, <1>3, Zenon DEF Jobs
<1>5. j.put # job[p].put /\ f \in Files /\ v \in Holds(f) /\ Change(p, f, v, j)
  BY <1>1, <1>2, <1>3 DEF Jobs, Half, Flush
<1>6. ASSUME NEW n \in Names, f = ProfileFile(n), disk[f] \in Profs PROVE Excused(p, n)
  <2>1. f \notin job[p].raced => disk[f] = Torn
    BY <1>1, <1>2, <1>3 DEF Knows, KnowsHalf
  <2>2. disk[f] # Torn
    BY <1>6 DEF Torn, Profs
  <2> QED BY <1>6, <2>1, <2>2 DEF Excused
<1> QED BY <1>1, <1>3, <1>4, <1>5, <1>6, ChangeGrounds

LEMMA NextGrounds == Inv /\ [Next]_vars => [Grounds]_vars
<1> SUFFICES ASSUME Inv, Next PROVE Grounds
  OBVIOUS
<1>1. PICK p \in Procs : IssueAny(p) \/ Step(p) \/ Kill(p)
  BY DEF Next
<1>2. job \in [Procs -> Jobs \cup {Idle}]
  BY DEF Inv, Typing
<1>3. CASE Kill(p)
  <2>1. disk' = disk /\ (\A q \in Procs \ {p} : job'[q] = job[q]) /\ job'[p] = Idle
    BY <1>2, <1>3 DEF Kill
  <2> QED BY <2>1, AsideGrounds
<1>4. CASE IssueAny(p)
  <2>1. \E op, args : Issue(p, op, args)
    BY <1>4, Zenon DEF IssueAny
  <2>2. disk' = disk /\ (\A q \in Procs \ {p} : job'[q] = job[q]) /\ job[p] = Idle
    BY <1>2, <2>1 DEF Issue
  <2> QED BY <2>2, AsideGrounds
<1>5. CASE SubMvSkips(p) \/ MvFindsNoFlag(p)
  <2>1. disk' = disk /\ (\A q \in Procs \ {p} : job'[q] = job[q]) /\ job[p].put = <<>>
    BY <1>2, <1>5 DEF SubMvSkips, MvFindsNoFlag, At
  <2> QED BY <2>1, AsideGrounds
<1>6. CASE Step(p)
  BY <1>5, <1>6, ReadingGrounds, FlushGrounds, SaveGotGrounds, RmRemovesGrounds, MvSavesGrounds,
     MvRemovesGrounds, ApplySavesGrounds, ListGrounds, ClearsGrounds, SubMvRemovesGrounds,
     SubMvSavesNextGrounds DEF Step, Reading
<1> QED BY <1>1, <1>3, <1>4, <1>6

(* A profile that a user added or imported ends only in a step of a command *)
(* that may end it: rm or add of that very name, a subscription on whose list *)
(* the name stands or which took it over, a command overtaken between its look *)
(* at the file and its write, or a kill in the middle of writing it.  No   *)
(* import, edit, enable, disable or mv, and no server that offers the name. *)
THEOREM OwnAlways == Spec => OwnKept
BY Invariance, NextGrounds, PTL DEF Spec, OwnKept, Grounds
=============================================================================
