----------------------------- MODULE MCProfiles -----------------------------
(* Two commands at a time, two subscriptions that may be renamed into each    *)
(* other, and entries that collide with each other and with the user's own.   *)
EXTENDS Profiles, TLC

Twins      == Permutations(Procs)
MCSwitchOn == Plain("s")
MCDaemonOn == Plain("t")
MCTyped    == {Plain("s"), Plain("t")}
MCLeftovers == {{}, {Plain("t")}}
MCGroups   == {{"s"}}
MCPayloads == {<<Refused>>, <<Unnamed, "s">>}
=============================================================================
