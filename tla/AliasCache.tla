------------------------------ MODULE AliasCache ------------------------------
(***************************************************************************)
(* What a model server promises about the champion alias it caches: it     *)
(* serves nothing until it has loaded a champion, it then always serves    *)
(* some version, and whenever it changes what it serves, the new version   *)
(* is one the alias named at some moment since the previous refresh. It    *)
(* may lag behind the registry; it never invents, mixes up or goes back    *)
(* beyond one refresh.                                                     *)
(***************************************************************************)
CONSTANTS Versions, NoVersion

VARIABLES
    alias,    \* the champion alias, NoVersion when unset
    window,   \* the values the alias has had since the last refresh ended
    served    \* the version served, NoVersion before the first load

vars == <<alias, window, served>>

Init == alias = NoVersion /\ window = {NoVersion} /\ served = NoVersion

\* Somebody promotes or rolls back.
Move(v) ==
    /\ alias' = v
    /\ window' = window \cup {v}
    /\ UNCHANGED served

\* A refresh ends: it found the alias at some value of the window, or kept
\* what it had.
Refresh ==
    /\ served' \in (window \ {NoVersion}) \cup ({served} \ {NoVersion})
    /\ window' = {alias}
    /\ UNCHANGED alias

Next == (\E v \in Versions \cup {NoVersion} : Move(v)) \/ Refresh

Spec == Init /\ [][Next]_vars

=============================================================================
