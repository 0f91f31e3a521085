--------------------------- MODULE MCManagedProject ---------------------------
(* Instances of ManagedProject for TLC: a file of each Ownership Class, and   *)
(* two releases whose templates differ where they are not the user's.         *)
(* (Initialisation works on config first; plans leave it as it is wherever    *)
(* it comes.)                                                                 *)
EXTENDS ManagedProject, TLC

CONSTANTS c1, c2, config, ignore, agents, b1, b2

Order == <<config, ignore, agents>>
Classes == config :> "user" @@ ignore :> "engine" @@ agents :> "customizable"
Blocks == config :> <<b1, b1>> @@ ignore :> <<b1, b2>> @@ agents :> <<b1, b2>>

Symmetry == Permutations(Call)
===============================================================================
