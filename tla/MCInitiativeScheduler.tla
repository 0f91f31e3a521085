---------------------- MODULE MCInitiativeScheduler ---------------------------
(* A call of run with a read wave and two Writers, one with a wave alone, and *)
(* one of integrate.                                                          *)
EXTENDS InitiativeScheduler, TLC
MCReaders == ("both" :> {"r1"}) @@ ("wave" :> {"r2"}) @@ ("merge" :> {})
MCWriters == ("both" :> <<"w1", "w2">>) @@ ("wave" :> <<>>) @@ ("merge" :> <<"i">>)
===============================================================================
