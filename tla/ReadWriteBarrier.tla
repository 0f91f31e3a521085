--------------------------- MODULE ReadWriteBarrier ---------------------------
(* What the shared checkout promises, whatever files it is built from: any   *)
(* number of Reader Leases, or one Writer operation, and never both.         *)
CONSTANTS Lease,   \* Reader Leases that can be granted
          Call     \* invocations of Core that can become the Writer

VARIABLES readers, \* the leases whose holders may be reading the checkout
          writers  \* the calls whose Writer operation is running

vars == <<readers, writers>>

Init == readers = {} /\ writers = {}

(* A lease is granted, or handed to the Agent that resumes its dispatch.     *)
BeginRead(l) ==
  /\ writers = {}
  /\ l \notin readers
  /\ readers' = readers \cup {l}
  /\ UNCHANGED writers

(* The holder gives the lease up, hands it to a bound Writer, or dies.       *)
EndRead(l) ==
  /\ l \in readers
  /\ readers' = readers \ {l}
  /\ UNCHANGED writers

BeginWrite(c) ==
  /\ readers = {}
  /\ writers = {}
  /\ writers' = {c}
  /\ UNCHANGED readers

EndWrite(c) ==
  /\ c \in writers
  /\ writers' = writers \ {c}
  /\ UNCHANGED readers

Next ==
  \/ \E l \in Lease : BeginRead(l) \/ EndRead(l)
  \/ \E c \in Call : BeginWrite(c) \/ EndWrite(c)

Spec == Init /\ [][Next]_vars
================================================================================
