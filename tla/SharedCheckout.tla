---------------------------- MODULE SharedCheckout ----------------------------
(* The Reader Lease / Writer lock protocol of the shared checkout, as the     *)
(* CLI file system implements it with files under .sayhi/.runtime/ :          *)
(*   writer.lock           hard-linked into place by the one Writer;          *)
(*   readers/<dispatch>    hard-linked by a Reader, holding its lease token;  *)
(*   readers/<...>.tmp     the file a marker is linked from, which the        *)
(*                         Writer's readdir counts as a Reader too.           *)
(* A "call" is one invocation of a Core operation: a Phase dispatch, a bound  *)
(* Writer operation or recovery on a held lease, the acceptance of a result,  *)
(* or any other shared-checkout Writer. Calls run in different processes and  *)
(* interleave between any two file operations.                                *)
CONSTANTS
  Call,             \* concurrent invocations of Core
  Lease,            \* Reader Leases, each with its own random token
  Dispatch,         \* dispatch ids, which name the marker files
  DispatchOf,       \* the dispatch id of each lease
  Nobody,           \* no Call holds writer.lock
  NoLease,          \* no marker file, or a call that concerns no lease
  SharedLeaseCalls  \* may one lease be used by two calls at a time?

ASSUME SharedCheckoutConstants ==
  /\ DispatchOf \in [Lease -> Dispatch]
  /\ NoLease \notin Lease
  /\ Nobody \notin Call
  /\ SharedLeaseCalls \in BOOLEAN

VARIABLES
  lock,     \* the owner written in writer.lock, or Nobody
  marker,   \* the token in each dispatch's marker file, or NoLease
  temp,     \* the calls whose .tmp file is in the readers directory
  pc,       \* where each call is
  job,      \* what each call is doing
  lease,    \* the lease each call concerns
  expired,  \* has the call's current 5 second deadline passed?
  issued,   \* leases whose token has been drawn
  held,     \* leases whose holder may be reading: Core handed them out
  stopped,  \* leases whose holder died without giving them back
  lost      \* leases a failed call returned to its caller without a marker

files == <<lock, marker, temp>>
callVars == <<pc, job, lease, expired>>
leaseVars == <<issued, held, stopped, lost>>
vars == <<lock, marker, temp, pc, job, lease, expired, issued, held, stopped,
          lost>>

Jobs == {"none", "dispatch", "giveBack", "bound", "restore", "write"}
Places == {"idle", "awaitWriter", "claimOpen", "claimLink", "claimClean",
           "claimAbort", "recheck", "dispatching", "releaseRead",
           "releaseRemove", "lockTry", "drain", "writing", "unlock",
           "abandon", "dead"}

TypeOK ==
  /\ lock \in Call \cup {Nobody}
  /\ marker \in [Dispatch -> Lease \cup {NoLease}]
  /\ temp \subseteq Call
  /\ pc \in [Call -> Places]
  /\ job \in [Call -> Jobs]
  /\ lease \in [Call -> Lease \cup {NoLease}]
  /\ expired \in [Call -> BOOLEAN]
  /\ issued \subseteq Lease
  /\ held \subseteq Lease
  /\ stopped \subseteq Lease
  /\ lost \subseteq Lease

Init ==
  /\ lock = Nobody
  /\ marker = [d \in Dispatch |-> NoLease]
  /\ temp = {}
  /\ pc = [c \in Call |-> "idle"]
  /\ job = [c \in Call |-> "none"]
  /\ lease = [c \in Call |-> NoLease]
  /\ expired = [c \in Call |-> FALSE]
  /\ issued = {} /\ held = {} /\ stopped = {} /\ lost = {}

(* The marker file of the lease a call concerns, and what readdir sees.       *)
MarkerOf(c) == marker[DispatchOf[lease[c]]]
ReadersEmpty == temp = {} /\ \A d \in Dispatch : marker[d] = NoLease

Goto(c, place) == pc' = [pc EXCEPT ![c] = place]
(* A wait loop takes a deadline of its own when it is entered.                *)
NewDeadline(c) == expired' = [expired EXCEPT ![c] = FALSE]
Enter(c, place, what, l) ==
  /\ pc[c] = "idle"
  /\ Goto(c, place)
  /\ job' = [job EXCEPT ![c] = what]
  /\ lease' = [lease EXCEPT ![c] = l]
  /\ NewDeadline(c)
Return(c) ==
  /\ Goto(c, "idle")
  /\ job' = [job EXCEPT ![c] = "none"]
  /\ lease' = [lease EXCEPT ![c] = NoLease]
  /\ NewDeadline(c)
(* A failed restore still returns the lease to its caller, in the same result *)
(* as a restore that succeeded.                                               *)
Fail(c) ==
  /\ Return(c)
  /\ lost' = IF job[c] = "restore" THEN lost \cup {lease[c]} ELSE lost
(* The catch of a bound Writer: take the Reader Lease back, waiting for the   *)
(* Writer like any Reader.                                                    *)
RestoreAsReader(c) ==
  /\ Goto(c, "awaitWriter")
  /\ job' = [job EXCEPT ![c] = "restore"]
  /\ NewDeadline(c)
  /\ UNCHANGED lease

-------------------------------------------------------------------------------
(* Calls that start.                                                          *)

StartDispatch(c, l) ==
  /\ l \notin issued
  /\ Enter(c, "awaitWriter", "dispatch", l)
  /\ issued' = issued \cup {l}
  /\ UNCHANGED <<held, stopped, lost, files>>

(* withSharedCheckoutWriterLock: every Writer that holds no Reader Lease.     *)
StartWrite(c) ==
  /\ Enter(c, "lockTry", "write", NoLease)
  /\ UNCHANGED <<leaseVars, files>>

BoundInFlight(l) ==
  \E q \in Call : /\ job[q] \in {"bound", "restore"}
                  /\ pc[q] # "dead"
                  /\ lease[q] = l

(* withBoundDurableTaskWriter and recoverDurableTask on an unfinished         *)
(* dispatch: the marker is asserted, and the holder stops reading for the     *)
(* time of the call. Nothing keeps a caller from making two such calls at     *)
(* once with one lease.                                                       *)
StartBound(c, l) ==
  /\ l \in held \/ (SharedLeaseCalls /\ BoundInFlight(l))
  /\ marker[DispatchOf[l]] = l
  /\ Enter(c, "releaseRead", "bound", l)
  /\ held' = held \ {l}
  /\ UNCHANGED <<issued, stopped, lost, files>>

(* An accepted Phase result gives the lease back.                             *)
StartResult(c, l) ==
  /\ l \in held
  /\ marker[DispatchOf[l]] = l
  /\ Enter(c, "releaseRead", "giveBack", l)
  /\ held' = held \ {l}
  /\ UNCHANGED <<issued, stopped, lost, files>>

(* resumeDurablePhaseExecution: the exact lease of an Agent that stopped is   *)
(* handed to the next one after its marker has been asserted.                 *)
ResumeLease(l) ==
  /\ l \in stopped
  /\ marker[DispatchOf[l]] = l
  /\ stopped' = stopped \ {l}
  /\ held' = held \cup {l}
  /\ UNCHANGED <<issued, lost, files, callVars>>

-------------------------------------------------------------------------------
(* acquireSharedCheckoutReaderLease                                           *)

AwaitWriter(c) ==
  /\ pc[c] = "awaitWriter"
  /\ \/ /\ lock = Nobody
        /\ Goto(c, "claimOpen")
        /\ UNCHANGED <<job, lease, expired, lost>>
     \/ /\ lock # Nobody /\ expired[c]
        /\ Fail(c)
  /\ UNCHANGED <<files, issued, held, stopped>>

ClaimOpen(c) ==
  /\ pc[c] = "claimOpen"
  /\ temp' = temp \cup {c}
  /\ Goto(c, "claimLink")
  /\ UNCHANGED <<lock, marker, job, lease, expired, leaseVars>>

(* Mutant: the marker is put in place over the one that is there.             *)
ClaimLinkOverwrites(c) ==
  /\ pc[c] = "claimLink"
  /\ marker' = [marker EXCEPT ![DispatchOf[lease[c]]] = lease[c]]
  /\ Goto(c, "claimClean")
  /\ UNCHANGED <<lock, temp, job, lease, expired, leaseVars>>

(* link() creates the marker; EEXIST is fine when the marker carries the      *)
(* caller's own token, and an ownership error otherwise.                      *)
ClaimLink(c) ==
  /\ pc[c] = "claimLink"
  /\ \/ /\ MarkerOf(c) \in {NoLease, lease[c]}
        /\ marker' = [marker EXCEPT ![DispatchOf[lease[c]]] = lease[c]]
        /\ Goto(c, "claimClean")
     \/ /\ MarkerOf(c) \notin {NoLease, lease[c]}
        /\ Goto(c, "claimAbort")
        /\ UNCHANGED marker
  /\ UNCHANGED <<lock, temp, job, lease, expired, leaseVars>>

(* A Reader re-checks the Writer lock after claiming; a bound Writer that     *)
(* claims while it owns the lock has nothing to re-check.                     *)
ClaimClean(c) ==
  /\ pc[c] = "claimClean"
  /\ temp' = temp \ {c}
  /\ Goto(c, IF job[c] = "bound" THEN "unlock" ELSE "recheck")
  /\ UNCHANGED <<lock, marker, job, lease, expired, leaseVars>>

ClaimAbort(c) ==
  /\ pc[c] = "claimAbort"
  /\ temp' = temp \ {c}
  /\ \/ /\ job[c] = "bound"
        /\ Goto(c, "abandon")
        /\ UNCHANGED <<job, lease, expired, lost>>
     \/ /\ job[c] # "bound"
        /\ Fail(c)
  /\ UNCHANGED <<lock, marker, issued, held, stopped>>

(* Mutant: a Reader that has claimed does not look for the Writer again.      *)
RecheckSkipped(c) ==
  /\ pc[c] = "recheck"
  /\ \/ /\ job[c] = "dispatch"
        /\ Goto(c, "dispatching")
        /\ UNCHANGED <<job, lease, expired, leaseVars>>
     \/ /\ job[c] = "restore"
        /\ held' = held \cup {lease[c]}
        /\ Return(c)
        /\ UNCHANGED <<issued, stopped, lost>>
  /\ UNCHANGED files

(* Mutant: a Reader that meets the Writer fails without removing its marker.  *)
RecheckLeavesMarker(c) ==
  /\ pc[c] = "recheck"
  /\ \/ /\ lock = Nobody /\ job[c] = "dispatch"
        /\ Goto(c, "dispatching")
        /\ UNCHANGED <<job, lease, expired, leaseVars>>
     \/ /\ lock = Nobody /\ job[c] = "restore"
        /\ held' = held \cup {lease[c]}
        /\ Return(c)
        /\ UNCHANGED <<issued, stopped, lost>>
     \/ /\ lock # Nobody
        /\ Fail(c)
        /\ UNCHANGED <<issued, held, stopped>>
  /\ UNCHANGED files

Recheck(c) ==
  /\ pc[c] = "recheck"
  /\ \/ /\ lock = Nobody /\ job[c] = "dispatch"
        /\ Goto(c, "dispatching")
        /\ UNCHANGED <<job, lease, expired, leaseVars>>
     \/ /\ lock = Nobody /\ job[c] = "restore"
        /\ held' = held \cup {lease[c]}
        /\ Return(c)
        /\ UNCHANGED <<issued, stopped, lost>>
     \/ /\ lock # Nobody
        /\ Goto(c, "releaseRead")
        /\ UNCHANGED <<job, lease, expired, leaseVars>>
  /\ UNCHANGED files

(* The dispatch itself, under the Task lock: accepted (or left durable by a   *)
(* failed write), the lease is handed out; rejected, it is given back.        *)
Dispatched(c) ==
  /\ pc[c] = "dispatching"
  /\ \/ /\ held' = held \cup {lease[c]}
        /\ Return(c)
        /\ UNCHANGED <<issued, stopped, lost>>
     \/ /\ Goto(c, "releaseRead")
        /\ job' = [job EXCEPT ![c] = "giveBack"]
        /\ UNCHANGED <<lease, expired, leaseVars>>
  /\ UNCHANGED files

-------------------------------------------------------------------------------
(* releaseSharedCheckoutReaderLease: read the token, then remove the file.    *)

(* What follows a release that threw: a bound Writer tries to be a Reader     *)
(* again, every other call fails.                                             *)
ReleaseFailed(c) ==
  \/ job[c] = "bound" /\ RestoreAsReader(c) /\ UNCHANGED lost
  \/ job[c] # "bound" /\ Fail(c)

ReleaseRead(c) ==
  /\ pc[c] = "releaseRead"
  /\ \/ /\ MarkerOf(c) = lease[c]
        /\ Goto(c, "releaseRemove")
        /\ UNCHANGED <<job, lease, expired, lost>>
     \/ /\ MarkerOf(c) # lease[c]
        /\ ReleaseFailed(c)
  /\ UNCHANGED <<files, issued, held, stopped>>

(* After the removal: a bound Writer goes for the lock, a Reader that backed  *)
(* off from a Writer waits again or runs out of time, the rest return.        *)
ReleaseRemove(c) ==
  /\ pc[c] = "releaseRemove"
  /\ \/ /\ MarkerOf(c) = NoLease
        /\ ReleaseFailed(c)
        /\ UNCHANGED marker
     \/ /\ MarkerOf(c) # NoLease
        /\ marker' = [marker EXCEPT ![DispatchOf[lease[c]]] = NoLease]
        /\ \/ /\ job[c] = "bound"
              /\ Goto(c, "lockTry")
              /\ NewDeadline(c)
              /\ UNCHANGED <<job, lease, lost>>
           \/ /\ job[c] \in {"dispatch", "restore"} /\ ~expired[c]
              /\ Goto(c, "awaitWriter")
              /\ UNCHANGED <<job, lease, expired, lost>>
           \/ /\ job[c] = "giveBack" \/ (job[c] # "bound" /\ expired[c])
              /\ Fail(c)
  /\ UNCHANGED <<lock, temp, issued, held, stopped>>

-------------------------------------------------------------------------------
(* withWriterMutationLock                                                     *)

(* A call that loses the lock, or its patience, before its operation ran.     *)
WriterFailed(c) ==
  \/ job[c] = "bound" /\ RestoreAsReader(c)
  \/ job[c] # "bound" /\ Return(c)

LockTry(c) ==
  /\ pc[c] = "lockTry"
  /\ \/ /\ lock = Nobody
        /\ lock' = c
        /\ Goto(c, "drain")
        /\ NewDeadline(c)
        /\ UNCHANGED <<job, lease>>
     \/ /\ lock # Nobody /\ expired[c]
        /\ WriterFailed(c)
        /\ UNCHANGED lock
  /\ UNCHANGED <<marker, temp, leaseVars>>

(* Mutants: the Writer stops waiting and writes; it never stops waiting.      *)
DrainGivesUp(c) ==
  /\ pc[c] = "drain"
  /\ ReadersEmpty \/ expired[c]
  /\ Goto(c, "writing")
  /\ UNCHANGED <<job, lease, expired, files, leaseVars>>
DrainForEver(c) ==
  /\ pc[c] = "drain"
  /\ ReadersEmpty
  /\ Goto(c, "writing")
  /\ UNCHANGED <<job, lease, expired, files, leaseVars>>

(* waitForReaderLeases                                                        *)
Drain(c) ==
  /\ pc[c] = "drain"
  /\ \/ ReadersEmpty /\ Goto(c, "writing")
     \/ ~ReadersEmpty /\ expired[c] /\ Goto(c, "abandon")
  /\ UNCHANGED <<job, lease, expired, files, leaseVars>>

(* The Writer operation is over. A bound Writer whose dispatch is still the   *)
(* open one claims its lease again before it unlocks; otherwise the lease is  *)
(* not restored.                                                              *)
FinishWrite(c) ==
  /\ pc[c] = "writing"
  /\ \/ /\ job[c] = "bound"
        /\ Goto(c, "claimOpen")
        /\ UNCHANGED <<job, lease>>
     \/ /\ Goto(c, "unlock")
        /\ job' = [job EXCEPT ![c] = "write"]
        /\ lease' = [lease EXCEPT ![c] = NoLease]
  /\ UNCHANGED <<expired, files, leaseVars>>

(* Mutant: every Writer restores a lease, also one that has none.             *)
UnlockRestoresAlways(c) ==
  /\ pc[c] = "unlock"
  /\ lock' = Nobody
  /\ held' = held \cup {lease[c]}
  /\ Return(c)
  /\ UNCHANGED <<marker, temp, issued, stopped, lost>>

Unlock(c) ==
  /\ pc[c] = "unlock"
  /\ lock' = Nobody
  /\ held' = IF job[c] = "bound" THEN held \cup {lease[c]} ELSE held
  /\ Return(c)
  /\ UNCHANGED <<marker, temp, issued, stopped, lost>>

(* The finally of a Writer that failed after it had taken the lock.           *)
Abandon(c) ==
  /\ pc[c] = "abandon"
  /\ lock' = Nobody
  /\ WriterFailed(c)
  /\ UNCHANGED <<marker, temp, leaseVars>>

-------------------------------------------------------------------------------
(* The environment.                                                           *)

Waiting == {"awaitWriter", "recheck", "releaseRead", "releaseRemove",
            "claimOpen", "claimLink", "claimClean", "lockTry", "drain"}

DeadlinePasses(c) ==
  /\ pc[c] \in Waiting
  /\ ~expired[c]
  /\ expired' = [expired EXCEPT ![c] = TRUE]
  /\ UNCHANGED <<pc, job, lease, files, leaseVars>>

Crash(c) ==
  /\ pc[c] \notin {"idle", "dead"}
  /\ Goto(c, "dead")
  /\ UNCHANGED <<job, lease, expired, files, leaseVars>>

HolderDies(l) ==
  /\ l \in held
  /\ held' = held \ {l}
  /\ stopped' = stopped \cup {l}
  /\ UNCHANGED <<issued, lost, files, callVars>>

CallStep(c) ==
  \/ AwaitWriter(c) \/ ClaimOpen(c) \/ ClaimLink(c) \/ ClaimClean(c)
  \/ ClaimAbort(c) \/ Recheck(c) \/ Dispatched(c) \/ ReleaseRead(c)
  \/ ReleaseRemove(c) \/ LockTry(c) \/ Drain(c) \/ FinishWrite(c)
  \/ Unlock(c) \/ Abandon(c)

Next ==
  \/ \E c \in Call : CallStep(c) \/ DeadlinePasses(c) \/ Crash(c)
                     \/ StartWrite(c)
  \/ \E c \in Call, l \in Lease :
       StartDispatch(c, l) \/ StartBound(c, l) \/ StartResult(c, l)
  \/ \E l \in Lease : ResumeLease(l) \/ HolderDies(l)

Spec == Init /\ [][Next]_vars

(* A live process executes its next step and its clock runs; nobody has to    *)
(* start a call, to crash, or to give a lease back.                           *)
FairSpec ==
  /\ Spec
  /\ \A c \in Call : WF_vars(CallStep(c)) /\ WF_vars(DeadlinePasses(c))

-------------------------------------------------------------------------------
(* Properties.                                                                *)

WritersNow == {c \in Call : pc[c] = "writing"}

(* No Agent reads the checkout under a Reader Lease while a Writer operation  *)
(* runs, though no file operation tests both sides at once: a Reader claims,  *)
(* then looks for the lock, a Writer locks, then looks for claims.            *)
ReadersExcludeWriters == WritersNow # {} => held = {}

(* Two Writer operations never run at once, whatever crashed in between.      *)
OneWriter == \A c, q \in WritersNow : c = q

(* Every marker in the readers directory can be accounted for: its lease is   *)
(* held, was held by an Agent that died, or belongs to a call in progress (or *)
(* one that crashed). A lease forgotten by a call that returned would stop    *)
(* every later Writer and nobody would have the token to remove it.           *)
NoOrphanMarker ==
  \A d \in Dispatch :
    marker[d] # NoLease =>
      \/ marker[d] \in held \cup stopped
      \/ \E c \in Call : pc[c] # "idle" /\ lease[c] = marker[d]

(* A lease that Core handed out keeps its marker until its own holder gives   *)
(* it up: no other call's retry, back-off or release removes it.              *)
HeldLeaseKeepsMarker == \A l \in held : marker[DispatchOf[l]] = l

(* The protocol implements the abstract barrier.                              *)
Barrier == INSTANCE ReadWriteBarrier WITH readers <- held, writers <- WritersNow
BarrierSpec == Barrier!Spec

(* Violated. Reader and Writer activity does not overlap for any Agent that   *)
(* Core gave a Reader Lease: one whose bound Writer call failed, with its     *)
(* lease in the result, goes on reading, and no Writer operation runs then.   *)
ReturnedReadersExcludeWriters == WritersNow # {} => held \cup lost = {}

(* Every call returns, however many other processes hold leases, hold the     *)
(* lock or crashed holding them: the deadlines bound every wait.              *)
EveryCallReturns ==
  \A c \in Call : (pc[c] # "idle") ~> (pc[c] \in {"idle", "dead"})
================================================================================
