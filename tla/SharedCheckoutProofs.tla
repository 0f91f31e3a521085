------------------------- MODULE SharedCheckoutProofs -------------------------
(* For every set of calls, leases and dispatches, and with crashes at every   *)
(* file operation: Readers and Writers exclude each other as long as no lease *)
(* is used by two calls at a time, and the protocol implements the barrier.   *)
EXTENDS SharedCheckout, TLAPS

-------------------------------------------------------------------------------
(* The inductive invariant.                                                   *)

LeaseJobs == {"dispatch", "giveBack", "bound", "restore"}
(* A call's place, job and lease agree.                                       *)
CallsWellFormed ==
  \A c \in Call :
    /\ (lease[c] \in Lease) <=> (job[c] \in LeaseJobs)
    /\ pc[c] = "idle" => job[c] = "none"
    /\ pc[c] \in {"awaitWriter", "recheck"} => job[c] \in {"dispatch", "restore"}
    /\ pc[c] \in {"claimOpen", "claimLink", "claimClean", "claimAbort"} =>
         job[c] \in {"dispatch", "restore", "bound"}
    /\ pc[c] = "dispatching" => job[c] = "dispatch"
    /\ pc[c] \in {"releaseRead", "releaseRemove"} => job[c] \in LeaseJobs
    /\ pc[c] \in {"lockTry", "drain", "writing", "unlock", "abandon"} =>
         job[c] \in {"bound", "write"}

(* Each lease is in one hand only.                                            *)
Kept == held \cup stopped
LeaseInOneHand ==
  /\ held \cap stopped = {}
  /\ Kept \cup lost \subseteq issued
  /\ \A c \in Call : lease[c] \in Lease =>
       lease[c] \in issued \ (Kept \cup lost)
  /\ \A c, q \in Call : lease[c] \in Lease /\ lease[c] = lease[q] => c = q
  /\ Kept \cap lost = {}

(* A call between taking writer.lock and removing it owns it.                 *)
OwnsLock(c) ==
  \/ pc[c] \in {"drain", "writing", "unlock", "abandon"}
  \/ /\ pc[c] \in {"claimOpen", "claimLink", "claimClean", "claimAbort"}
     /\ job[c] = "bound"
LockOwned == \A c \in Call : OwnsLock(c) => lock = c

(* A call that has claimed its marker and not yet removed it.                 *)
Claimed(c) ==
  \/ pc[c] \in {"claimClean", "recheck", "dispatching", "releaseRead",
                "releaseRemove"}
  \/ pc[c] = "unlock" /\ job[c] = "bound"
Unclaimed(c) ==
  /\ pc[c] \in {"awaitWriter", "claimOpen", "claimLink", "claimAbort",
                "lockTry", "drain", "writing", "abandon"}
  /\ lease[c] \in Lease
KeptInPlace == \A l \in Kept : marker[DispatchOf[l]] = l
ClaimedInPlace == \A c \in Call : Claimed(c) => MarkerOf(c) = lease[c]
UnclaimedElsewhere == \A c \in Call : Unclaimed(c) => MarkerOf(c) # lease[c]
MarkersIssued ==
  \A d \in Dispatch : marker[d] # NoLease =>
    marker[d] \in issued /\ DispatchOf[marker[d]] = d

(* While a Writer operation runs nobody may read, and no dispatch that has    *)
(* passed its re-check is still to return.                                    *)
NoReaderPastWriter ==
  \A c \in WritersNow : Kept = {} /\ \A q \in Call : pc[q] # "dispatching"

IInv ==
  /\ TypeOK
  /\ CallsWellFormed
  /\ LeaseInOneHand
  /\ LockOwned
  /\ KeptInPlace
  /\ ClaimedInPlace
  /\ UnclaimedElsewhere
  /\ MarkersIssued
  /\ NoOrphanMarker
  /\ NoReaderPastWriter

-------------------------------------------------------------------------------
(* Every action keeps every conjunct: one lemma per action, one step per      *)
(* conjunct.                                                                  *)

LEMMA AwaitWriterKeepsInvariant ==
  ASSUME IInv, SharedLeaseCalls = FALSE, NEW c \in Call, AwaitWriter(c)
  PROVE  IInv'
<1> USE SharedCheckoutConstants DEF IInv, AwaitWriter, Goto, NewDeadline,
     Return, Fail, files
<1>1. TypeOK'
  <2>1. job[c] = "restore" => lease[c] \in Lease
    BY DEF CallsWellFormed, LeaseJobs
  <2>2. pc[c] \in {"recheck", "dispatching"} => lease[c] \in Lease
    BY DEF CallsWellFormed, LeaseJobs
  <2> QED BY <2>1, <2>2 DEF TypeOK, Jobs, Places
<1>2. CallsWellFormed'
  BY DEF TypeOK, CallsWellFormed, LeaseJobs
<1>3. LeaseInOneHand'
  BY DEF TypeOK, CallsWellFormed, LeaseJobs, LeaseInOneHand, Kept, KeptInPlace
<1>4. LockOwned'
  BY DEF TypeOK, CallsWellFormed, LeaseJobs, LockOwned, OwnsLock
<1>5. KeptInPlace'
  BY DEF TypeOK, CallsWellFormed, LeaseJobs, LeaseInOneHand, Kept,
       KeptInPlace, ClaimedInPlace, Claimed
<1>6. ClaimedInPlace'
  BY DEF TypeOK, CallsWellFormed, LeaseJobs, LeaseInOneHand, Kept,
       KeptInPlace, ClaimedInPlace, Claimed, MarkerOf
<1>7. UnclaimedElsewhere'
  BY DEF TypeOK, CallsWellFormed, LeaseJobs, LeaseInOneHand, Kept,
       KeptInPlace, UnclaimedElsewhere, ClaimedInPlace, Claimed, Unclaimed,
       MarkersIssued, MarkerOf
<1>8. MarkersIssued'
  BY DEF TypeOK, CallsWellFormed, LeaseJobs, LeaseInOneHand, MarkersIssued
<1>9. NoOrphanMarker'
  BY DEF TypeOK, CallsWellFormed, LeaseJobs, LeaseInOneHand, MarkersIssued,
       KeptInPlace, ClaimedInPlace, UnclaimedElsewhere, Claimed, Unclaimed,
       Kept, NoOrphanMarker, MarkerOf
<1>10. NoReaderPastWriter'
  BY DEF TypeOK, CallsWellFormed, LeaseJobs, LockOwned, OwnsLock, KeptInPlace,
       ClaimedInPlace, Kept, Claimed, NoReaderPastWriter, WritersNow,
       MarkerOf, ReadersEmpty
<1> QED BY <1>1, <1>2, <1>3, <1>4, <1>5, <1>6, <1>7, <1>8, <1>9, <1>10

LEMMA ClaimOpenKeepsInvariant ==
  ASSUME IInv, SharedLeaseCalls = FALSE, NEW c \in Call, ClaimOpen(c)
  PROVE  IInv'
<1> USE SharedCheckoutConstants DEF IInv, ClaimOpen, Goto, leaseVars
<1>1. TypeOK'
  BY DEF TypeOK, CallsWellFormed, LeaseJobs, Jobs, Places
<1>2. CallsWellFormed'
  BY DEF TypeOK, CallsWellFormed, LeaseJobs
<1>3. LeaseInOneHand'
  BY DEF TypeOK, CallsWellFormed, LeaseJobs, LeaseInOneHand, Kept, KeptInPlace
<1>4. LockOwned'
  BY DEF TypeOK, CallsWellFormed, LeaseJobs, LockOwned, OwnsLock
<1>5. KeptInPlace'
  BY DEF TypeOK, CallsWellFormed, LeaseJobs, LeaseInOneHand, Kept,
       KeptInPlace, ClaimedInPlace, Claimed
<1>6. ClaimedInPlace'
  BY DEF TypeOK, CallsWellFormed, LeaseJobs, LeaseInOneHand, Kept,
       KeptInPlace, ClaimedInPlace, Claimed, MarkerOf
<1>7. UnclaimedElsewhere'
  BY DEF TypeOK, CallsWellFormed, LeaseJobs, LeaseInOneHand, Kept,
       KeptInPlace, UnclaimedElsewhere, ClaimedInPlace, Claimed, Unclaimed,
       MarkersIssued, MarkerOf
<1>8. MarkersIssued'
  BY DEF TypeOK, CallsWellFormed, LeaseJobs, LeaseInOneHand, MarkersIssued
<1>9. NoOrphanMarker'
  BY DEF TypeOK, CallsWellFormed, LeaseJobs, LeaseInOneHand, MarkersIssued,
       KeptInPlace, ClaimedInPlace, UnclaimedElsewhere, Claimed, Unclaimed,
       Kept, NoOrphanMarker, MarkerOf
<1>10. NoReaderPastWriter'
  BY DEF TypeOK, CallsWellFormed, LeaseJobs, LockOwned, OwnsLock, KeptInPlace,
       ClaimedInPlace, Kept, Claimed, NoReaderPastWriter, WritersNow,
       MarkerOf, ReadersEmpty
<1> QED BY <1>1, <1>2, <1>3, <1>4, <1>5, <1>6, <1>7, <1>8, <1>9, <1>10

LEMMA ClaimLinkKeepsInvariant ==
  ASSUME IInv, SharedLeaseCalls = FALSE, NEW c \in Call, ClaimLink(c)
  PROVE  IInv'
<1> USE SharedCheckoutConstants DEF IInv, ClaimLink, MarkerOf, Goto, leaseVars
<1>1. TypeOK'
  BY DEF TypeOK, CallsWellFormed, LeaseJobs, Jobs, Places
<1>2. CallsWellFormed'
  BY DEF TypeOK, CallsWellFormed, LeaseJobs
<1>3. LeaseInOneHand'
  BY DEF TypeOK, CallsWellFormed, LeaseJobs, LeaseInOneHand, Kept, KeptInPlace
<1>4. LockOwned'
  BY DEF TypeOK, CallsWellFormed, LeaseJobs, LockOwned, OwnsLock
<1>5. KeptInPlace'
  BY DEF TypeOK, CallsWellFormed, LeaseJobs, LeaseInOneHand, Kept,
       KeptInPlace, ClaimedInPlace, Claimed
<1>6. ClaimedInPlace'
  BY DEF TypeOK, CallsWellFormed, LeaseJobs, LeaseInOneHand, Kept,
       KeptInPlace, ClaimedInPlace, Claimed, MarkerOf
<1>7. UnclaimedElsewhere'
  BY DEF TypeOK, CallsWellFormed, LeaseJobs, LeaseInOneHand, Kept,
       KeptInPlace, UnclaimedElsewhere, ClaimedInPlace, Claimed, Unclaimed,
       MarkersIssued, MarkerOf
<1>8. MarkersIssued'
  BY DEF TypeOK, CallsWellFormed, LeaseJobs, LeaseInOneHand, MarkersIssued
<1>9. NoOrphanMarker'
  BY DEF TypeOK, CallsWellFormed, LeaseJobs, LeaseInOneHand, MarkersIssued,
       KeptInPlace, ClaimedInPlace, UnclaimedElsewhere, Claimed, Unclaimed,
       Kept, NoOrphanMarker, MarkerOf
<1>10. NoReaderPastWriter'
  BY DEF TypeOK, CallsWellFormed, LeaseJobs, LockOwned, OwnsLock, KeptInPlace,
       ClaimedInPlace, Kept, Claimed, NoReaderPastWriter, WritersNow,
       MarkerOf, ReadersEmpty
<1> QED BY <1>1, <1>2, <1>3, <1>4, <1>5, <1>6, <1>7, <1>8, <1>9, <1>10

LEMMA ClaimCleanKeepsInvariant ==
  ASSUME IInv, SharedLeaseCalls = FALSE, NEW c \in Call, ClaimClean(c)
  PROVE  IInv'
<1> USE SharedCheckoutConstants DEF IInv, ClaimClean, Goto, leaseVars
<1>1. TypeOK'
  BY DEF TypeOK, CallsWellFormed, LeaseJobs, Jobs, Places
<1>2. CallsWellFormed'
  BY DEF TypeOK, CallsWellFormed, LeaseJobs
<1>3. LeaseInOneHand'
  BY DEF TypeOK, CallsWellFormed, LeaseJobs, LeaseInOneHand, Kept, KeptInPlace
<1>4. LockOwned'
  BY DEF TypeOK, CallsWellFormed, LeaseJobs, LockOwned, OwnsLock
<1>5. KeptInPlace'
  BY DEF TypeOK, CallsWellFormed, LeaseJobs, LeaseInOneHand, Kept,
       KeptInPlace, ClaimedInPlace, Claimed
<1>6. ClaimedInPlace'
  BY DEF TypeOK, CallsWellFormed, LeaseJobs, LeaseInOneHand, Kept,
       KeptInPlace, ClaimedInPlace, Claimed, MarkerOf
<1>7. UnclaimedElsewhere'
  BY DEF TypeOK, CallsWellFormed, LeaseJobs, LeaseInOneHand, Kept,
       KeptInPlace, UnclaimedElsewhere, ClaimedInPlace, Claimed, Unclaimed,
       MarkersIssued, MarkerOf
<1>8. MarkersIssued'
  BY DEF TypeOK, CallsWellFormed, LeaseJobs, LeaseInOneHand, MarkersIssued
<1>9. NoOrphanMarker'
  BY DEF TypeOK, CallsWellFormed, LeaseJobs, LeaseInOneHand, MarkersIssued,
       KeptInPlace, ClaimedInPlace, UnclaimedElsewhere, Claimed, Unclaimed,
       Kept, NoOrphanMarker, MarkerOf
<1>10. NoReaderPastWriter'
  BY DEF TypeOK, CallsWellFormed, LeaseJobs, LockOwned, OwnsLock, KeptInPlace,
       ClaimedInPlace, Kept, Claimed, NoReaderPastWriter, WritersNow,
       MarkerOf, ReadersEmpty
<1> QED BY <1>1, <1>2, <1>3, <1>4, <1>5, <1>6, <1>7, <1>8, <1>9, <1>10

LEMMA ClaimAbortKeepsInvariant ==
  ASSUME IInv, SharedLeaseCalls = FALSE, NEW c \in Call, ClaimAbort(c)
  PROVE  IInv'
<1> USE SharedCheckoutConstants DEF IInv, ClaimAbort, Goto, NewDeadline, Return,
     Fail
<1>1. TypeOK'
  <2>1. job[c] = "restore" => lease[c] \in Lease
    BY DEF CallsWellFormed, LeaseJobs
  <2>2. pc[c] \in {"recheck", "dispatching"} => lease[c] \in Lease
    BY DEF CallsWellFormed, LeaseJobs
  <2> QED BY <2>1, <2>2 DEF TypeOK, Jobs, Places
<1>2. CallsWellFormed'
  BY DEF TypeOK, CallsWellFormed, LeaseJobs
<1>3. LeaseInOneHand'
  BY DEF TypeOK, CallsWellFormed, LeaseJobs, LeaseInOneHand, Kept, KeptInPlace
<1>4. LockOwned'
  BY DEF TypeOK, CallsWellFormed, LeaseJobs, LockOwned, OwnsLock
<1>5. KeptInPlace'
  BY DEF TypeOK, CallsWellFormed, LeaseJobs, LeaseInOneHand, Kept,
       KeptInPlace, ClaimedInPlace, Claimed
<1>6. ClaimedInPlace'
  BY DEF TypeOK, CallsWellFormed, LeaseJobs, LeaseInOneHand, Kept,
       KeptInPlace, ClaimedInPlace, Claimed, MarkerOf
<1>7. UnclaimedElsewhere'
  BY DEF TypeOK, CallsWellFormed, LeaseJobs, LeaseInOneHand, Kept,
       KeptInPlace, UnclaimedElsewhere, ClaimedInPlace, Claimed, Unclaimed,
       MarkersIssued, MarkerOf
<1>8. MarkersIssued'
  BY DEF TypeOK, CallsWellFormed, LeaseJobs, LeaseInOneHand, MarkersIssued
<1>9. NoOrphanMarker'
  BY DEF TypeOK, CallsWellFormed, LeaseJobs, LeaseInOneHand, MarkersIssued,
       KeptInPlace, ClaimedInPlace, UnclaimedElsewhere, Claimed, Unclaimed,
       Kept, NoOrphanMarker, MarkerOf
<1>10. NoReaderPastWriter'
  BY DEF TypeOK, CallsWellFormed, LeaseJobs, LockOwned, OwnsLock, KeptInPlace,
       ClaimedInPlace, Kept, Claimed, NoReaderPastWriter, WritersNow,
       MarkerOf, ReadersEmpty
<1> QED BY <1>1, <1>2, <1>3, <1>4, <1>5, <1>6, <1>7, <1>8, <1>9, <1>10

LEMMA RecheckKeepsInvariant ==
  ASSUME IInv, SharedLeaseCalls = FALSE, NEW c \in Call, Recheck(c)
  PROVE  IInv'
<1> USE SharedCheckoutConstants DEF IInv, Recheck, Goto, NewDeadline, Return,
     files, leaseVars
<1>1. TypeOK'
  <2>1. job[c] = "restore" => lease[c] \in Lease
    BY DEF CallsWellFormed, LeaseJobs
  <2>2. pc[c] \in {"recheck", "dispatching"} => lease[c] \in Lease
    BY DEF CallsWellFormed, LeaseJobs
  <2> QED BY <2>1, <2>2 DEF TypeOK, Jobs, Places
<1>2. CallsWellFormed'
  BY DEF TypeOK, CallsWellFormed, LeaseJobs
<1>3. LeaseInOneHand'
  BY DEF TypeOK, CallsWellFormed, LeaseJobs, LeaseInOneHand, Kept, KeptInPlace
<1>4. LockOwned'
  BY DEF TypeOK, CallsWellFormed, LeaseJobs, LockOwned, OwnsLock
<1>5. KeptInPlace'
  <2>1. Kept' \subseteq Kept \cup {lease[c]}
    BY DEF Kept
  <2>2. lease[c] \in Kept' \ Kept => Claimed(c)
    BY DEF Kept, Claimed
  <2>3. \A l \in Kept : marker'[DispatchOf[l]] = l
    BY DEF KeptInPlace
  <2>4. Claimed(c) => marker'[DispatchOf[lease[c]]] = lease[c]
    BY DEF ClaimedInPlace, MarkerOf
  <2> QED BY <2>1, <2>2, <2>3, <2>4 DEF KeptInPlace
<1>6. ClaimedInPlace'
  BY DEF TypeOK, CallsWellFormed, LeaseJobs, LeaseInOneHand, Kept,
       KeptInPlace, ClaimedInPlace, Claimed, MarkerOf
<1>7. UnclaimedElsewhere'
  BY DEF TypeOK, CallsWellFormed, LeaseJobs, LeaseInOneHand, Kept,
       KeptInPlace, UnclaimedElsewhere, ClaimedInPlace, Claimed, Unclaimed,
       MarkersIssued, MarkerOf
<1>8. MarkersIssued'
  BY DEF TypeOK, CallsWellFormed, LeaseJobs, LeaseInOneHand, MarkersIssued
<1>9. NoOrphanMarker'
  BY DEF TypeOK, CallsWellFormed, LeaseJobs, LeaseInOneHand, MarkersIssued,
       KeptInPlace, ClaimedInPlace, UnclaimedElsewhere, Claimed, Unclaimed,
       Kept, NoOrphanMarker, MarkerOf
<1>10. NoReaderPastWriter'
  BY DEF TypeOK, CallsWellFormed, LeaseJobs, LockOwned, OwnsLock, KeptInPlace,
       ClaimedInPlace, Kept, Claimed, NoReaderPastWriter, WritersNow,
       MarkerOf, ReadersEmpty
<1> QED BY <1>1, <1>2, <1>3, <1>4, <1>5, <1>6, <1>7, <1>8, <1>9, <1>10

LEMMA DispatchedKeepsInvariant ==
  ASSUME IInv, SharedLeaseCalls = FALSE, NEW c \in Call, Dispatched(c)
  PROVE  IInv'
<1> USE SharedCheckoutConstants DEF IInv, Dispatched, Goto, NewDeadline, Return,
     files, leaseVars
<1>1. TypeOK'
  <2>1. job[c] = "restore" => lease[c] \in Lease
    BY DEF CallsWellFormed, LeaseJobs
  <2>2. pc[c] \in {"recheck", "dispatching"} => lease[c] \in Lease
    BY DEF CallsWellFormed, LeaseJobs
  <2> QED BY <2>1, <2>2 DEF TypeOK, Jobs, Places
<1>2. CallsWellFormed'
  BY DEF TypeOK, CallsWellFormed, LeaseJobs
<1>3. LeaseInOneHand'
  BY DEF TypeOK, CallsWellFormed, LeaseJobs, LeaseInOneHand, Kept, KeptInPlace
<1>4. LockOwned'
  BY DEF TypeOK, CallsWellFormed, LeaseJobs, LockOwned, OwnsLock
<1>5. KeptInPlace'
  <2>1. Kept' \subseteq Kept \cup {lease[c]}
    BY DEF Kept
  <2>2. lease[c] \in Kept' \ Kept => Claimed(c)
    BY DEF Kept, Claimed
  <2>3. \A l \in Kept : marker'[DispatchOf[l]] = l
    BY DEF KeptInPlace
  <2>4. Claimed(c) => marker'[DispatchOf[lease[c]]] = lease[c]
    BY DEF ClaimedInPlace, MarkerOf
  <2> QED BY <2>1, <2>2, <2>3, <2>4 DEF KeptInPlace
<1>6. ClaimedInPlace'
  BY DEF TypeOK, CallsWellFormed, LeaseJobs, LeaseInOneHand, Kept,
       KeptInPlace, ClaimedInPlace, Claimed, MarkerOf
<1>7. UnclaimedElsewhere'
  BY DEF TypeOK, CallsWellFormed, LeaseJobs, LeaseInOneHand, Kept,
       KeptInPlace, UnclaimedElsewhere, ClaimedInPlace, Claimed, Unclaimed,
       MarkersIssued, MarkerOf
<1>8. MarkersIssued'
  BY DEF TypeOK, CallsWellFormed, LeaseJobs, LeaseInOneHand, MarkersIssued
<1>9. NoOrphanMarker'
  BY DEF TypeOK, CallsWellFormed, LeaseJobs, LeaseInOneHand, MarkersIssued,
       KeptInPlace, ClaimedInPlace, UnclaimedElsewhere, Claimed, Unclaimed,
       Kept, NoOrphanMarker, MarkerOf
<1>10. NoReaderPastWriter'
  BY DEF TypeOK, CallsWellFormed, LeaseJobs, LockOwned, OwnsLock, KeptInPlace,
       ClaimedInPlace, Kept, Claimed, NoReaderPastWriter, WritersNow,
       MarkerOf, ReadersEmpty
<1> QED BY <1>1, <1>2, <1>3, <1>4, <1>5, <1>6, <1>7, <1>8, <1>9, <1>10

LEMMA ReleaseReadKeepsInvariant ==
  ASSUME IInv, SharedLeaseCalls = FALSE, NEW c \in Call, ReleaseRead(c)
  PROVE  IInv'
<1> USE SharedCheckoutConstants DEF IInv, ReleaseRead, MarkerOf, Goto,
     NewDeadline, Return, Fail, RestoreAsReader, ReleaseFailed, files
<1>1. TypeOK'
  <2>1. job[c] = "restore" => lease[c] \in Lease
    BY DEF CallsWellFormed, LeaseJobs
  <2>2. pc[c] \in {"recheck", "dispatching"} => lease[c] \in Lease
    BY DEF CallsWellFormed, LeaseJobs
  <2> QED BY <2>1, <2>2 DEF TypeOK, Jobs, Places
<1>2. CallsWellFormed'
  BY DEF TypeOK, CallsWellFormed, LeaseJobs
<1>3. LeaseInOneHand'
  BY DEF TypeOK, CallsWellFormed, LeaseJobs, LeaseInOneHand, Kept, KeptInPlace
<1>4. LockOwned'
  BY DEF TypeOK, CallsWellFormed, LeaseJobs, LockOwned, OwnsLock
<1>5. KeptInPlace'
  BY DEF TypeOK, CallsWellFormed, LeaseJobs, LeaseInOneHand, Kept,
       KeptInPlace, ClaimedInPlace, Claimed
<1>6. ClaimedInPlace'
  BY DEF TypeOK, CallsWellFormed, LeaseJobs, LeaseInOneHand, Kept,
       KeptInPlace, ClaimedInPlace, Claimed, MarkerOf
<1>7. UnclaimedElsewhere'
  BY DEF TypeOK, CallsWellFormed, LeaseJobs, LeaseInOneHand, Kept,
       KeptInPlace, UnclaimedElsewhere, ClaimedInPlace, Claimed, Unclaimed,
       MarkersIssued, MarkerOf
<1>8. MarkersIssued'
  BY DEF TypeOK, CallsWellFormed, LeaseJobs, LeaseInOneHand, MarkersIssued
<1>9. NoOrphanMarker'
  BY DEF TypeOK, CallsWellFormed, LeaseJobs, LeaseInOneHand, MarkersIssued,
       KeptInPlace, ClaimedInPlace, UnclaimedElsewhere, Claimed, Unclaimed,
       Kept, NoOrphanMarker, MarkerOf
<1>10. NoReaderPastWriter'
  BY DEF TypeOK, CallsWellFormed, LeaseJobs, LockOwned, OwnsLock, KeptInPlace,
       ClaimedInPlace, Kept, Claimed, NoReaderPastWriter, WritersNow,
       MarkerOf, ReadersEmpty
<1> QED BY <1>1, <1>2, <1>3, <1>4, <1>5, <1>6, <1>7, <1>8, <1>9, <1>10

LEMMA ReleaseRemoveKeepsInvariant ==
  ASSUME IInv, SharedLeaseCalls = FALSE, NEW c \in Call, ReleaseRemove(c)
  PROVE  IInv'
<1> USE SharedCheckoutConstants DEF IInv, ReleaseRemove, MarkerOf, Goto,
     NewDeadline, Return, Fail, RestoreAsReader, ReleaseFailed
<1>1. TypeOK'
  <2>1. job[c] = "restore" => lease[c] \in Lease
    BY DEF CallsWellFormed, LeaseJobs
  <2>2. pc[c] \in {"recheck", "dispatching"} => lease[c] \in Lease
    BY DEF CallsWellFormed, LeaseJobs
  <2> QED BY <2>1, <2>2 DEF TypeOK, Jobs, Places
<1>2. CallsWellFormed'
  BY DEF TypeOK, CallsWellFormed, LeaseJobs
<1>3. LeaseInOneHand'
  BY DEF TypeOK, CallsWellFormed, LeaseJobs, LeaseInOneHand, Kept, KeptInPlace
<1>4. LockOwned'
  BY DEF TypeOK, CallsWellFormed, LeaseJobs, LockOwned, OwnsLock
<1>5. KeptInPlace'
  BY DEF TypeOK, CallsWellFormed, LeaseJobs, LeaseInOneHand, Kept,
       KeptInPlace, ClaimedInPlace, Claimed
<1>6. ClaimedInPlace'
  BY DEF TypeOK, CallsWellFormed, LeaseJobs, LeaseInOneHand, Kept,
       KeptInPlace, ClaimedInPlace, Claimed, MarkerOf
<1>7. UnclaimedElsewhere'
  BY DEF TypeOK, CallsWellFormed, LeaseJobs, LeaseInOneHand, Kept,
       KeptInPlace, UnclaimedElsewhere, ClaimedInPlace, Claimed, Unclaimed,
       MarkersIssued, MarkerOf
<1>8. MarkersIssued'
  BY DEF TypeOK, CallsWellFormed, LeaseJobs, LeaseInOneHand, MarkersIssued
<1>9. NoOrphanMarker'
  BY DEF TypeOK, CallsWellFormed, LeaseJobs, LeaseInOneHand, MarkersIssued,
       KeptInPlace, ClaimedInPlace, UnclaimedElsewhere, Claimed, Unclaimed,
       Kept, NoOrphanMarker, MarkerOf
<1>10. NoReaderPastWriter'
  BY DEF TypeOK, CallsWellFormed, LeaseJobs, LockOwned, OwnsLock, KeptInPlace,
       ClaimedInPlace, Kept, Claimed, NoReaderPastWriter, WritersNow,
       MarkerOf, ReadersEmpty
<1> QED BY <1>1, <1>2, <1>3, <1>4, <1>5, <1>6, <1>7, <1>8, <1>9, <1>10

LEMMA LockTryKeepsInvariant ==
  ASSUME IInv, SharedLeaseCalls = FALSE, NEW c \in Call, LockTry(c)
  PROVE  IInv'
<1> USE SharedCheckoutConstants DEF IInv, LockTry, Goto, NewDeadline, Return,
     RestoreAsReader, WriterFailed, leaseVars
<1>1. TypeOK'
  BY DEF TypeOK, CallsWellFormed, LeaseJobs, Jobs, Places
<1>2. CallsWellFormed'
  BY DEF TypeOK, CallsWellFormed, LeaseJobs
<1>3. LeaseInOneHand'
  BY DEF TypeOK, CallsWellFormed, LeaseJobs, LeaseInOneHand, Kept, KeptInPlace
<1>4. LockOwned'
  BY DEF TypeOK, CallsWellFormed, LeaseJobs, LockOwned, OwnsLock
<1>5. KeptInPlace'
  BY DEF TypeOK, CallsWellFormed, LeaseJobs, LeaseInOneHand, Kept,
       KeptInPlace, ClaimedInPlace, Claimed
<1>6. ClaimedInPlace'
  BY DEF TypeOK, CallsWellFormed, LeaseJobs, LeaseInOneHand, Kept,
       KeptInPlace, ClaimedInPlace, Claimed, MarkerOf
<1>7. UnclaimedElsewhere'
  BY DEF TypeOK, CallsWellFormed, LeaseJobs, LeaseInOneHand, Kept,
       KeptInPlace, UnclaimedElsewhere, ClaimedInPlace, Claimed, Unclaimed,
       MarkersIssued, MarkerOf
<1>8. MarkersIssued'
  BY DEF TypeOK, CallsWellFormed, LeaseJobs, LeaseInOneHand, MarkersIssued
<1>9. NoOrphanMarker'
  BY DEF TypeOK, CallsWellFormed, LeaseJobs, LeaseInOneHand, MarkersIssued,
       KeptInPlace, ClaimedInPlace, UnclaimedElsewhere, Claimed, Unclaimed,
       Kept, NoOrphanMarker, MarkerOf
<1>10. NoReaderPastWriter'
  BY DEF TypeOK, CallsWellFormed, LeaseJobs, LockOwned, OwnsLock, KeptInPlace,
       ClaimedInPlace, Kept, Claimed, NoReaderPastWriter, WritersNow,
       MarkerOf, ReadersEmpty
<1> QED BY <1>1, <1>2, <1>3, <1>4, <1>5, <1>6, <1>7, <1>8, <1>9, <1>10

LEMMA DrainKeepsInvariant ==
  ASSUME IInv, SharedLeaseCalls = FALSE, NEW c \in Call, Drain(c)
  PROVE  IInv'
<1> USE SharedCheckoutConstants DEF IInv, Drain, ReadersEmpty, Goto, files,
     leaseVars
<1>1. TypeOK'
  BY DEF TypeOK, CallsWellFormed, LeaseJobs, Jobs, Places
<1>2. CallsWellFormed'
  BY DEF TypeOK, CallsWellFormed, LeaseJobs
<1>3. LeaseInOneHand'
  BY DEF TypeOK, CallsWellFormed, LeaseJobs, LeaseInOneHand, Kept, KeptInPlace
<1>4. LockOwned'
  BY DEF TypeOK, CallsWellFormed, LeaseJobs, LockOwned, OwnsLock
<1>5. KeptInPlace'
  BY DEF TypeOK, CallsWellFormed, LeaseJobs, LeaseInOneHand, Kept,
       KeptInPlace, ClaimedInPlace, Claimed
<1>6. ClaimedInPlace'
  BY DEF TypeOK, CallsWellFormed, LeaseJobs, LeaseInOneHand, Kept,
       KeptInPlace, ClaimedInPlace, Claimed, MarkerOf
<1>7. UnclaimedElsewhere'
  BY DEF TypeOK, CallsWellFormed, LeaseJobs, LeaseInOneHand, Kept,
       KeptInPlace, UnclaimedElsewhere, ClaimedInPlace, Claimed, Unclaimed,
       MarkersIssued, MarkerOf
<1>8. MarkersIssued'
  BY DEF TypeOK, CallsWellFormed, LeaseJobs, LeaseInOneHand, MarkersIssued
<1>9. NoOrphanMarker'
  BY DEF TypeOK, CallsWellFormed, LeaseJobs, LeaseInOneHand, MarkersIssued,
       KeptInPlace, ClaimedInPlace, UnclaimedElsewhere, Claimed, Unclaimed,
       Kept, NoOrphanMarker, MarkerOf
<1>10. NoReaderPastWriter'
  BY DEF TypeOK, CallsWellFormed, LeaseJobs, LockOwned, OwnsLock, KeptInPlace,
       ClaimedInPlace, Kept, Claimed, NoReaderPastWriter, WritersNow,
       MarkerOf, ReadersEmpty
<1> QED BY <1>1, <1>2, <1>3, <1>4, <1>5, <1>6, <1>7, <1>8, <1>9, <1>10

LEMMA FinishWriteKeepsInvariant ==
  ASSUME IInv, SharedLeaseCalls = FALSE, NEW c \in Call, FinishWrite(c)
  PROVE  IInv'
<1> USE SharedCheckoutConstants DEF IInv, FinishWrite, Goto, files, leaseVars
<1>1. TypeOK'
  BY DEF TypeOK, CallsWellFormed, LeaseJobs, Jobs, Places
<1>2. CallsWellFormed'
  BY DEF TypeOK, CallsWellFormed, LeaseJobs
<1>3. LeaseInOneHand'
  BY DEF TypeOK, CallsWellFormed, LeaseJobs, LeaseInOneHand, Kept, KeptInPlace
<1>4. LockOwned'
  BY DEF TypeOK, CallsWellFormed, LeaseJobs, LockOwned, OwnsLock
<1>5. KeptInPlace'
  BY DEF TypeOK, CallsWellFormed, LeaseJobs, LeaseInOneHand, Kept,
       KeptInPlace, ClaimedInPlace, Claimed
<1>6. ClaimedInPlace'
  BY DEF TypeOK, CallsWellFormed, LeaseJobs, LeaseInOneHand, Kept,
       KeptInPlace, ClaimedInPlace, Claimed, MarkerOf
<1>7. UnclaimedElsewhere'
  BY DEF TypeOK, CallsWellFormed, LeaseJobs, LeaseInOneHand, Kept,
       KeptInPlace, UnclaimedElsewhere, ClaimedInPlace, Claimed, Unclaimed,
       MarkersIssued, MarkerOf
<1>8. MarkersIssued'
  BY DEF TypeOK, CallsWellFormed, LeaseJobs, LeaseInOneHand, MarkersIssued
<1>9. NoOrphanMarker'
  BY DEF TypeOK, CallsWellFormed, LeaseJobs, LeaseInOneHand, MarkersIssued,
       KeptInPlace, ClaimedInPlace, UnclaimedElsewhere, Claimed, Unclaimed,
       Kept, NoOrphanMarker, MarkerOf
<1>10. NoReaderPastWriter'
  BY DEF TypeOK, CallsWellFormed, LeaseJobs, LockOwned, OwnsLock, KeptInPlace,
       ClaimedInPlace, Kept, Claimed, NoReaderPastWriter, WritersNow,
       MarkerOf, ReadersEmpty
<1> QED BY <1>1, <1>2, <1>3, <1>4, <1>5, <1>6, <1>7, <1>8, <1>9, <1>10

LEMMA UnlockKeepsInvariant ==
  ASSUME IInv, SharedLeaseCalls = FALSE, NEW c \in Call, Unlock(c)
  PROVE  IInv'
<1> USE SharedCheckoutConstants DEF IInv, Unlock, Goto, NewDeadline, Return
<1>1. TypeOK'
  BY DEF TypeOK, CallsWellFormed, LeaseJobs, Jobs, Places
<1>2. CallsWellFormed'
  BY DEF TypeOK, CallsWellFormed, LeaseJobs
<1>3. LeaseInOneHand'
  BY DEF TypeOK, CallsWellFormed, LeaseJobs, LeaseInOneHand, Kept, KeptInPlace
<1>4. LockOwned'
  BY DEF TypeOK, CallsWellFormed, LeaseJobs, LockOwned, OwnsLock
<1>5. KeptInPlace'
  <2>1. Kept' \subseteq Kept \cup {lease[c]}
    BY DEF Kept
  <2>2. lease[c] \in Kept' \ Kept => Claimed(c)
    BY DEF Kept, Claimed
  <2>3. \A l \in Kept : marker'[DispatchOf[l]] = l
    BY DEF KeptInPlace
  <2>4. Claimed(c) => marker'[DispatchOf[lease[c]]] = lease[c]
    BY DEF ClaimedInPlace, MarkerOf
  <2> QED BY <2>1, <2>2, <2>3, <2>4 DEF KeptInPlace
<1>6. ClaimedInPlace'
  BY DEF TypeOK, CallsWellFormed, LeaseJobs, LeaseInOneHand, Kept,
       KeptInPlace, ClaimedInPlace, Claimed, MarkerOf
<1>7. UnclaimedElsewhere'
  BY DEF TypeOK, CallsWellFormed, LeaseJobs, LeaseInOneHand, Kept,
       KeptInPlace, UnclaimedElsewhere, ClaimedInPlace, Claimed, Unclaimed,
       MarkersIssued, MarkerOf
<1>8. MarkersIssued'
  BY DEF TypeOK, CallsWellFormed, LeaseJobs, LeaseInOneHand, MarkersIssued
<1>9. NoOrphanMarker'
  BY DEF TypeOK, CallsWellFormed, LeaseJobs, LeaseInOneHand, MarkersIssued,
       KeptInPlace, ClaimedInPlace, UnclaimedElsewhere, Claimed, Unclaimed,
       Kept, NoOrphanMarker, MarkerOf
<1>10. NoReaderPastWriter'
  BY DEF TypeOK, CallsWellFormed, LeaseJobs, LockOwned, OwnsLock, KeptInPlace,
       ClaimedInPlace, Kept, Claimed, NoReaderPastWriter, WritersNow,
       MarkerOf, ReadersEmpty
<1> QED BY <1>1, <1>2, <1>3, <1>4, <1>5, <1>6, <1>7, <1>8, <1>9, <1>10

LEMMA AbandonKeepsInvariant ==
  ASSUME IInv, SharedLeaseCalls = FALSE, NEW c \in Call, Abandon(c)
  PROVE  IInv'
<1> USE SharedCheckoutConstants DEF IInv, Abandon, Goto, NewDeadline, Return,
     RestoreAsReader, WriterFailed, leaseVars
<1>1. TypeOK'
  BY DEF TypeOK, CallsWellFormed, LeaseJobs, Jobs, Places
<1>2. CallsWellFormed'
  BY DEF TypeOK, CallsWellFormed, LeaseJobs
<1>3. LeaseInOneHand'
  BY DEF TypeOK, CallsWellFormed, LeaseJobs, LeaseInOneHand, Kept, KeptInPlace
<1>4. LockOwned'
  BY DEF TypeOK, CallsWellFormed, LeaseJobs, LockOwned, OwnsLock
<1>5. KeptInPlace'
  BY DEF TypeOK, CallsWellFormed, LeaseJobs, LeaseInOneHand, Kept,
       KeptInPlace, ClaimedInPlace, Claimed
<1>6. ClaimedInPlace'
  BY DEF TypeOK, CallsWellFormed, LeaseJobs, LeaseInOneHand, Kept,
       KeptInPlace, ClaimedInPlace, Claimed, MarkerOf
<1>7. UnclaimedElsewhere'
  BY DEF TypeOK, CallsWellFormed, LeaseJobs, LeaseInOneHand, Kept,
       KeptInPlace, UnclaimedElsewhere, ClaimedInPlace, Claimed, Unclaimed,
       MarkersIssued, MarkerOf
<1>8. MarkersIssued'
  BY DEF TypeOK, CallsWellFormed, LeaseJobs, LeaseInOneHand, MarkersIssued
<1>9. NoOrphanMarker'
  BY DEF TypeOK, CallsWellFormed, LeaseJobs, LeaseInOneHand, MarkersIssued,
       KeptInPlace, ClaimedInPlace, UnclaimedElsewhere, Claimed, Unclaimed,
       Kept, NoOrphanMarker, MarkerOf
<1>10. NoReaderPastWriter'
  BY DEF TypeOK, CallsWellFormed, LeaseJobs, LockOwned, OwnsLock, KeptInPlace,
       ClaimedInPlace, Kept, Claimed, NoReaderPastWriter, WritersNow,
       MarkerOf, ReadersEmpty
<1> QED BY <1>1, <1>2, <1>3, <1>4, <1>5, <1>6, <1>7, <1>8, <1>9, <1>10

LEMMA DeadlinePassesKeepsInvariant ==
  ASSUME IInv, SharedLeaseCalls = FALSE, NEW c \in Call, DeadlinePasses(c)
  PROVE  IInv'
<1> USE SharedCheckoutConstants DEF IInv, DeadlinePasses, files, leaseVars,
     Waiting
<1>1. TypeOK'
  BY DEF TypeOK, CallsWellFormed, LeaseJobs, Jobs, Places
<1>2. CallsWellFormed'
  BY DEF TypeOK, CallsWellFormed, LeaseJobs
<1>3. LeaseInOneHand'
  BY DEF TypeOK, CallsWellFormed, LeaseJobs, LeaseInOneHand, Kept, KeptInPlace
<1>4. LockOwned'
  BY DEF TypeOK, CallsWellFormed, LeaseJobs, LockOwned, OwnsLock
<1>5. KeptInPlace'
  BY DEF TypeOK, CallsWellFormed, LeaseJobs, LeaseInOneHand, Kept,
       KeptInPlace, ClaimedInPlace, Claimed
<1>6. ClaimedInPlace'
  BY DEF TypeOK, CallsWellFormed, LeaseJobs, LeaseInOneHand, Kept,
       KeptInPlace, ClaimedInPlace, Claimed, MarkerOf
<1>7. UnclaimedElsewhere'
  BY DEF TypeOK, CallsWellFormed, LeaseJobs, LeaseInOneHand, Kept,
       KeptInPlace, UnclaimedElsewhere, ClaimedInPlace, Claimed, Unclaimed,
       MarkersIssued, MarkerOf
<1>8. MarkersIssued'
  BY DEF TypeOK, CallsWellFormed, LeaseJobs, LeaseInOneHand, MarkersIssued
<1>9. NoOrphanMarker'
  BY DEF TypeOK, CallsWellFormed, LeaseJobs, LeaseInOneHand, MarkersIssued,
       KeptInPlace, ClaimedInPlace, UnclaimedElsewhere, Claimed, Unclaimed,
       Kept, NoOrphanMarker, MarkerOf
<1>10. NoReaderPastWriter'
  BY DEF TypeOK, CallsWellFormed, LeaseJobs, LockOwned, OwnsLock, KeptInPlace,
       ClaimedInPlace, Kept, Claimed, NoReaderPastWriter, WritersNow,
       MarkerOf, ReadersEmpty
<1> QED BY <1>1, <1>2, <1>3, <1>4, <1>5, <1>6, <1>7, <1>8, <1>9, <1>10

LEMMA CrashKeepsInvariant ==
  ASSUME IInv, SharedLeaseCalls = FALSE, NEW c \in Call, Crash(c)
  PROVE  IInv'
<1> USE SharedCheckoutConstants DEF IInv, Crash, Goto, files, leaseVars
<1>1. TypeOK'
  BY DEF TypeOK, CallsWellFormed, LeaseJobs, Jobs, Places
<1>2. CallsWellFormed'
  BY DEF TypeOK, CallsWellFormed, LeaseJobs
<1>3. LeaseInOneHand'
  BY DEF TypeOK, CallsWellFormed, LeaseJobs, LeaseInOneHand, Kept, KeptInPlace
<1>4. LockOwned'
  BY DEF TypeOK, CallsWellFormed, LeaseJobs, LockOwned, OwnsLock
<1>5. KeptInPlace'
  BY DEF TypeOK, CallsWellFormed, LeaseJobs, LeaseInOneHand, Kept,
       KeptInPlace, ClaimedInPlace, Claimed
<1>6. ClaimedInPlace'
  BY DEF TypeOK, CallsWellFormed, LeaseJobs, LeaseInOneHand, Kept,
       KeptInPlace, ClaimedInPlace, Claimed, MarkerOf
<1>7. UnclaimedElsewhere'
  BY DEF TypeOK, CallsWellFormed, LeaseJobs, LeaseInOneHand, Kept,
       KeptInPlace, UnclaimedElsewhere, ClaimedInPlace, Claimed, Unclaimed,
       MarkersIssued, MarkerOf
<1>8. MarkersIssued'
  BY DEF TypeOK, CallsWellFormed, LeaseJobs, LeaseInOneHand, MarkersIssued
<1>9. NoOrphanMarker'
  BY DEF TypeOK, CallsWellFormed, LeaseJobs, LeaseInOneHand, MarkersIssued,
       KeptInPlace, ClaimedInPlace, UnclaimedElsewhere, Claimed, Unclaimed,
       Kept, NoOrphanMarker, MarkerOf
<1>10. NoReaderPastWriter'
  BY DEF TypeOK, CallsWellFormed, LeaseJobs, LockOwned, OwnsLock, KeptInPlace,
       ClaimedInPlace, Kept, Claimed, NoReaderPastWriter, WritersNow,
       MarkerOf, ReadersEmpty
<1> QED BY <1>1, <1>2, <1>3, <1>4, <1>5, <1>6, <1>7, <1>8, <1>9, <1>10

LEMMA StartWriteKeepsInvariant ==
  ASSUME IInv, SharedLeaseCalls = FALSE, NEW c \in Call, StartWrite(c)
  PROVE  IInv'
<1> USE SharedCheckoutConstants DEF IInv, StartWrite, Goto, NewDeadline, Enter,
     files, leaseVars
<1>1. TypeOK'
  BY DEF TypeOK, CallsWellFormed, LeaseJobs, Jobs, Places
<1>2. CallsWellFormed'
  BY DEF TypeOK, CallsWellFormed, LeaseJobs
<1>3. LeaseInOneHand'
  BY DEF TypeOK, CallsWellFormed, LeaseJobs, LeaseInOneHand, Kept, KeptInPlace
<1>4. LockOwned'
  BY DEF TypeOK, CallsWellFormed, LeaseJobs, LockOwned, OwnsLock
<1>5. KeptInPlace'
  BY DEF TypeOK, CallsWellFormed, LeaseJobs, LeaseInOneHand, Kept,
       KeptInPlace, ClaimedInPlace, Claimed
<1>6. ClaimedInPlace'
  BY DEF TypeOK, CallsWellFormed, LeaseJobs, LeaseInOneHand, Kept,
       KeptInPlace, ClaimedInPlace, Claimed, MarkerOf
<1>7. UnclaimedElsewhere'
  BY DEF TypeOK, CallsWellFormed, LeaseJobs, LeaseInOneHand, Kept,
       KeptInPlace, UnclaimedElsewhere, ClaimedInPlace, Claimed, Unclaimed,
       MarkersIssued, MarkerOf
<1>8. MarkersIssued'
  BY DEF TypeOK, CallsWellFormed, LeaseJobs, LeaseInOneHand, MarkersIssued
<1>9. NoOrphanMarker'
  BY DEF TypeOK, CallsWellFormed, LeaseJobs, LeaseInOneHand, MarkersIssued,
       KeptInPlace, ClaimedInPlace, UnclaimedElsewhere, Claimed, Unclaimed,
       Kept, NoOrphanMarker, MarkerOf
<1>10. NoReaderPastWriter'
  BY DEF TypeOK, CallsWellFormed, LeaseJobs, LockOwned, OwnsLock, KeptInPlace,
       ClaimedInPlace, Kept, Claimed, NoReaderPastWriter, WritersNow,
       MarkerOf, ReadersEmpty
<1> QED BY <1>1, <1>2, <1>3, <1>4, <1>5, <1>6, <1>7, <1>8, <1>9, <1>10

LEMMA StartDispatchKeepsInvariant ==
  ASSUME IInv, SharedLeaseCalls = FALSE,
         NEW c \in Call, NEW l \in Lease, StartDispatch(c, l)
  PROVE  IInv'
<1> USE SharedCheckoutConstants DEF IInv, StartDispatch, Goto, NewDeadline,
     Enter, files
<1>1. TypeOK'
  BY DEF TypeOK, CallsWellFormed, LeaseJobs, Jobs, Places
<1>2. CallsWellFormed'
  BY DEF TypeOK, CallsWellFormed, LeaseJobs
<1>3. LeaseInOneHand'
  BY DEF TypeOK, CallsWellFormed, LeaseJobs, LeaseInOneHand, Kept, KeptInPlace
<1>4. LockOwned'
  BY DEF TypeOK, CallsWellFormed, LeaseJobs, LockOwned, OwnsLock
<1>5. KeptInPlace'
  BY DEF TypeOK, CallsWellFormed, LeaseJobs, LeaseInOneHand, Kept,
       KeptInPlace, ClaimedInPlace, Claimed
<1>6. ClaimedInPlace'
  BY DEF TypeOK, CallsWellFormed, LeaseJobs, LeaseInOneHand, Kept,
       KeptInPlace, ClaimedInPlace, Claimed, MarkerOf
<1>7. UnclaimedElsewhere'
  BY DEF TypeOK, CallsWellFormed, LeaseJobs, LeaseInOneHand, Kept,
       KeptInPlace, UnclaimedElsewhere, ClaimedInPlace, Claimed, Unclaimed,
       MarkersIssued, MarkerOf
<1>8. MarkersIssued'
  BY DEF TypeOK, CallsWellFormed, LeaseJobs, LeaseInOneHand, MarkersIssued
<1>9. NoOrphanMarker'
  BY DEF TypeOK, CallsWellFormed, LeaseJobs, LeaseInOneHand, MarkersIssued,
       KeptInPlace, ClaimedInPlace, UnclaimedElsewhere, Claimed, Unclaimed,
       Kept, NoOrphanMarker, MarkerOf
<1>10. NoReaderPastWriter'
  BY DEF TypeOK, CallsWellFormed, LeaseJobs, LockOwned, OwnsLock, KeptInPlace,
       ClaimedInPlace, Kept, Claimed, NoReaderPastWriter, WritersNow,
       MarkerOf, ReadersEmpty
<1> QED BY <1>1, <1>2, <1>3, <1>4, <1>5, <1>6, <1>7, <1>8, <1>9, <1>10

LEMMA StartBoundKeepsInvariant ==
  ASSUME IInv, SharedLeaseCalls = FALSE,
         NEW c \in Call, NEW l \in Lease, StartBound(c, l)
  PROVE  IInv'
<1> USE SharedCheckoutConstants DEF IInv, StartBound, Goto, NewDeadline, Enter,
     files
<1>1. TypeOK'
  BY DEF TypeOK, CallsWellFormed, LeaseJobs, Jobs, Places
<1>2. CallsWellFormed'
  BY DEF TypeOK, CallsWellFormed, LeaseJobs
<1>3. LeaseInOneHand'
  BY DEF TypeOK, CallsWellFormed, LeaseJobs, LeaseInOneHand, Kept, KeptInPlace
<1>4. LockOwned'
  BY DEF TypeOK, CallsWellFormed, LeaseJobs, LockOwned, OwnsLock
<1>5. KeptInPlace'
  BY DEF TypeOK, CallsWellFormed, LeaseJobs, LeaseInOneHand, Kept,
       KeptInPlace, ClaimedInPlace, Claimed
<1>6. ClaimedInPlace'
  BY DEF TypeOK, CallsWellFormed, LeaseJobs, LeaseInOneHand, Kept,
       KeptInPlace, ClaimedInPlace, Claimed, MarkerOf
<1>7. UnclaimedElsewhere'
  BY DEF TypeOK, CallsWellFormed, LeaseJobs, LeaseInOneHand, Kept,
       KeptInPlace, UnclaimedElsewhere, ClaimedInPlace, Claimed, Unclaimed,
       MarkersIssued, MarkerOf
<1>8. MarkersIssued'
  BY DEF TypeOK, CallsWellFormed, LeaseJobs, LeaseInOneHand, MarkersIssued
<1>9. NoOrphanMarker'
  BY DEF TypeOK, CallsWellFormed, LeaseJobs, LeaseInOneHand, MarkersIssued,
       KeptInPlace, ClaimedInPlace, UnclaimedElsewhere, Claimed, Unclaimed,
       Kept, NoOrphanMarker, MarkerOf
<1>10. NoReaderPastWriter'
  BY DEF TypeOK, CallsWellFormed, LeaseJobs, LockOwned, OwnsLock, KeptInPlace,
       ClaimedInPlace, Kept, Claimed, NoReaderPastWriter, WritersNow,
       MarkerOf, ReadersEmpty
<1> QED BY <1>1, <1>2, <1>3, <1>4, <1>5, <1>6, <1>7, <1>8, <1>9, <1>10

LEMMA StartResultKeepsInvariant ==
  ASSUME IInv, SharedLeaseCalls = FALSE,
         NEW c \in Call, NEW l \in Lease, StartResult(c, l)
  PROVE  IInv'
<1> USE SharedCheckoutConstants DEF IInv, StartResult, Goto, NewDeadline, Enter,
     files
<1>1. TypeOK'
  BY DEF TypeOK, CallsWellFormed, LeaseJobs, Jobs, Places
<1>2. CallsWellFormed'
  BY DEF TypeOK, CallsWellFormed, LeaseJobs
<1>3. LeaseInOneHand'
  BY DEF TypeOK, CallsWellFormed, LeaseJobs, LeaseInOneHand, Kept, KeptInPlace
<1>4. LockOwned'
  BY DEF TypeOK, CallsWellFormed, LeaseJobs, LockOwned, OwnsLock
<1>5. KeptInPlace'
  BY DEF TypeOK, CallsWellFormed, LeaseJobs, LeaseInOneHand, Kept,
       KeptInPlace, ClaimedInPlace, Claimed
<1>6. ClaimedInPlace'
  BY DEF TypeOK, CallsWellFormed, LeaseJobs, LeaseInOneHand, Kept,
       KeptInPlace, ClaimedInPlace, Claimed, MarkerOf
<1>7. UnclaimedElsewhere'
  BY DEF TypeOK, CallsWellFormed, LeaseJobs, LeaseInOneHand, Kept,
       KeptInPlace, UnclaimedElsewhere, ClaimedInPlace, Claimed, Unclaimed,
       MarkersIssued, MarkerOf
<1>8. MarkersIssued'
  BY DEF TypeOK, CallsWellFormed, LeaseJobs, LeaseInOneHand, MarkersIssued
<1>9. NoOrphanMarker'
  BY DEF TypeOK, CallsWellFormed, LeaseJobs, LeaseInOneHand, MarkersIssued,
       KeptInPlace, ClaimedInPlace, UnclaimedElsewhere, Claimed, Unclaimed,
       Kept, NoOrphanMarker, MarkerOf
<1>10. NoReaderPastWriter'
  BY DEF TypeOK, CallsWellFormed, LeaseJobs, LockOwned, OwnsLock, KeptInPlace,
       ClaimedInPlace, Kept, Claimed, NoReaderPastWriter, WritersNow,
       MarkerOf, ReadersEmpty
<1> QED BY <1>1, <1>2, <1>3, <1>4, <1>5, <1>6, <1>7, <1>8, <1>9, <1>10

LEMMA ResumeLeaseKeepsInvariant ==
  ASSUME IInv, SharedLeaseCalls = FALSE, NEW l \in Lease, ResumeLease(l)
  PROVE  IInv'
<1> USE SharedCheckoutConstants DEF IInv, ResumeLease, files, callVars
<1>1. TypeOK'
  BY DEF TypeOK, CallsWellFormed, LeaseJobs, Jobs, Places
<1>2. CallsWellFormed'
  BY DEF TypeOK, CallsWellFormed, LeaseJobs
<1>3. LeaseInOneHand'
  BY DEF TypeOK, CallsWellFormed, LeaseJobs, LeaseInOneHand, Kept, KeptInPlace
<1>4. LockOwned'
  BY DEF TypeOK, CallsWellFormed, LeaseJobs, LockOwned, OwnsLock
<1>5. KeptInPlace'
  BY DEF TypeOK, CallsWellFormed, LeaseJobs, LeaseInOneHand, Kept,
       KeptInPlace, ClaimedInPlace, Claimed
<1>6. ClaimedInPlace'
  BY DEF TypeOK, CallsWellFormed, LeaseJobs, LeaseInOneHand, Kept,
       KeptInPlace, ClaimedInPlace, Claimed, MarkerOf
<1>7. UnclaimedElsewhere'
  BY DEF TypeOK, CallsWellFormed, LeaseJobs, LeaseInOneHand, Kept,
       KeptInPlace, UnclaimedElsewhere, ClaimedInPlace, Claimed, Unclaimed,
       MarkersIssued, MarkerOf
<1>8. MarkersIssued'
  BY DEF TypeOK, CallsWellFormed, LeaseJobs, LeaseInOneHand, MarkersIssued
<1>9. NoOrphanMarker'
  BY DEF TypeOK, CallsWellFormed, LeaseJobs, LeaseInOneHand, MarkersIssued,
       KeptInPlace, ClaimedInPlace, UnclaimedElsewhere, Claimed, Unclaimed,
       Kept, NoOrphanMarker, MarkerOf
<1>10. NoReaderPastWriter'
  BY DEF TypeOK, CallsWellFormed, LeaseJobs, LockOwned, OwnsLock, KeptInPlace,
       ClaimedInPlace, Kept, Claimed, NoReaderPastWriter, WritersNow,
       MarkerOf, ReadersEmpty
<1> QED BY <1>1, <1>2, <1>3, <1>4, <1>5, <1>6, <1>7, <1>8, <1>9, <1>10

LEMMA HolderDiesKeepsInvariant ==
  ASSUME IInv, SharedLeaseCalls = FALSE, NEW l \in Lease, HolderDies(l)
  PROVE  IInv'
<1> USE SharedCheckoutConstants DEF IInv, HolderDies, files, callVars
<1>1. TypeOK'
  BY DEF TypeOK, CallsWellFormed, LeaseJobs, Jobs, Places
<1>2. CallsWellFormed'
  BY DEF TypeOK, CallsWellFormed, LeaseJobs
<1>3. LeaseInOneHand'
  BY DEF TypeOK, CallsWellFormed, LeaseJobs, LeaseInOneHand, Kept, KeptInPlace
<1>4. LockOwned'
  BY DEF TypeOK, CallsWellFormed, LeaseJobs, LockOwned, OwnsLock
<1>5. KeptInPlace'
  BY DEF TypeOK, CallsWellFormed, LeaseJobs, LeaseInOneHand, Kept,
       KeptInPlace, ClaimedInPlace, Claimed
<1>6. ClaimedInPlace'
  BY DEF TypeOK, CallsWellFormed, LeaseJobs, LeaseInOneHand, Kept,
       KeptInPlace, ClaimedInPlace, Claimed, MarkerOf
<1>7. UnclaimedElsewhere'
  BY DEF TypeOK, CallsWellFormed, LeaseJobs, LeaseInOneHand, Kept,
       KeptInPlace, UnclaimedElsewhere, ClaimedInPlace, Claimed, Unclaimed,
       MarkersIssued, MarkerOf
<1>8. MarkersIssued'
  BY DEF TypeOK, CallsWellFormed, LeaseJobs, LeaseInOneHand, MarkersIssued
<1>9. NoOrphanMarker'
  BY DEF TypeOK, CallsWellFormed, LeaseJobs, LeaseInOneHand, MarkersIssued,
       KeptInPlace, ClaimedInPlace, UnclaimedElsewhere, Claimed, Unclaimed,
       Kept, NoOrphanMarker, MarkerOf
<1>10. NoReaderPastWriter'
  BY DEF TypeOK, CallsWellFormed, LeaseJobs, LockOwned, OwnsLock, KeptInPlace,
       ClaimedInPlace, Kept, Claimed, NoReaderPastWriter, WritersNow,
       MarkerOf, ReadersEmpty
<1> QED BY <1>1, <1>2, <1>3, <1>4, <1>5, <1>6, <1>7, <1>8, <1>9, <1>10

-------------------------------------------------------------------------------
(* The invariant holds in every reachable state.                              *)

LEMMA InitEstablishesInvariant == Init => IInv
<1> SUFFICES ASSUME Init PROVE IInv
  OBVIOUS
<1> USE SharedCheckoutConstants DEF Init
<1>1. TypeOK
  BY DEF TypeOK, Jobs, Places
<1>2. CallsWellFormed /\ LeaseInOneHand
  BY DEF CallsWellFormed, LeaseJobs, LeaseInOneHand, Kept
<1>3. LockOwned /\ NoReaderPastWriter
  BY DEF LockOwned, OwnsLock, NoReaderPastWriter, WritersNow
<1>4. KeptInPlace /\ ClaimedInPlace /\ UnclaimedElsewhere
  BY DEF KeptInPlace, ClaimedInPlace, UnclaimedElsewhere, Kept, Claimed,
       Unclaimed
<1>5. MarkersIssued /\ NoOrphanMarker
  BY DEF MarkersIssued, NoOrphanMarker
<1> QED BY <1>1, <1>2, <1>3, <1>4, <1>5 DEF IInv

LEMMA StutteringKeepsInvariant ==
  ASSUME IInv, UNCHANGED vars
  PROVE  IInv'
<1> USE DEF IInv, vars
<1>1. TypeOK' /\ CallsWellFormed' /\ LeaseInOneHand'
  BY DEF TypeOK, CallsWellFormed, LeaseInOneHand, Kept
<1>2. LockOwned' /\ NoReaderPastWriter'
  BY DEF LockOwned, OwnsLock, NoReaderPastWriter, WritersNow, Kept
<1>3. KeptInPlace' /\ ClaimedInPlace' /\ UnclaimedElsewhere'
  BY DEF KeptInPlace, ClaimedInPlace, UnclaimedElsewhere, Kept, Claimed,
         Unclaimed, MarkerOf
<1>4. MarkersIssued' /\ NoOrphanMarker'
  BY DEF MarkersIssued, NoOrphanMarker
<1> QED BY <1>1, <1>2, <1>3, <1>4

LEMMA StepKeepsInvariant ==
  ASSUME SharedLeaseCalls = FALSE
  PROVE  IInv /\ [Next]_vars => IInv'
<1> SUFFICES ASSUME IInv, [Next]_vars PROVE IInv'
  OBVIOUS
<1>1. ASSUME NEW c \in Call, CallStep(c) PROVE IInv'
  BY <1>1, AwaitWriterKeepsInvariant, ClaimOpenKeepsInvariant,
     ClaimLinkKeepsInvariant, ClaimCleanKeepsInvariant,
     ClaimAbortKeepsInvariant, RecheckKeepsInvariant,
     DispatchedKeepsInvariant, ReleaseReadKeepsInvariant,
     ReleaseRemoveKeepsInvariant, LockTryKeepsInvariant,
     DrainKeepsInvariant, FinishWriteKeepsInvariant,
     UnlockKeepsInvariant, AbandonKeepsInvariant DEF CallStep
<1>2. ASSUME NEW c \in Call, DeadlinePasses(c) \/ Crash(c) \/ StartWrite(c)
      PROVE IInv'
  BY <1>2, DeadlinePassesKeepsInvariant, CrashKeepsInvariant,
     StartWriteKeepsInvariant
<1>3. ASSUME NEW c \in Call, NEW l \in Lease,
             StartDispatch(c, l) \/ StartBound(c, l) \/ StartResult(c, l)
      PROVE IInv'
  BY <1>3, StartDispatchKeepsInvariant, StartBoundKeepsInvariant,
     StartResultKeepsInvariant
<1>4. ASSUME NEW l \in Lease, ResumeLease(l) \/ HolderDies(l) PROVE IInv'
  BY <1>4, ResumeLeaseKeepsInvariant, HolderDiesKeepsInvariant
<1>5. CASE UNCHANGED vars
  BY <1>5, StutteringKeepsInvariant
<1> QED BY <1>1, <1>2, <1>3, <1>4, <1>5 DEF Next

(* The inductive invariant holds throughout, for any number of calls, leases  *)
(* and dispatches and with or without crashes.                                *)
THEOREM InvariantHolds ==
  ASSUME SharedLeaseCalls = FALSE
  PROVE  Spec => []IInv
<1>1. Init => IInv
  BY InitEstablishesInvariant
<1>2. IInv /\ [Next]_vars => IInv'
  BY StepKeepsInvariant
<1> QED BY <1>1, <1>2, PTL DEF Spec

-------------------------------------------------------------------------------
(* What a reader should know of.                                              *)

(* The variables keep their types.                                            *)
THEOREM TypeCorrect ==
  ASSUME SharedLeaseCalls = FALSE
  PROVE  Spec => []TypeOK
<1>1. IInv => TypeOK
  BY DEF IInv
<1> QED BY <1>1, InvariantHolds, PTL

(* Readers and Writers never overlap: the claim-then-look of the Reader and   *)
(* the lock-then-look of the Writer cannot both miss each other.              *)
THEOREM ReadersAndWritersExclude ==
  ASSUME SharedLeaseCalls = FALSE
  PROVE  Spec => []ReadersExcludeWriters
<1>1. IInv => ReadersExcludeWriters
  BY DEF IInv, NoReaderPastWriter, ReadersExcludeWriters, Kept
<1> QED BY <1>1, InvariantHolds, PTL

(* At most one Writer operation runs at a time.                               *)
THEOREM AtMostOneWriter ==
  ASSUME SharedLeaseCalls = FALSE
  PROVE  Spec => []OneWriter
<1>1. IInv => OneWriter
  BY DEF IInv, LockOwned, OwnsLock, OneWriter, WritersNow
<1> QED BY <1>1, InvariantHolds, PTL

(* No marker file is left behind by a call that returned.                     *)
THEOREM MarkersAccountedFor ==
  ASSUME SharedLeaseCalls = FALSE
  PROVE  Spec => []NoOrphanMarker
<1>1. IInv => NoOrphanMarker
  BY DEF IInv
<1> QED BY <1>1, InvariantHolds, PTL

(* A lease that was handed out keeps its marker until its holder gives it up. *)
THEOREM HeldMarkersStay ==
  ASSUME SharedLeaseCalls = FALSE
  PROVE  Spec => []HeldLeaseKeepsMarker
<1>1. IInv => HeldLeaseKeepsMarker
  BY DEF IInv, KeptInPlace, Kept, HeldLeaseKeepsMarker
<1> QED BY <1>1, InvariantHolds, PTL

-------------------------------------------------------------------------------
(* The file protocol implements the abstract barrier.                         *)

LEMMA InitIsBarrierInit == Init => Barrier!Init
  BY DEF Init, Barrier!Init, WritersNow

(* Steps that touch neither the held leases nor a running Writer.             *)
LEMMA QuietStep ==
  ASSUME TypeOK, NEW c \in Call, NEW place \in Places,
         pc' = [pc EXCEPT ![c] = place],
         pc[c] # "writing", place # "writing"
  PROVE  WritersNow' = WritersNow
  BY DEF TypeOK, WritersNow

LEMMA CallStepIsBarrierStep ==
  ASSUME IInv, NEW c \in Call, CallStep(c)
  PROVE  Barrier!Next \/ UNCHANGED Barrier!vars
<1> USE DEF IInv, Barrier!vars, Places
<1>1. CASE AwaitWriter(c) \/ ClaimOpen(c) \/ ClaimLink(c) \/ ClaimClean(c)
           \/ ClaimAbort(c)
  <2>1. held' = held
    BY <1>1 DEF AwaitWriter, ClaimOpen, ClaimLink, ClaimClean, ClaimAbort,
         leaseVars
  <2>2. WritersNow' = WritersNow
    BY <1>1, QuietStep DEF AwaitWriter, ClaimOpen, ClaimLink, ClaimClean,
       ClaimAbort, Goto, Return, Fail
  <2> QED BY <2>1, <2>2
<1>2. CASE ReleaseRead(c) \/ ReleaseRemove(c) \/ LockTry(c) \/ Abandon(c)
  <2>1. held' = held
    BY <1>2 DEF ReleaseRead, ReleaseRemove, LockTry, Abandon, leaseVars
  <2>2. WritersNow' = WritersNow
    BY <1>2, QuietStep DEF ReleaseRead, ReleaseRemove, LockTry, Abandon,
       ReleaseFailed, WriterFailed, RestoreAsReader, Goto, Return, Fail
  <2> QED BY <2>1, <2>2
<1>3. CASE Recheck(c) \/ Dispatched(c) \/ Unlock(c)
  <2>1. WritersNow' = WritersNow
    BY <1>3, QuietStep DEF Recheck, Dispatched, Unlock, Goto, Return
  <2>2. CASE held' = held
    BY <2>1, <2>2
  <2>3. CASE held' # held
    <3>1. held' = held \cup {lease[c]} /\ lease[c] \in Lease \ held
      BY <1>3, <2>3 DEF Recheck, Dispatched, Unlock, leaseVars,
         CallsWellFormed, LeaseJobs, LeaseInOneHand, Kept
    <3>2. WritersNow = {}
      <4>1. \A q \in WritersNow : lock = q /\ q \in Call /\ pc[q] = "writing"
        BY DEF WritersNow, LockOwned, OwnsLock
      <4>2. CASE Recheck(c)
        BY <2>3, <4>1, <4>2, SharedCheckoutConstants DEF Recheck, leaseVars
      <4>3. CASE Dispatched(c)
        BY <4>1, <4>3 DEF Dispatched, NoReaderPastWriter
      <4>4. CASE Unlock(c)
        BY <4>1, <4>4 DEF Unlock, LockOwned, OwnsLock
      <4> QED BY <1>3, <4>2, <4>3, <4>4
    <3>3. Barrier!BeginRead(lease[c])
      BY <2>1, <3>1, <3>2 DEF Barrier!BeginRead
    <3> QED BY <3>1, <3>3 DEF Barrier!Next
  <2> QED BY <2>2, <2>3
<1>4. CASE Drain(c)
  <2>1. held' = held
    BY <1>4 DEF Drain, leaseVars
  <2>2. CASE ReadersEmpty
    <3>1. held = {}
      BY <2>2, SharedCheckoutConstants DEF ReadersEmpty, KeptInPlace,
           Kept, TypeOK
    <3>2. WritersNow = {}
      BY <1>4 DEF Drain, WritersNow, LockOwned, OwnsLock
    <3>3. WritersNow' = {c}
      BY <1>4, <2>2, <3>2 DEF Drain, Goto, WritersNow, TypeOK
    <3>4. Barrier!BeginWrite(c)
      BY <2>1, <3>1, <3>2, <3>3 DEF Barrier!BeginWrite
    <3> QED BY <3>4 DEF Barrier!Next
  <2>3. CASE ~ReadersEmpty
    <3>1. WritersNow' = WritersNow
      BY <1>4, <2>3, QuietStep DEF Drain, Goto
    <3> QED BY <2>1, <3>1
  <2> QED BY <2>2, <2>3
<1>5. CASE FinishWrite(c)
  <2>1. held' = held
    BY <1>5 DEF FinishWrite, leaseVars
  <2>2. c \in WritersNow /\ WritersNow' = WritersNow \ {c}
    BY <1>5 DEF FinishWrite, Goto, WritersNow, TypeOK
  <2>3. Barrier!EndWrite(c)
    BY <2>1, <2>2 DEF Barrier!EndWrite
  <2> QED BY <2>3 DEF Barrier!Next
<1> QED BY <1>1, <1>2, <1>3, <1>4, <1>5 DEF CallStep

LEMMA StepIsBarrierStep ==
  ASSUME IInv, [Next]_vars, SharedLeaseCalls = FALSE
  PROVE  Barrier!Next \/ UNCHANGED Barrier!vars
<1> USE DEF IInv, Barrier!vars, Places
<1>1. ASSUME NEW c \in Call, CallStep(c)
      PROVE Barrier!Next \/ UNCHANGED Barrier!vars
  BY <1>1, CallStepIsBarrierStep
<1>2. ASSUME NEW c \in Call, DeadlinePasses(c) \/ StartWrite(c)
      PROVE UNCHANGED Barrier!vars
  <2>1. held' = held
    BY <1>2 DEF DeadlinePasses, StartWrite, leaseVars
  <2>2. WritersNow' = WritersNow
    BY <1>2, QuietStep DEF DeadlinePasses, StartWrite, Enter, Goto, WritersNow
  <2> QED BY <2>1, <2>2
<1>3. ASSUME NEW c \in Call, Crash(c)
      PROVE Barrier!Next \/ UNCHANGED Barrier!vars
  <2>1. held' = held
    BY <1>3 DEF Crash, leaseVars
  <2>2. CASE c \in WritersNow
    <3>1. WritersNow' = WritersNow \ {c}
      BY <1>3 DEF Crash, Goto, WritersNow, TypeOK
    <3>2. Barrier!EndWrite(c)
      BY <2>1, <2>2, <3>1 DEF Barrier!EndWrite
    <3> QED BY <3>2 DEF Barrier!Next
  <2>3. CASE c \notin WritersNow
    <3>1. WritersNow' = WritersNow
      BY <1>3, <2>3, QuietStep DEF Crash, Goto, WritersNow
    <3> QED BY <2>1, <3>1
  <2> QED BY <2>2, <2>3
<1>4. ASSUME NEW c \in Call, NEW l \in Lease, StartDispatch(c, l)
      PROVE UNCHANGED Barrier!vars
  BY <1>4, QuietStep DEF StartDispatch, Enter, Goto
<1>5. ASSUME NEW c \in Call, NEW l \in Lease,
             StartBound(c, l) \/ StartResult(c, l)
      PROVE Barrier!Next \/ UNCHANGED Barrier!vars
  <2>1. l \in held /\ held' = held \ {l}
    BY <1>5 DEF StartBound, StartResult
  <2>2. WritersNow' = WritersNow
    BY <1>5, QuietStep DEF StartBound, StartResult, Enter, Goto
  <2>3. Barrier!EndRead(l)
    BY <2>1, <2>2 DEF Barrier!EndRead
  <2> QED BY <2>3 DEF Barrier!Next
<1>6. ASSUME NEW l \in Lease, ResumeLease(l)
      PROVE Barrier!Next
  <2>1. WritersNow' = WritersNow
    BY <1>6 DEF ResumeLease, callVars, WritersNow
  <2>2. WritersNow = {}
    BY <1>6 DEF ResumeLease, NoReaderPastWriter, Kept
  <2>3. l \notin held /\ held' = held \cup {l}
    BY <1>6 DEF ResumeLease, LeaseInOneHand
  <2>4. Barrier!BeginRead(l)
    BY <2>1, <2>2, <2>3 DEF Barrier!BeginRead
  <2> QED BY <2>4 DEF Barrier!Next
<1>7. ASSUME NEW l \in Lease, HolderDies(l)
      PROVE Barrier!Next
  <2>1. WritersNow' = WritersNow
    BY <1>7 DEF HolderDies, callVars, WritersNow
  <2>2. Barrier!EndRead(l)
    BY <1>7, <2>1 DEF HolderDies, Barrier!EndRead
  <2> QED BY <2>2 DEF Barrier!Next
<1>8. CASE UNCHANGED vars
  BY <1>8 DEF vars, WritersNow
<1> QED BY <1>1, <1>2, <1>3, <1>4, <1>5, <1>6, <1>7, <1>8 DEF Next

(* Seen through the leases handed out and the Writer operations running, every *)
(* behaviour of the files is a behaviour of the barrier.                       *)
THEOREM ImplementsBarrier ==
  ASSUME SharedLeaseCalls = FALSE
  PROVE  Spec => BarrierSpec
<1>1. Init => Barrier!Init
  BY InitIsBarrierInit
<1>2. IInv /\ [Next]_vars => [Barrier!Next]_(Barrier!vars)
  BY StepIsBarrierStep
<1> QED BY <1>1, <1>2, InvariantHolds, PTL DEF Spec, BarrierSpec, Barrier!Spec
================================================================================
