----------------------------- MODULE CosmosRuntime -----------------------------
(***************************************************************************)
(* createCosmosTransitionStorage, createCosmosEffectsQueue and             *)
(* createCosmosEngineWakeStorage: the runtime is a few documents of one    *)
(* partition.  A client reads documents, then writes them in a batch that  *)
(* is applied only if their etags are the ones it read.  An etag is        *)
(* modelled by what it tells a client: which of the documents it read      *)
(* nobody has written since ("fresh").                                     *)
(*                                                                         *)
(* Every journal entry emits one effect, and both have the same name.      *)
(***************************************************************************)
EXTENDS Naturals, FiniteSets

CONSTANTS
    CsHosts,       \* clients that run the engine and the lane
    CsAppender,    \* the client that appends
    NoClient,
    MaxCsEntries,  \* bound: journal entries
    MaxCsFaults,   \* bound: leases that run out, replies that are lost
    CsClock,       \* what the clients' clocks may show: milliseconds, in no order
    WakeTries      \* how often an update of the wake document is tried: five times

ASSUME CosmosBounds == MaxCsEntries \in Nat /\ MaxCsFaults \in Nat
ASSUME CosmosWakes == CsClock \subseteq Nat \ {0} /\ WakeTries \in Nat \ {0}

VARIABLES
    csEntries,    \* length of the journal
    csCursor,     \* the state document
    csLock,       \* the token's client in the lock document
    lockExpired,  \* its leaseExpiresAt is past
    csQueued,     \* how many effect documents were created for an entry
    itemState,    \* the state of an effect document
    itemHolder,   \* its lease token's client
    itemExpired,  \* the effects whose leaseExpiresAt is past
    csRequested, csProcessed, \* the wake document
    fresh,        \* per client, the documents it read that are unchanged
    csPc, csSnap, \* per host, where its engine run is and what it read
    lanePc, laneItem, \* per host, where its lane is and which effect it treats
    appendPc,     \* where the appender is
    wakeTried,    \* per client, the conflicts of its update of the wake document
    lastRequest,  \* history: whether the last request was news to every run under
                  \* way ("news"), or a run had seen its stamp ("seen"), or it gave up
    csFaults

csWakeVars == <<csRequested, csProcessed, wakeTried, lastRequest>>
csItemVars == <<itemState, itemHolder, itemExpired>>
csCheckpoint == <<csCursor, csQueued>>
csLaneVars == <<lanePc, laneItem>>
csVars == <<csEntries, csCheckpoint, csLock, lockExpired, csItemVars, csWakeVars,
            fresh, csPc, csSnap, csLaneVars, appendPc, csFaults>>

CsEntries == 1..MaxCsEntries
Clients == CsHosts \cup {CsAppender}
\* The documents: an effect document is named by its entry.
StateDoc == 0
LockDoc == MaxCsEntries + 1
WakeDoc == MaxCsEntries + 2

CsNoSnap == [cursor |-> 0, end |-> 0, wake |-> 0]

CsInit ==
    /\ csEntries = 0 /\ csCursor = 0 /\ csLock = NoClient /\ lockExpired = FALSE
    /\ csQueued = [e \in CsEntries |-> 0]
    /\ itemState = [e \in CsEntries |-> "none"]
    /\ itemHolder = [e \in CsEntries |-> NoClient]
    /\ itemExpired = {}
    /\ csRequested = 0 /\ csProcessed = 0
    /\ fresh = [c \in Clients |-> {}]
    /\ csPc = [h \in CsHosts |-> "idle"] /\ csSnap = [h \in CsHosts |-> CsNoSnap]
    /\ lanePc = [h \in CsHosts |-> "idle"] /\ laneItem = [h \in CsHosts |-> 0]
    /\ appendPc = "idle" /\ csFaults = 0
    /\ wakeTried = [c \in Clients |-> 0] /\ lastRequest = "news"

-------------------------------------------------------------------------------
Reads(c, docs) == fresh' = [fresh EXCEPT ![c] = @ \cup docs]
\* A write gives the documents new etags.
Writes(docs) == fresh' = [c \in Clients |-> fresh[c] \ docs]

\* Mutant: the batch carries no etags.
Unconditional(c, docs) == TRUE

IfMatch(c, docs) == docs \subseteq fresh[c]

CsFault == csFaults < MaxCsFaults /\ csFaults' = csFaults + 1
CsGoto(h, label) == csPc' = [csPc EXCEPT ![h] = label]
CsReturn(h) == CsGoto(h, "idle") /\ csSnap' = [csSnap EXCEPT ![h] = CsNoSnap]
\* A worker awaits its engine run before it turns to the lane (worker.ts:62-76).
CsAtRest(h) == csPc[h] = "idle" /\ lanePc[h] = "idle"

-------------------------------------------------------------------------------
(***************************************************************************)
(* update of the wake document: read, changed and written until nobody     *)
(* came in between, or until it conflicted too often and throws.           *)
(***************************************************************************)
Tried(c, n) == wakeTried' = [wakeTried EXCEPT ![c] = n]
GivesUp(c) == wakeTried[c] + 1 >= WakeTries

(***************************************************************************)
(* The appender: the journal entry, then a request in the wake document.   *)
(* The request is stamped with the clock, or with what follows processedAt *)
(* if the clock shows no later time.                                       *)
(***************************************************************************)
CsAppend ==
    /\ appendPc = "idle" /\ csEntries < MaxCsEntries
    /\ csEntries' = csEntries + 1
    /\ appendPc' = "read wake"
    /\ UNCHANGED <<csCheckpoint, csLock, lockExpired, csItemVars, csWakeVars, fresh,
                   csPc, csSnap, csLaneVars, csFaults>>

CsReadWakeToRequest ==
    /\ appendPc = "read wake"
    /\ Reads(CsAppender, {WakeDoc})
    /\ appendPc' = "write wake"
    /\ UNCHANGED <<csEntries, csCheckpoint, csLock, lockExpired, csItemVars, csWakeVars,
                   csPc, csSnap, csLaneVars, csFaults>>

Stamp(now) == IF now <= csProcessed THEN csProcessed + 1 ELSE now

\* A run under way marks this stamp as processed with the one it captured.
SeenByRun(stamp) == \E h \in CsHosts : stamp <= csSnap[h].wake

CsRequest ==
    /\ appendPc = "write wake"
    /\ \/ /\ IfMatch(CsAppender, {WakeDoc})
          /\ \E now \in CsClock :
                /\ csRequested' = Stamp(now)
                /\ lastRequest' = IF SeenByRun(Stamp(now)) THEN "seen" ELSE "news"
          /\ Writes({WakeDoc}) /\ Tried(CsAppender, 0) /\ appendPc' = "idle"
       \/ /\ ~IfMatch(CsAppender, {WakeDoc}) /\ ~GivesUp(CsAppender)
          /\ Tried(CsAppender, wakeTried[CsAppender] + 1) /\ appendPc' = "read wake"
          /\ UNCHANGED <<csRequested, lastRequest, fresh>>
       \/ /\ ~IfMatch(CsAppender, {WakeDoc}) /\ GivesUp(CsAppender)
          /\ Tried(CsAppender, 0) /\ appendPc' = "idle" /\ lastRequest' = "refused"
          /\ UNCHANGED <<csRequested, fresh>>
    /\ UNCHANGED <<csEntries, csCheckpoint, csLock, lockExpired, csItemVars, csProcessed,
                   csPc, csSnap, csLaneVars, csFaults>>

-------------------------------------------------------------------------------
(***************************************************************************)
(* acquire: read the lock, replace it, read state and journal.             *)
(***************************************************************************)
CsReadWake(h) ==
    /\ CsAtRest(h) /\ csRequested > csProcessed
    /\ csSnap' = [csSnap EXCEPT ![h].wake = csRequested]
    /\ CsGoto(h, "read lock")
    /\ UNCHANGED <<csEntries, csCheckpoint, csLock, lockExpired, csItemVars, csWakeVars,
                   fresh, csLaneVars, appendPc, csFaults>>

CsReadLock(h) ==
    /\ csPc[h] = "read lock"
    /\ IF csLock = NoClient \/ lockExpired
       THEN Reads(h, {LockDoc}) /\ CsGoto(h, "claim") /\ UNCHANGED csSnap
       ELSE CsReturn(h) /\ UNCHANGED fresh
    /\ UNCHANGED <<csEntries, csCheckpoint, csLock, lockExpired, csItemVars, csWakeVars,
                   csLaneVars, appendPc, csFaults>>

\* The claim may be applied and its reply lost: the lock is then left to expire.
CsClaim(h) ==
    /\ csPc[h] = "claim"
    /\ IF IfMatch(h, {LockDoc})
       THEN /\ csLock' = h /\ lockExpired' = FALSE /\ Writes({LockDoc})
            /\ \/ CsGoto(h, "read state") /\ UNCHANGED <<csSnap, csFaults>>
               \/ CsFault /\ CsReturn(h)
       ELSE CsReturn(h) /\ UNCHANGED <<csLock, lockExpired, fresh, csFaults>>
    /\ UNCHANGED <<csEntries, csCheckpoint, csItemVars, csWakeVars, csLaneVars, appendPc>>

CsReadState(h) ==
    /\ csPc[h] = "read state"
    /\ csSnap' = [csSnap EXCEPT ![h].cursor = csCursor, ![h].end = csEntries]
    /\ CsGoto(h, IF csEntries = csCursor THEN "abort" ELSE "commit")
    /\ UNCHANGED <<csEntries, csCheckpoint, csLock, lockExpired, csItemVars, csWakeVars,
                   fresh, csLaneVars, appendPc, csFaults>>

CsLeaseExpires ==
    /\ csLock # NoClient /\ ~lockExpired
    /\ CsFault
    /\ lockExpired' = TRUE
    /\ UNCHANGED <<csEntries, csCheckpoint, csLock, csItemVars, csWakeVars, fresh,
                   csPc, csSnap, csLaneVars, appendPc>>

-------------------------------------------------------------------------------
(***************************************************************************)
(* commit: read lock and state, check them, and write state, effects and   *)
(* lock in one batch.                                                      *)
(***************************************************************************)
LockReleased == csLock' = NoClient /\ lockExpired' = FALSE

\* abort: the lock is released if the token in it is the caller's.
CsAbort(h) ==
    /\ csPc[h] = "abort"
    /\ IF csLock = h THEN LockReleased /\ Writes({LockDoc})
       ELSE UNCHANGED <<csLock, lockExpired, fresh>>
    /\ CsGoto(h, "mark")
    /\ UNCHANGED <<csEntries, csCheckpoint, csItemVars, csWakeVars, csSnap, csLaneVars,
                   appendPc, csFaults>>

CsCommit(h) ==
    /\ csPc[h] = "commit"
    /\ \/ /\ csLock = h /\ ~lockExpired /\ csCursor = csSnap[h].cursor
          /\ Reads(h, {LockDoc, StateDoc}) /\ CsGoto(h, "batch")
          /\ UNCHANGED <<csLock, lockExpired, csSnap>>
       \/ /\ csLock = h /\ ~lockExpired /\ csCursor # csSnap[h].cursor
          /\ LockReleased /\ Writes({LockDoc}) /\ CsReturn(h)
       \/ /\ csLock # h \/ lockExpired
          /\ CsReturn(h) /\ UNCHANGED <<csLock, lockExpired, fresh>>
    /\ UNCHANGED <<csEntries, csCheckpoint, csItemVars, csWakeVars, csLaneVars, appendPc,
                   csFaults>>

Batch(h) == {e \in CsEntries : csSnap[h].cursor < e /\ e <= csSnap[h].end}

\* A batch whose reply is lost throws; the run ends without marking the wake.
CsBatch(h) ==
    /\ csPc[h] = "batch"
    /\ IF IfMatch(h, {LockDoc, StateDoc})
       THEN /\ csCursor' = csSnap[h].end
            /\ csQueued' = [e \in CsEntries |-> csQueued[e] + IF e \in Batch(h) THEN 1 ELSE 0]
            /\ itemState' = [e \in CsEntries |-> IF e \in Batch(h) THEN "active" ELSE itemState[e]]
            /\ LockReleased
            /\ Writes({LockDoc, StateDoc})
            /\ \/ CsGoto(h, "mark") /\ UNCHANGED <<csSnap, csFaults>>
               \/ CsFault /\ CsReturn(h)
       ELSE CsReturn(h) /\ UNCHANGED <<csCheckpoint, itemState, csLock, lockExpired, fresh, csFaults>>
    /\ UNCHANGED <<csEntries, itemHolder, itemExpired, csWakeVars, csLaneVars, appendPc>>

CsReadWakeToMark(h) ==
    /\ csPc[h] = "mark"
    /\ Reads(h, {WakeDoc})
    /\ CsGoto(h, "write mark")
    /\ UNCHANGED <<csEntries, csCheckpoint, csLock, lockExpired, csItemVars, csWakeVars,
                   csSnap, csLaneVars, appendPc, csFaults>>

CapturedRequest(h) == csSnap[h].wake

\* markProcessed; a run whose update gives up throws after its commit.
CsMark(h) ==
    /\ csPc[h] = "write mark"
    /\ \/ /\ IfMatch(h, {WakeDoc})
          /\ csProcessed' = IF CapturedRequest(h) > csProcessed THEN CapturedRequest(h) ELSE csProcessed
          /\ Writes({WakeDoc}) /\ Tried(h, 0) /\ CsReturn(h)
       \/ /\ ~IfMatch(h, {WakeDoc}) /\ ~GivesUp(h)
          /\ Tried(h, wakeTried[h] + 1) /\ CsGoto(h, "mark")
          /\ UNCHANGED <<csProcessed, fresh, csSnap>>
       \/ /\ ~IfMatch(h, {WakeDoc}) /\ GivesUp(h)
          /\ Tried(h, 0) /\ CsReturn(h)
          /\ UNCHANGED <<csProcessed, fresh>>
    /\ UNCHANGED <<csEntries, csCheckpoint, csLock, lockExpired, csItemVars, csRequested,
                   lastRequest, csLaneVars, appendPc, csFaults>>

-------------------------------------------------------------------------------
(***************************************************************************)
(* The lane: a query, a conditional replacement that claims one of its     *)
(* results, the effect, and a conditional replacement that settles it.     *)
(***************************************************************************)
LaneGoto(h, label) == lanePc' = [lanePc EXCEPT ![h] = label]
LaneReturn(h) == LaneGoto(h, "idle") /\ laneItem' = [laneItem EXCEPT ![h] = 0]
LaneUnchanged == UNCHANGED <<csEntries, csCheckpoint, csLock, lockExpired, csWakeVars,
                             csPc, csSnap, appendPc>>

CsQuery(h) ==
    /\ CsAtRest(h)
    /\ \E e \in CsEntries :
        /\ itemState[e] = "active" \/ (itemState[e] = "leased" /\ e \in itemExpired)
        /\ laneItem' = [laneItem EXCEPT ![h] = e]
        /\ Reads(h, {e})
    /\ LaneGoto(h, "claim")
    /\ LaneUnchanged /\ UNCHANGED <<csItemVars, csFaults>>

CsClaimItem(h) ==
    LET e == laneItem[h] IN
    /\ lanePc[h] = "claim"
    /\ IF IfMatch(h, {e})
       THEN /\ itemState' = [itemState EXCEPT ![e] = "leased"]
            /\ itemHolder' = [itemHolder EXCEPT ![e] = h]
            /\ itemExpired' = itemExpired \ {e}
            /\ Writes({e}) /\ LaneGoto(h, "execute") /\ UNCHANGED laneItem
       ELSE LaneReturn(h) /\ UNCHANGED <<csItemVars, fresh>>
    /\ LaneUnchanged /\ UNCHANGED csFaults

CsItemExpires ==
    /\ CsFault
    /\ \E e \in CsEntries :
        /\ itemState[e] = "leased" /\ e \notin itemExpired
        /\ itemExpired' = itemExpired \cup {e}
    /\ LaneUnchanged /\ UNCHANGED <<itemState, itemHolder, fresh, csLaneVars>>

\* Mutant: ack does not ask whose lease it is.
AnyLease(h) == itemState[laneItem[h]] = "leased"

OwnLease(h) == itemState[laneItem[h]] = "leased" /\ itemHolder[laneItem[h]] = h

CsReadItem(h) ==
    /\ lanePc[h] = "execute"
    /\ IF OwnLease(h) THEN Reads(h, {laneItem[h]}) /\ LaneGoto(h, "settle") /\ UNCHANGED laneItem
       ELSE LaneReturn(h) /\ UNCHANGED fresh
    /\ LaneUnchanged /\ UNCHANGED <<csItemVars, csFaults>>

CsSettle(h) ==
    LET e == laneItem[h] IN
    /\ lanePc[h] = "settle"
    /\ LaneReturn(h)
    /\ IF IfMatch(h, {e})
       THEN /\ \E next \in {"done", "dead", "active"} :
                    itemState' = [itemState EXCEPT ![e] = next]
            /\ itemHolder' = [itemHolder EXCEPT ![e] = NoClient]
            /\ itemExpired' = itemExpired \ {e}
            /\ Writes({e})
       ELSE UNCHANGED <<csItemVars, fresh>>
    /\ LaneUnchanged /\ UNCHANGED csFaults

CsNext ==
    \/ CsAppend \/ CsReadWakeToRequest \/ CsRequest
    \/ CsLeaseExpires \/ CsItemExpires
    \/ \E h \in CsHosts :
        \/ CsReadWake(h) \/ CsReadLock(h) \/ CsClaim(h) \/ CsReadState(h)
        \/ CsAbort(h) \/ CsCommit(h) \/ CsBatch(h)
        \/ CsReadWakeToMark(h) \/ CsMark(h)
        \/ CsQuery(h) \/ CsClaimItem(h) \/ CsReadItem(h) \/ CsSettle(h)

CsSpec == CsInit /\ [][CsNext]_csVars

-------------------------------------------------------------------------------
\* Every variable stays in its type.
CsTypeOK ==
    /\ csEntries \in 0..MaxCsEntries /\ csCursor \in 0..csEntries
    /\ csLock \in CsHosts \cup {NoClient} /\ lockExpired \in BOOLEAN
    /\ csQueued \in [CsEntries -> Nat]
    /\ itemState \in [CsEntries -> {"none", "active", "leased", "done", "dead"}]
    /\ itemHolder \in [CsEntries -> CsHosts \cup {NoClient}]
    /\ csRequested \in Nat /\ csProcessed \in Nat
    /\ wakeTried \in [Clients -> 0..(WakeTries - 1)]
    /\ lastRequest \in {"news", "seen", "refused"}
    /\ fresh \in [Clients -> SUBSET (0..WakeDoc)]
    /\ csFaults \in 0..MaxCsFaults

(***************************************************************************)
(* Checkpoint and effects agree at every moment: the effect of an entry is *)
(* queued once if the cursor has passed the entry, and not at all before,  *)
(* whichever leases run out and replies are lost while hosts commit.       *)
(***************************************************************************)
CheckpointMatchesEffects ==
    \A e \in CsEntries : csQueued[e] = IF e <= csCursor THEN 1 ELSE 0

\* The cursor never goes back.
CsCursorForward == csCursor' >= csCursor

(***************************************************************************)
(* Only the host whose lease is in the document settles an effect, and a   *)
(* settled effect is not leased again.                                     *)
(***************************************************************************)
EffectSettledByHolder ==
    \A e \in CsEntries :
        /\ itemState[e] = "leased" /\ itemState'[e] # "leased" =>
               \E h \in CsHosts : itemHolder[e] = h /\ lanePc[h] = "settle" /\ laneItem[h] = e
                                  /\ lanePc'[h] = "idle"
        /\ itemState[e] \in {"done", "dead"} => itemState'[e] = itemState[e]

(***************************************************************************)
(* Every entry not folded yet has a pending wake, or its append will       *)
(* request one, if the last request was news to the runs under way: no    *)
(* mark, failed claim or lost reply loses it, and a request that is news   *)
(* makes good what earlier ones failed to tell.                            *)
(***************************************************************************)
CsWakeKept ==
    csEntries > csCursor /\ lastRequest = "news" => csRequested > csProcessed \/ appendPc # "idle"

(***************************************************************************)
(* A request written while a run is under way outlives the run's mark:     *)
(* "Preserve a newer request written while the engine transition is        *)
(* running" (durable-runtime.yaml:111).                                    *)
(***************************************************************************)
CsNewerRequestKept ==
    csEntries > csCursor /\ lastRequest # "refused" => csRequested > csProcessed \/ appendPc # "idle"

\* The types and what the documents of a partition keep between requests.
CsSafe == CsTypeOK /\ CheckpointMatchesEffects /\ CsWakeKept
===============================================================================
