---------------------------- MODULE FilesystemQueue ----------------------------
(***************************************************************************)
(* createFsQueueStorage: a queue whose messages are files in one of five   *)
(* directories.  Every operation runs under the queue's lock file, which   *)
(* it tries once: an operation that finds it taken throws.  A message      *)
(* changes directory by two file operations, a write and a removal (a      *)
(* rename and a rewrite when it is leased), and a process may die between  *)
(* the two: an action is one file operation.                               *)
(*                                                                         *)
(* A lease token names its host: a host holds one item at a time.  The     *)
(* order of the lane is left open.                                         *)
(***************************************************************************)
EXTENDS Naturals, FiniteSets, Sequences

CONSTANTS
    FsHosts,        \* processes that share the directory
    NoHost,
    MaxFsMessages   \* bound: messages ever staged

ASSUME FsQueueBounds == MaxFsMessages \in Nat
ASSUME NoHostIsNone == NoHost \notin FsHosts

VARIABLES
    files,      \* for every message, the directories that hold a copy of it
    leaseToken, \* the token in the leased copy, NoHost for none
    expired,    \* leased copies whose leaseExpiresAt is past or missing
    discarded,  \* dead copies whose reason is that the commit failed
    queueLock,  \* the host whose operation holds .queue-lock
    operation,  \* that operation: its kind, its message, what it has done
    item,       \* the message a host has leased and executes, 0 for none
    created,    \* messages staged so far; they are 1..created
    fsExpiries  \* expiries so far

fsQueueVars == <<files, leaseToken, expired, discarded, queueLock, operation,
                 item, created, fsExpiries>>

FsMessages == 1..MaxFsMessages
Directories == {"active", "leased", "done", "dead", "staged"}
Idle == [kind |-> "none", message |-> 0]
Doing(kind, m) == [kind |-> kind, message |-> m]

FsQueueInit ==
    /\ files = [m \in FsMessages |-> {}]
    /\ leaseToken = [m \in FsMessages |-> NoHost]
    /\ expired = {} /\ discarded = {}
    /\ queueLock = NoHost
    /\ operation = [h \in FsHosts |-> Idle]
    /\ item = [h \in FsHosts |-> 0]
    /\ created = 0 /\ fsExpiries = 0

-------------------------------------------------------------------------------
\* withLock: the operation begins, or throws because another one is under way.
Locked(h, kind, m) ==
    /\ queueLock = NoHost
    /\ queueLock' = h
    /\ operation' = [operation EXCEPT ![h] = Doing(kind, m)]

QueueBusy == queueLock # NoHost

\* The lock file is removed by the operation's finally block.
Unlocked(h) ==
    /\ queueLock' = NoHost
    /\ operation' = [operation EXCEPT ![h] = Idle]

Continue(h, kind, m) ==
    /\ operation' = [operation EXCEPT ![h] = Doing(kind, m)]
    /\ UNCHANGED queueLock

Moved(m, from, to) == files' = [files EXCEPT ![m] = (@ \ {from}) \cup {to}]
CopiedTo(m, to) == files' = [files EXCEPT ![m] = @ \cup {to}]
RemovedFrom(m, from) == files' = [files EXCEPT ![m] = @ \ {from}]

-------------------------------------------------------------------------------
(***************************************************************************)
(* reviveExpired, with which lease and stage begin.                        *)
(***************************************************************************)
Expirable == {m \in expired : "leased" \in files[m]}

ReviveWrite(h) ==
    /\ operation[h].kind \in {"lease", "stage"}
    /\ \E m \in Expirable :
        /\ CopiedTo(m, "active")
        /\ Continue(h, IF operation[h].kind = "lease" THEN "revive for lease"
                       ELSE "revive for stage", m)
    /\ UNCHANGED <<leaseToken, expired, discarded, item, created, fsExpiries>>

LeasedCopyRemoved(m) ==
    /\ RemovedFrom(m, "leased")
    /\ leaseToken' = [leaseToken EXCEPT ![m] = NoHost]
    /\ expired' = expired \ {m}

ReviveRemove(h) ==
    LET m == operation[h].message IN
    /\ operation[h].kind \in {"revive for lease", "revive for stage"}
    /\ LeasedCopyRemoved(m)
    /\ Continue(h, IF operation[h].kind = "revive for lease" THEN "lease" ELSE "stage", 0)
    /\ UNCHANGED <<discarded, item, created, fsExpiries>>

-------------------------------------------------------------------------------
(***************************************************************************)
(* lease: rename the active file, then rewrite it with token and expiry.   *)
(* Between the two the leased copy has no expiry, which revives it.        *)
(***************************************************************************)
LeaseBegin(h) ==
    /\ Locked(h, "lease", 0)
    /\ UNCHANGED <<files, leaseToken, expired, discarded, item, created, fsExpiries>>

LeaseRename(h) ==
    /\ operation[h].kind = "lease" /\ Expirable = {}
    /\ \E m \in FsMessages :
        /\ "active" \in files[m]
        /\ Moved(m, "active", "leased")
        /\ leaseToken' = [leaseToken EXCEPT ![m] = NoHost]
        /\ expired' = expired \cup {m}
        /\ Continue(h, "claim", m)
    /\ UNCHANGED <<discarded, item, created, fsExpiries>>

LeaseClaim(h) ==
    LET m == operation[h].message IN
    /\ operation[h].kind = "claim"
    /\ leaseToken' = [leaseToken EXCEPT ![m] = h]
    /\ expired' = expired \ {m}
    /\ item' = [item EXCEPT ![h] = m]
    /\ Unlocked(h)
    /\ UNCHANGED <<files, discarded, created, fsExpiries>>

LeaseNothing(h) ==
    /\ operation[h].kind = "lease" /\ Expirable = {}
    /\ \A m \in FsMessages : "active" \notin files[m]
    /\ Unlocked(h)
    /\ UNCHANGED <<files, leaseToken, expired, discarded, item, created, fsExpiries>>

\* The visibility timeout of a held item passes.
FsItemExpires ==
    /\ \E m \in FsMessages :
        /\ leaseToken[m] # NoHost /\ m \notin expired
        /\ expired' = expired \cup {m}
    /\ fsExpiries' = fsExpiries + 1
    /\ UNCHANGED <<files, leaseToken, discarded, queueLock, operation, item, created>>

-------------------------------------------------------------------------------
(***************************************************************************)
(* ack and nack: the token in the leased copy decides, the new copy is     *)
(* written, the leased one removed.                                        *)
(***************************************************************************)
TokenMatches(h) == "leased" \in files[item[h]] /\ leaseToken[item[h]] = h

\* Mutant: the leased copy stays behind.
LeasedCopyKept(m) == UNCHANGED <<files, leaseToken, expired>>

SettledCopyRemoved(m) == LeasedCopyRemoved(m)

SettleWrite(h) ==
    /\ item[h] # 0 /\ operation[h] = Idle
    /\ TokenMatches(h)
    /\ \E target \in {"done", "active", "dead"} : CopiedTo(item[h], target)
    /\ Locked(h, "settle", item[h])
    /\ UNCHANGED <<leaseToken, expired, discarded, item, created, fsExpiries>>

SettleRemove(h) ==
    LET m == operation[h].message IN
    /\ operation[h].kind = "settle"
    /\ SettledCopyRemoved(m)
    /\ item' = [item EXCEPT ![h] = 0]
    /\ Unlocked(h)
    /\ UNCHANGED <<discarded, created, fsExpiries>>

\* ack or nack returned false, or threw because the queue is busy: the host
\* lets go of the item, and the lease runs out.
SettleFails(h) ==
    /\ item[h] # 0 /\ operation[h] = Idle
    /\ ~TokenMatches(h) \/ QueueBusy
    /\ item' = [item EXCEPT ![h] = 0]
    /\ UNCHANGED <<files, leaseToken, expired, discarded, queueLock, operation,
                   created, fsExpiries>>

-------------------------------------------------------------------------------
(***************************************************************************)
(* stage, commitStaged and discardStaged, the queue's part in a commit.    *)
(***************************************************************************)
StageBegin(h) ==
    /\ Locked(h, "stage", 0)
    /\ UNCHANGED <<files, leaseToken, expired, discarded, item, created, fsExpiries>>

StageWrite(h) ==
    /\ operation[h].kind = "stage" /\ Expirable = {}
    /\ created < MaxFsMessages
    /\ created' = created + 1
    /\ CopiedTo(created + 1, "staged")
    /\ Unlocked(h)
    /\ UNCHANGED <<leaseToken, expired, discarded, item, fsExpiries>>

PromoteWrite(h, m) ==
    /\ Locked(h, "promote", m)
    /\ CopiedTo(m, "active")
    /\ UNCHANGED <<leaseToken, expired, discarded, item, created, fsExpiries>>

DiscardWrite(h, m) ==
    /\ Locked(h, "discard", m)
    /\ CopiedTo(m, "dead")
    /\ discarded' = discarded \cup {m}
    /\ UNCHANGED <<leaseToken, expired, item, created, fsExpiries>>

StagedRemove(h, kind) ==
    /\ operation[h].kind = kind
    /\ RemovedFrom(operation[h].message, "staged")
    /\ Unlocked(h)
    /\ UNCHANGED <<leaseToken, expired, discarded, item, created, fsExpiries>>

QueueStep(h) ==
    \/ ReviveWrite(h) \/ ReviveRemove(h)
    \/ LeaseRename(h) \/ LeaseClaim(h) \/ LeaseNothing(h)
    \/ SettleWrite(h) \/ SettleRemove(h) \/ SettleFails(h)
===============================================================================
