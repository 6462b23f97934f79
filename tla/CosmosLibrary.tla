----------------------------- MODULE CosmosLibrary -----------------------------
(***************************************************************************)
(* createCosmosQueueStorage and createCosmosAtomicRelayLock: a queue with  *)
(* deduplication, as documents of one partition, and a lock document with  *)
(* an expiry.  Each operation reads, then writes one batch conditional on  *)
(* the etags it read, and starts again if somebody came in between; "seen" *)
(* holds the documents a client read that nobody has written since.  The   *)
(* journal appends with the same counter and the same loop.                *)
(***************************************************************************)
EXTENDS Naturals, FiniteSets

CONSTANTS
    LibClients,
    NoKey,          \* a message without a dedupKey
    Keys,           \* dedup keys
    MaxLibMessages, \* bound: messages ever created
    MaxLibExpiries  \* bound: item leases and lock tenures that run out

ASSUME LibraryBounds == MaxLibMessages \in Nat /\ MaxLibExpiries \in Nat
ASSUME NoKeyIsNone == NoKey \notin Keys

VARIABLES
    counter,    \* the sequence in the counter document
    messages,   \* for every message: state, sequence, dedupKey, lease token
    dedup,      \* the keys that have a dedup document
    seen,       \* per client, the documents it read that are unchanged
    call,       \* per client, the operation under way: name, message, key, and the
                \* counter's sequence it read
    lapsed,     \* messages whose leaseExpiresAt is past
    relay,      \* the lock document: holder, and whether expiresAt is past
    libExpiries

libVars == <<counter, messages, dedup, seen, call, lapsed, relay, libExpiries>>

LibMessages == 1..MaxLibMessages
CounterDoc == 0
RelayDoc == MaxLibMessages + 1
NoMessage == [state |-> "none", sequence |-> 0, dedupKey |-> NoKey, token |-> NoKey]
NoCall == [name |-> "none", message |-> 0, key |-> NoKey, count |-> 0]

LibInit ==
    /\ counter = 0
    /\ messages = [m \in LibMessages |-> NoMessage]
    /\ dedup = {} /\ lapsed = {}
    /\ seen = [c \in LibClients |-> {}]
    /\ call = [c \in LibClients |-> NoCall]
    /\ relay = [holder |-> NoKey, over |-> TRUE]
    /\ libExpiries = 0

See(c, docs) == seen' = [seen EXCEPT ![c] = @ \cup docs]
Write(docs) == seen' = [c \in LibClients |-> seen[c] \ docs]

Current(c, docs) == docs \subseteq seen[c]

Calls(c, name, m, k) ==
    call' = [call EXCEPT ![c] = [name |-> name, message |-> m, key |-> k,
                                 count |-> IF name \in {"create", "promote"} THEN counter ELSE 0]]
Done(c) == call' = [call EXCEPT ![c] = NoCall]
Created == {m \in LibMessages : messages[m].state # "none"}

-------------------------------------------------------------------------------
(***************************************************************************)
(* enqueueState: look for the dedup document, read the counter, and create *)
(* message and dedup document in the batch that advances the counter.      *)
(***************************************************************************)
LibEnqueue(c) ==
    /\ call[c] = NoCall /\ Created # LibMessages
    /\ \E k \in Keys \cup {NoKey} :
        /\ k \notin dedup
        /\ Calls(c, "counter", 0, k)
    /\ UNCHANGED <<counter, messages, dedup, seen, lapsed, relay, libExpiries>>

LibReadCounter(c) ==
    /\ call[c].name = "counter"
    /\ See(c, {CounterDoc})
    /\ Calls(c, "create", 0, call[c].key)
    /\ UNCHANGED <<counter, messages, dedup, lapsed, relay, libExpiries>>

\* A create fails if the dedup document is there.  Mutant: it is not created.
NoDedupDocument(k) == UNCHANGED dedup
DedupDocument(k) == dedup' = dedup \cup ({k} \ {NoKey})

LibCreate(c) ==
    LET m == CHOOSE m \in LibMessages : m \notin Created
        k == call[c].key IN
    /\ call[c].name = "create"
    /\ Created # LibMessages
    /\ IF Current(c, {CounterDoc}) /\ k \notin dedup
       THEN /\ counter' = call[c].count + 1
            /\ \E state \in {"active", "staged"} :
                messages' = [messages EXCEPT ![m] = [state |-> state, sequence |-> call[c].count + 1,
                                                     dedupKey |-> k, token |-> NoKey]]
            /\ DedupDocument(k)
            /\ Write({CounterDoc}) /\ Done(c)
       ELSE /\ IF k \in dedup THEN Done(c) ELSE Calls(c, "counter", 0, k)
            /\ UNCHANGED <<counter, messages, dedup, seen>>
    /\ UNCHANGED <<lapsed, relay, libExpiries>>

-------------------------------------------------------------------------------
(***************************************************************************)
(* Every other operation reads one message that its precondition admits    *)
(* and replaces it: lease, reviveExpiredLeases, ack, nack, commitStaged,   *)
(* discardStaged.                                                          *)
(***************************************************************************)
Admits(c, name, m) ==
    LET d == messages[m] IN
    CASE name = "lease" -> d.state = "active"
      [] name = "revive" -> d.state = "leased" /\ m \in lapsed
      [] name \in {"ack", "nack", "bury"} -> d.state = "leased" /\ d.token = c
      [] name \in {"promote", "discard"} -> d.state = "staged"

LibRead(c) ==
    /\ call[c] = NoCall
    /\ \E name \in {"lease", "revive", "ack", "nack", "bury", "promote", "discard"}, m \in Created :
        /\ Admits(c, name, m)
        /\ Calls(c, name, m, NoKey)
        /\ See(c, {m} \cup IF name = "promote" THEN {CounterDoc} ELSE {})
    /\ UNCHANGED <<counter, messages, dedup, lapsed, relay, libExpiries>>

NextState(name) ==
    CASE name = "lease" -> "leased"
      [] name \in {"revive", "nack", "promote"} -> "active"
      [] name = "ack" -> "done"
      [] name \in {"bury", "discard"} -> "dead"

\* finish deletes the dedup document with the message's last change.
Finishing(name) == name \in {"ack", "bury", "discard"}

LibReplace(c) ==
    LET name == call[c].name
        m == call[c].message IN
    /\ m # 0
    /\ IF Current(c, {m} \cup IF name = "promote" THEN {CounterDoc} ELSE {})
       THEN /\ counter' = IF name = "promote" THEN call[c].count + 1 ELSE counter
            /\ messages' = [messages EXCEPT ![m].state = NextState(name),
                                ![m].token = IF name = "lease" THEN c ELSE NoKey,
                                ![m].sequence = IF name = "promote" THEN call[c].count + 1 ELSE @]
            /\ dedup' = IF Finishing(name) THEN dedup \ {messages[m].dedupKey} ELSE dedup
            /\ lapsed' = lapsed \ {m}
            /\ Write({m} \cup IF name = "promote" THEN {CounterDoc} ELSE {})
       ELSE UNCHANGED <<counter, messages, dedup, lapsed, seen>>
    /\ Done(c)
    /\ UNCHANGED <<relay, libExpiries>>

LibLeaseLapses ==
    /\ libExpiries < MaxLibExpiries /\ libExpiries' = libExpiries + 1
    /\ \E m \in Created : messages[m].state = "leased" /\ lapsed' = lapsed \cup {m}
    /\ UNCHANGED <<counter, messages, dedup, seen, call, relay>>

-------------------------------------------------------------------------------
(***************************************************************************)
(* tryAcquireToken and releaseToken of the relay lock.                     *)
(***************************************************************************)
RelayRead(c) ==
    /\ call[c] = NoCall /\ relay.over
    /\ See(c, {RelayDoc}) /\ Calls(c, "acquire", 0, NoKey)
    /\ UNCHANGED <<counter, messages, dedup, lapsed, relay, libExpiries>>

RelayReplace(c) ==
    /\ call[c].name = "acquire"
    /\ IF Current(c, {RelayDoc})
       THEN relay' = [holder |-> c, over |-> FALSE] /\ Write({RelayDoc})
       ELSE UNCHANGED <<relay, seen>>
    /\ Done(c)
    /\ UNCHANGED <<counter, messages, dedup, lapsed, libExpiries>>

RelayEnds ==
    /\ ~relay.over /\ relay' = [relay EXCEPT !.over = TRUE]
    /\ \/ Write({RelayDoc}) /\ UNCHANGED libExpiries
       \/ libExpiries < MaxLibExpiries /\ libExpiries' = libExpiries + 1 /\ UNCHANGED seen
    /\ UNCHANGED <<counter, messages, dedup, call, lapsed>>

LibNext ==
    \/ LibLeaseLapses \/ RelayEnds
    \/ \E c \in LibClients :
        \/ LibEnqueue(c) \/ LibReadCounter(c) \/ LibCreate(c)
        \/ LibRead(c) \/ LibReplace(c) \/ RelayRead(c) \/ RelayReplace(c)

LibSpec == LibInit /\ [][LibNext]_libVars

-------------------------------------------------------------------------------
Live(m) == messages[m].state \in {"staged", "active", "leased"}

(***************************************************************************)
(* A key has a dedup document exactly while a message with the key is not  *)
(* finished, and then one such message.                                    *)
(***************************************************************************)
DedupIsExact ==
    \A k \in Keys :
        Cardinality({m \in LibMessages : Live(m) /\ messages[m].dedupKey = k})
            = IF k \in dedup THEN 1 ELSE 0

\* No two messages share a place in the lane, whoever created or promoted them.
SequencesDiffer ==
    \A m, n \in Created : m # n => messages[m].sequence # messages[n].sequence

\* Counter, messages and dedup documents stay in step.
LibSafe == DedupIsExact /\ SequencesDiffer

\* The lock passes from one tenant to the next only after the first one's tenure.
RelayNotStolen == relay'.holder # relay.holder => relay.over
===============================================================================
