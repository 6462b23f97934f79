----------------------------- MODULE RemoteRuntime -----------------------------
(***************************************************************************)
(* A durable runtime behind a connector: an append whose entry and wake    *)
(* are two calls of the storages, the engine that runs at the other side,  *)
(* and the SignalR subscription of the invalidations.                      *)
(***************************************************************************)
EXTENDS Naturals, FiniteSets, TLC

CONSTANTS
    RrClients,     \* clients that append
    RrClock,       \* what the clocks of the servers may show, in any order
    MaxRrEntries,  \* bound: journal entries
    MaxRrTroubles  \* bound: lost calls, failed storage calls, errors and reconnects

ASSUME RemoteBounds == MaxRrEntries \in Nat \ {0} /\ MaxRrTroubles \in Nat /\ RrClock \subseteq Nat \ {0}

-------------------------------------------------------------------------------
VARIABLES
    rrJournal,   \* entries, each with the client that appended it
    rrWake,      \* requestedAt and processedAt of the engine wake, 0 for none
    rrCovered,   \* whether the stamp of the last request was marked processed already, or is going to be
    rrCursor,    \* entries the engine has processed
    rrCall,      \* per client: its append
    rrEngine,    \* what the engine has read in its turn
    rrTold,      \* entries whose append was answered
    rrSub,       \* the SignalR subscription of a caller
    rrTroubles

rrAppends == <<rrJournal, rrWake, rrCovered, rrCursor, rrCall, rrEngine, rrTold>>
rrVars == <<rrAppends, rrSub, rrTroubles>>

NoAppend == [at |-> "idle", entry |-> 0]
NotReading == [at |-> "idle", wake |-> 0]
Unsubscribed == [at |-> "idle", connection |-> "none", aborted |-> FALSE, listening |-> FALSE, left |-> FALSE]

RrInit ==
    /\ rrJournal = 0 /\ rrWake = [requested |-> 0, processed |-> 0] /\ rrCursor = 0
    /\ rrCovered = FALSE /\ rrCall = [c \in RrClients |-> NoAppend] /\ rrEngine = NotReading /\ rrTold = {}
    /\ rrSub = Unsubscribed /\ rrTroubles = 0

RrTrouble == rrTroubles < MaxRrTroubles /\ rrTroubles' = rrTroubles + 1

-------------------------------------------------------------------------------
(***************************************************************************)
(* An append and the engine's turn.                                        *)
(***************************************************************************)
RrAppend(c) ==
    /\ rrCall[c].at = "idle" /\ rrCall' = [rrCall EXCEPT ![c].at = "posted"]
    /\ UNCHANGED <<rrJournal, rrWake, rrCovered, rrCursor, rrEngine, rrTold, rrSub, rrTroubles>>

\* journalStorageForRef(...).append(entry), awaited.
RrJournaled(c) ==
    /\ rrCall[c].at = "posted" /\ rrJournal < MaxRrEntries /\ rrJournal' = rrJournal + 1
    /\ rrCall' = [rrCall EXCEPT ![c] = [at |-> "journaled", entry |-> rrJournal']]
    /\ UNCHANGED <<rrWake, rrCovered, rrCursor, rrEngine, rrTold, rrSub, rrTroubles>>

\* A millisecond stamp: the filesystem takes what its clock shows, Cosmos moves
\* it past the processed one.  Neither looks at the request that is pending.
Stamps(now) == {now, IF now <= rrWake.processed THEN rrWake.processed + 1 ELSE now}
WakeRequested(stamp) == [rrWake EXCEPT !.requested = stamp]
CoveredBy(stamp) ==
    \/ stamp <= rrWake.processed
    \/ rrEngine.at = "processed" /\ stamp <= rrEngine.wake

\* engineWakeStorage(refs).request(), after the append.
RrWoken(c) ==
    /\ rrCall[c].at = "journaled" /\ rrCall' = [rrCall EXCEPT ![c].at = "woken"]
    /\ \E now \in RrClock : \E stamp \in Stamps(now) :
          rrWake' = WakeRequested(stamp) /\ rrCovered' = CoveredBy(stamp)
    /\ UNCHANGED <<rrJournal, rrCursor, rrEngine, rrTold, rrSub, rrTroubles>>

RrAnswered(c) ==
    /\ rrCall[c].at = "woken" /\ rrCall' = [rrCall EXCEPT ![c] = NoAppend]
    /\ rrTold' = rrTold \cup {rrCall[c].entry}
    /\ UNCHANGED <<rrJournal, rrWake, rrCovered, rrCursor, rrEngine, rrSub, rrTroubles>>

\* The call, one of the two storage calls or the answer fails: the client's
\* append rejects, and its caller may append the same event again.
RrAppendFails(c) ==
    /\ rrCall[c].at # "idle" /\ RrTrouble
    /\ rrCall' = [rrCall EXCEPT ![c] = NoAppend]
    /\ UNCHANGED <<rrJournal, rrWake, rrCovered, rrCursor, rrEngine, rrTold, rrSub>>

\* runEngine at the other side: read the wake, process the journal, mark.
RrReadsWake ==
    /\ rrEngine.at = "idle" /\ rrWake.requested > rrWake.processed
    /\ rrEngine' = [at |-> "woken", wake |-> rrWake.requested]
    /\ UNCHANGED <<rrJournal, rrWake, rrCovered, rrCursor, rrCall, rrTold, rrSub, rrTroubles>>

RrProcesses ==
    /\ rrEngine.at = "woken" /\ rrEngine' = [rrEngine EXCEPT !.at = "processed"]
    /\ rrCursor' = rrJournal /\ rrCovered' = FALSE
    /\ UNCHANGED <<rrJournal, rrWake, rrCall, rrTold, rrSub, rrTroubles>>

RrMarks ==
    /\ rrEngine.at = "processed" /\ rrEngine' = NotReading
    /\ rrWake' = [rrWake EXCEPT !.processed = IF @ < rrEngine.wake THEN rrEngine.wake ELSE @]
    /\ UNCHANGED <<rrJournal, rrCovered, rrCursor, rrCall, rrTold, rrSub, rrTroubles>>

\* The engine's turn ends early: the wake stays as it is.
RrEngineFails ==
    /\ rrEngine.at # "idle" /\ RrTrouble /\ rrEngine' = NotReading
    /\ UNCHANGED <<rrJournal, rrWake, rrCovered, rrCursor, rrCall, rrTold, rrSub>>

\* An entry whose append was answered is processed, or its wake is pending and
\* outlasts the engine's turn: only a request whose stamp is not later than one
\* that is processed, or being processed, leaves entries behind.
AnsweredIsArranged == ~rrCovered => \A e \in rrTold : e > rrCursor =>
    /\ rrWake.requested > rrWake.processed
    /\ rrEngine.at = "processed" => rrWake.requested > rrEngine.wake

-------------------------------------------------------------------------------
(***************************************************************************)
(* The SignalR subscription.                                               *)
(***************************************************************************)
RrSubTurn(at, connection, listening) ==
    rrSub' = [rrSub EXCEPT !.at = at, !.connection = connection, !.listening = listening]
RrSubRests == UNCHANGED <<rrAppends, rrTroubles>>

RrSubscribe ==
    /\ rrSub.at = "idle" /\ ~rrSub.left
    /\ RrSubTurn("negotiating", rrSub.connection, rrSub.listening) /\ RrSubRests

\* The negotiation answers; the abort listener is added before start().
RrNegotiated ==
    /\ rrSub.at = "negotiating"
    /\ RrSubTurn("starting", "connecting", ~rrSub.aborted) /\ RrSubRests

\* It fails, or its fetch is aborted: nothing was built yet.
RrNegotiationFails ==
    /\ rrSub.at = "negotiating" /\ RrSubTurn("failed", rrSub.connection, rrSub.listening)
    /\ \/ rrSub.aborted /\ UNCHANGED rrTroubles
       \/ RrTrouble
    /\ UNCHANGED rrAppends

RrStarted ==
    /\ rrSub.at = "starting" /\ rrSub.connection = "connecting"
    /\ RrSubTurn("subscribed", "connected", rrSub.listening) /\ RrSubRests

\* start() rejects, by itself or because stop() overtook it: the catch block.
RrStartFails ==
    /\ rrSub.at = "starting"
    /\ \/ rrSub.connection = "stopped" /\ UNCHANGED rrTroubles
       \/ rrSub.connection = "connecting" /\ RrTrouble
    /\ RrSubTurn("failed", "stopped", FALSE)
    /\ UNCHANGED rrAppends

\* The connection closes with an error, which onError hears unless the caller stopped.
RrCloses ==
    /\ rrSub.connection = "connected" /\ RrTrouble
    /\ RrSubTurn(rrSub.at, "stopped", rrSub.listening)
    /\ UNCHANGED rrAppends

\* The caller stops: it aborts, and unsubscribes if it already can.
RrStop ==
    /\ rrSub.at # "idle" /\ ~rrSub.left
    /\ rrSub' = [rrSub EXCEPT !.left = TRUE, !.aborted = TRUE, !.listening = FALSE,
                    !.connection = IF rrSub.listening \/ rrSub.at = "subscribed" THEN "stopped" ELSE @]
    /\ RrSubRests

\* The caller that stopped meanwhile calls the cleanup it is given.
RrCleansUp ==
    /\ rrSub.at = "subscribed" /\ rrSub.left
    /\ RrSubTurn("over", "stopped", rrSub.listening) /\ RrSubRests

RrSubNext ==
    RrSubscribe \/ RrNegotiated \/ RrNegotiationFails \/ RrStarted \/ RrStartFails
    \/ RrCloses \/ RrStop \/ RrCleansUp

RrNext ==
    \/ \E c \in RrClients : RrAppend(c) \/ RrJournaled(c) \/ RrWoken(c) \/ RrAnswered(c) \/ RrAppendFails(c)
    \/ RrReadsWake \/ RrProcesses \/ RrMarks \/ RrEngineFails
    \/ RrSubNext

\* No connection is left open by a caller that stopped, once its subscribe is over.
NoConnectionLeft == (rrSub.left /\ rrSub.at \in {"over", "failed"}) => rrSub.connection \in {"none", "stopped"}
===============================================================================
