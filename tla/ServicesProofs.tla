---------------------------- MODULE ServicesProofs ----------------------------
(***************************************************************************)
(* Proofs about what serves others, for every set of requests, clients,    *)
(* lock references, patches and callers, every scenario and every bound:   *)
(* what the storages behind HTTP and their locks promise, what an append   *)
(* and a subscription through the remote runtime promise, what whoever     *)
(* drives a kernel sees, what the service host does with the requests it   *)
(* accepted, and what a receipt of the proposal host tells.                *)
(***************************************************************************)
EXTENDS MCServices, SequenceTheorems, FiniteSetTheorems, WellFoundedInduction, TLAPS

-----------------------------------------------------------------------------
(***************************************************************************)
(* Locks of a storage behind HTTP (StorageAccess).  The invariant says who *)
(* holds which token, and what the dispatcher keeps of it in memory.       *)
(***************************************************************************)
SaStages == {"idle", "acquiring", "granted", "refused", "working", "releasing", "freeing", "released"}

SaTypes ==
    /\ saIssued \in Nat
    /\ saLock \in [SaRefs -> [holder : 0..saIssued, over : BOOLEAN]]
    /\ DOMAIN saTokens \subseteq 1..saIssued
    /\ \A token \in DOMAIN saTokens : saTokens[token] \in SaRefs
    /\ saFreeing \subseteq 1..saIssued /\ saLate \subseteq 1..saIssued
    /\ saCall \in [SaClients -> [at : SaStages, ref : SaRefs \cup {NoSaCall.ref}, token : 0..saIssued]]

(* A client that holds a token: nobody else does, nobody frees it, and while
   its tenure lasts the lock is its own. *)
Holding(c) == saCall[c].at \in {"granted", "working", "releasing"}
HoldersAreApart == \A c \in SaClients :
    /\ saCall[c].at # "idle" => saCall[c].ref \in SaRefs
    /\ Holding(c) =>
         /\ saCall[c].token \in (1..saIssued) \ saFreeing
         /\ saCall[c].token \notin saLate => saLock[saCall[c].ref].holder = saCall[c].token
         /\ \A d \in SaClients \ {c} : Holding(d) => saCall[d].token # saCall[c].token

(* What the filesystem dispatcher keeps in memory; the Cosmos library keeps
   nothing there. *)
MemoryIsOfLocks ==
    /\ \A r \in SaRefs : saLock[r].over => saLock[r].holder \in saLate
    /\ DOMAIN saTokens \cap saFreeing = {}
    /\ saServer # "filesystem" => DOMAIN saTokens = {} /\ saFreeing = {}

SaInvariant == SaTypes /\ HoldersAreApart /\ MemoryIsOfLocks /\ TokensAreOfLocks /\ LocksCanBeReleased

\* A turn of a client moves that client only, and keeps its lock and its token.
LEMMA SaTurnTyped ==
  ASSUME SaTypes, NEW c \in SaClients, NEW at \in SaStages, SaTurn(c, at)
  PROVE  /\ saCall' \in [SaClients -> [at : SaStages, ref : SaRefs \cup {NoSaCall.ref}, token : 0..saIssued]]
         /\ \A d \in SaClients : saCall'[d].ref = saCall[d].ref /\ saCall'[d].token = saCall[d].token
                                 /\ saCall'[d].at = IF d = c THEN at ELSE saCall[d].at
<1>1. saCall' = [saCall EXCEPT ![c].at = at]
  BY DEF SaTurn
<1> QED
  BY <1>1 DEF SaTypes

\* Nobody has asked for a lock.
LEMMA SaInitial == SaInit => SaInvariant
<1> SUFFICES ASSUME SaInit PROVE SaInvariant
  OBVIOUS
<1>1. SaTypes
  BY DEF SaInit, SaTypes, NoSaCall, Free, NoToken, SaStages
<1>2. HoldersAreApart
  BY DEF SaInit, HoldersAreApart, Holding, NoSaCall
<1>3. MemoryIsOfLocks /\ TokensAreOfLocks /\ LocksCanBeReleased
  BY DEF SaInit, MemoryIsOfLocks, TokensAreOfLocks, LocksCanBeReleased, Free
<1> QED
  BY <1>1, <1>2, <1>3 DEF SaInvariant

\* Acquiring hands out a token nobody had before (dispatch.ts:195).
LEMMA SaAcquireKeeps ==
  ASSUME SaInvariant, NEW c \in SaClients, SaCosmosAcquires(c) \/ SaFsAcquires(c)
  PROVE  SaInvariant'
<1> DEFINE r == saCall[c].ref
           token == saIssued + 1
<1> USE DEF SaInvariant
<1>0. saCall[c] \in [at : SaStages, ref : SaRefs \cup {NoSaCall.ref}, token : 0..saIssued]
      /\ r \in SaRefs /\ saCall[c].at = "acquiring" /\ saIssued \in Nat
      /\ saLate' = saLate /\ saFreeing' = saFreeing /\ saServer' = saServer
  BY DEF SaTypes, HoldersAreApart, SaCosmosAcquires, SaFsAcquires, SaAcquires
<1>1. CASE ~Available(r)
  <2>1. /\ saCall' = [saCall EXCEPT ![c].at = "refused"]
        /\ UNCHANGED <<saLock, saIssued, saTokens>>
    BY <1>1 DEF SaCosmosAcquires, SaFsAcquires, SaAcquires, SaTurn
  <2>2. SaTypes' /\ HoldersAreApart'
    BY <1>0, <2>1 DEF SaTypes, SaStages, HoldersAreApart, Holding
  <2> QED
    BY <1>0, <2>1, <2>2 DEF MemoryIsOfLocks, TokensAreOfLocks, LocksCanBeReleased
<1>2. CASE Available(r)
  <2>1. /\ saIssued' = token /\ saLock' = [saLock EXCEPT ![r] = [holder |-> token, over |-> FALSE]]
        /\ saCall' = [saCall EXCEPT ![c].at = "granted", ![c].token = token]
    BY <1>2 DEF SaCosmosAcquires, SaFsAcquires, SaAcquires
  <2>2. \/ saServer # "filesystem" /\ saTokens' = saTokens
        \/ /\ saServer = "filesystem"
           /\ saTokens' = [t \in DOMAIN saTokens \cup {token} |-> IF t = token THEN r ELSE saTokens[t]]
    BY <1>0, <2>1 DEF SaCosmosAcquires, SaFsAcquires
  <2>3. SaTypes'
    BY <1>0, <2>1, <2>2 DEF SaTypes, SaStages
  <2>4. HoldersAreApart'
    BY <1>0, <1>2, <2>1 DEF SaTypes, HoldersAreApart, MemoryIsOfLocks, Holding, Available, NoToken
  <2>5. MemoryIsOfLocks' /\ TokensAreOfLocks' /\ LocksCanBeReleased'
    BY <1>0, <1>2, <2>1, <2>2 DEF SaTypes, MemoryIsOfLocks, TokensAreOfLocks, LocksCanBeReleased, Available, NoToken
  <2> QED
    BY <2>3, <2>4, <2>5
<1> QED
  BY <1>1, <1>2

\* No client, timer, restart or dispatcher breaks the invariant of the locks.
LEMMA SaKept ==
  ASSUME SaInvariant, SaNext
  PROVE  SaInvariant'
<1> USE DEF SaInvariant
<1>1. ASSUME NEW c \in SaClients, NEW r \in SaRefs, SaAsk(c, r) PROVE SaInvariant'
  <2>1. SaTypes' /\ HoldersAreApart'
    BY <1>1 DEF SaAsk, SaTypes, SaStages, HoldersAreApart, Holding, NoToken
  <2> QED
    BY <1>1, <2>1 DEF SaAsk, MemoryIsOfLocks, TokensAreOfLocks, LocksCanBeReleased
<1>2. ASSUME NEW c \in SaClients, SaCosmosAcquires(c) \/ SaFsAcquires(c) PROVE SaInvariant'
  BY <1>2, SaAcquireKeeps
<1>3. ASSUME NEW c \in SaClients, SaHears(c) \/ SaLoses(c) \/ SaWorked(c) PROVE SaInvariant'
  <2>1. UNCHANGED <<saServer, saLock, saTokens, saFreeing, saIssued, saLate>>
    BY <1>3 DEF SaHears, SaLoses, SaWorked
  <2>2. SaTypes' /\ HoldersAreApart'
    BY <1>3, SMTT(30) DEF SaHears, SaLoses, SaWorked, SaTurn, SaTypes, SaStages, HoldersAreApart, Holding, NoToken, NoSaCall
  <2> QED
    BY <2>1, <2>2 DEF MemoryIsOfLocks, TokensAreOfLocks, LocksCanBeReleased
<1>4. ASSUME NEW c \in SaClients, SaCosmosReleases(c) PROVE SaInvariant'
  <2>1. SaTypes' /\ HoldersAreApart'
    BY <1>4 DEF SaCosmosReleases, SaTurn, Free, SaTypes, SaStages, HoldersAreApart, Holding, NoToken
  <2> QED
    BY <1>4, <2>1 DEF SaCosmosReleases, Free, NoToken, MemoryIsOfLocks, TokensAreOfLocks, LocksCanBeReleased, SaTypes, HoldersAreApart
<1>5. ASSUME NEW c \in SaClients, SaFsReleases(c) PROVE SaInvariant'
  <2>1. SaTypes' /\ HoldersAreApart'
    <3>1. /\ SaTurn(c, "freeing") \/ SaTurn(c, "released")
          /\ saCall[c].at = "releasing" /\ saFreeing' \subseteq saFreeing \cup {saCall[c].token}
          /\ DOMAIN saTokens' \subseteq DOMAIN saTokens
          /\ \A t \in DOMAIN saTokens' : saTokens'[t] = saTokens[t]
          /\ UNCHANGED <<saLock, saIssued, saLate>>
      BY <1>5 DEF SaFsReleases, Restrict
    <3>2. SaTypes'
      <4>1. saCall' \in [SaClients -> [at : SaStages, ref : SaRefs \cup {NoSaCall.ref}, token : 0..saIssued]]
        BY <3>1, SaTurnTyped DEF SaStages
      <4>2. saFreeing' \subseteq 1..saIssued
        BY <3>1 DEF SaTypes, HoldersAreApart, Holding
      <4> QED
        BY <3>1, <4>1, <4>2 DEF SaTypes
    <3> QED
      <4>1. \A d \in SaClients : saCall'[d].ref = saCall[d].ref /\ saCall'[d].token = saCall[d].token
                                 /\ (d # c => saCall'[d].at = saCall[d].at)
        BY <3>1, SaTurnTyped DEF SaStages
      <4>2. saCall'[c].at \in {"freeing", "released"}
        BY <3>1, SaTurnTyped DEF SaStages
      <4> QED
        <5>1. ASSUME NEW d \in SaClients, saCall'[d].at # "idle" PROVE saCall'[d].ref \in SaRefs
          BY <3>1, <4>1, <4>2, <5>1 DEF HoldersAreApart
        <5>2. ASSUME NEW d \in SaClients, Holding(d)'
              PROVE  /\ d # c /\ Holding(d) /\ UNCHANGED <<saCall[d].token, saCall[d].ref, saLock, saLate, saIssued>>
                     /\ saCall[d].token \notin saFreeing'
          BY <3>1, <4>1, <4>2, <5>2 DEF HoldersAreApart, Holding
        <5>3. HoldersAreApart'
          BY <4>1, <5>1, <5>2 DEF HoldersAreApart
        <5> QED
          BY <3>2, <5>3
  <2>2. UNCHANGED <<saServer, saLock, saIssued, saLate>>
    BY <1>5 DEF SaFsReleases
  <2>3. /\ DOMAIN saTokens' \cup saFreeing' = DOMAIN saTokens \cup saFreeing
        /\ DOMAIN saTokens' \subseteq DOMAIN saTokens
        /\ \A t \in DOMAIN saTokens' : saTokens'[t] = saTokens[t]
        /\ DOMAIN saTokens' \cap saFreeing' = {}
    BY <1>5 DEF SaFsReleases, Restrict, MemoryIsOfLocks
  <2> QED
    BY <1>5, <2>1, <2>2, <2>3 DEF SaFsReleases, MemoryIsOfLocks, TokensAreOfLocks, LocksCanBeReleased
<1>6. ASSUME NEW token \in 1..MaxSaTokens, SaFrees(token) PROVE SaInvariant'
  <2>1. SaTypes'
    <3>1. token \in 1..saIssued /\ UNCHANGED <<saTokens, saIssued>>
      BY <1>6 DEF SaFrees, SaTypes
    <3>2. saFreeing' \subseteq 1..saIssued /\ saLate' \subseteq 1..saIssued
      BY <1>6, <3>1 DEF SaFrees, SaTypes
    <3>3. saLock' \in [SaRefs -> [holder : 0..saIssued, over : BOOLEAN]]
      <4>1. saLock' = saLock \/ saLock' = [r \in SaRefs |-> IF saLock[r].holder = token THEN Free ELSE saLock[r]]
        BY <1>6 DEF SaFrees
      <4>2. Free \in [holder : 0..saIssued, over : BOOLEAN]
        BY DEF Free, NoToken, SaTypes
      <4> QED
        BY <3>1, <4>1, <4>2 DEF SaTypes
    <3>4. saCall' \in [SaClients -> [at : SaStages, ref : SaRefs \cup {NoSaCall.ref}, token : 0..saIssued]]
      <4>1. saCall' = [d \in SaClients |-> saCall'[d]]
        BY <1>6 DEF SaFrees
      <4>2. \A d \in SaClients : saCall'[d] \in {saCall[d], [saCall[d] EXCEPT !.at = "released"]}
        BY <1>6 DEF SaFrees
      <4> QED
        BY <3>1, <4>1, <4>2 DEF SaTypes, SaStages
    <3> QED
      BY <3>1, <3>2, <3>3, <3>4 DEF SaTypes
  <2>2. HoldersAreApart'
    <3>1. ASSUME NEW c \in SaClients
          PROVE  /\ saCall'[c].at = saCall[c].at \/ (saCall[c].at = "freeing" /\ saCall'[c].at = "released")
                 /\ saCall'[c].ref = saCall[c].ref /\ saCall'[c].token = saCall[c].token
                 /\ (Holding(c)' <=> Holding(c))
                 /\ (saCall'[c].at = "idle" <=> saCall[c].at = "idle")
      BY <1>6 DEF SaFrees, Holding, SaTypes
    <3>2. \A r \in SaRefs : saLock[r].holder # token => saLock'[r] = saLock[r]
      BY <1>6 DEF SaFrees
    <3>3. saIssued' = saIssued /\ saFreeing' \subseteq saFreeing /\ saLate \subseteq saLate' /\ token \in saFreeing
      BY <1>6 DEF SaFrees
    <3>4. ASSUME NEW c \in SaClients, Holding(c)
          PROVE  saCall[c].token \notin saLate' => saLock'[saCall[c].ref].holder = saCall[c].token
      BY <3>2, <3>3, <3>4 DEF HoldersAreApart, Holding
    <3> QED
      BY <3>1, <3>3, <3>4 DEF HoldersAreApart
  <2>3. MemoryIsOfLocks' /\ TokensAreOfLocks' /\ LocksCanBeReleased'
    <3>1. token \in saFreeing /\ saFreeing' = saFreeing \ {token} /\ UNCHANGED <<saServer, saTokens>>
      BY <1>6 DEF SaFrees
    <3>2. \/ saLock' = [r \in SaRefs |-> IF saLock[r].holder = token THEN Free ELSE saLock[r]] /\ saLate' = saLate
          \/ saLate' = saLate \cup {token} /\ saLock' = saLock
      BY <1>6 DEF SaFrees
    <3>3. CASE saLock' = [r \in SaRefs |-> IF saLock[r].holder = token THEN Free ELSE saLock[r]] /\ saLate' = saLate
      <4>1. \A r \in SaRefs : \/ saLock'[r] = saLock[r] /\ saLock[r].holder # token
                              \/ saLock'[r].holder = NoToken /\ ~saLock'[r].over /\ saLock[r].holder = token
        BY <3>3 DEF Free
      <4> HIDE DEF SaInvariant
      <4>2. MemoryIsOfLocks'
        BY <3>1, <3>3, <4>1 DEF MemoryIsOfLocks, SaInvariant
      <4>3. TokensAreOfLocks'
        BY <3>1, <3>3, <4>1 DEF SaTypes, TokensAreOfLocks, MemoryIsOfLocks, SaInvariant
      <4>4. LocksCanBeReleased'
        BY <3>1, <3>3, <4>1 DEF LocksCanBeReleased, SaInvariant
      <4> QED
        BY <4>2, <4>3, <4>4
    <3>4. CASE saLate' = saLate \cup {token} /\ saLock' = saLock
      BY <3>1, <3>4 DEF NoToken, MemoryIsOfLocks, TokensAreOfLocks, LocksCanBeReleased
    <3> QED
      BY <3>2, <3>3, <3>4
  <2> QED
    BY <2>1, <2>2, <2>3
<1>7. ASSUME NEW r \in SaRefs, SaLapses(r) PROVE SaInvariant'
  <2>1. /\ saLate' = saLate \cup {saLock[r].holder} /\ saLock' = [saLock EXCEPT ![r].over = TRUE]
        /\ UNCHANGED <<saServer, saTokens, saFreeing, saCall, saIssued>>
        /\ saLock[r].holder # NoToken
    BY <1>7 DEF SaLapses
  <2>2. SaTypes'
    <3>1. saLock[r] \in [holder : 0..saIssued, over : BOOLEAN] /\ saLock[r].holder \in 1..saIssued
      BY <2>1 DEF SaTypes, NoToken
    <3>2. saLock' \in [SaRefs -> [holder : 0..saIssued, over : BOOLEAN]]
      BY <2>1, <3>1 DEF SaTypes
    <3> QED
      BY <2>1, <3>1, <3>2 DEF SaTypes
  <2>3. HoldersAreApart'
    <3>1. \A q \in SaRefs : saLock'[q].holder = saLock[q].holder
      BY <2>1 DEF SaTypes
    <3>2. saLate \subseteq saLate' /\ UNCHANGED <<saFreeing, saCall, saIssued>>
      BY <2>1
    <3> QED
      BY <3>1, <3>2 DEF HoldersAreApart, Holding
  <2> QED
    BY <1>7, <2>1, <2>2, <2>3 DEF SaLapses, NoToken, SaTypes, MemoryIsOfLocks, TokensAreOfLocks, LocksCanBeReleased
<1>8. ASSUME SaRestarts PROVE SaInvariant'
  <2>0. DOMAIN saTokens' = {} /\ saFreeing' = {}
    BY <1>8 DEF SaRestarts
  <2>3. ASSUME NEW c \in SaClients
        PROVE  saCall'[c] = NoSaCall \/ (saCall'[c] = saCall[c] /\ saCall[c].at \in {"idle", "working"})
    <3>1. saCall'[c] = IF saCall[c].at \in {"idle", "working"} THEN saCall[c] ELSE NoSaCall
      BY <1>8, Zenon DEF SaRestarts
    <3> QED
      BY <3>1
  <2>4. /\ UNCHANGED <<saLock, saIssued>> /\ saLate' = saLate \cup DOMAIN saTokens \cup saFreeing
    BY <1>8 DEF SaRestarts
  <2>7. saCall' = [c \in SaClients |-> saCall'[c]]
    BY <1>8 DEF SaRestarts
  <2>5. NoSaCall \in [at : SaStages, ref : SaRefs \cup {NoSaCall.ref}, token : 0..saIssued] /\ NoSaCall.at = "idle"
    BY DEF NoSaCall, SaStages, NoToken, SaTypes
  <2>6. SaTypes'
    <3>1. saCall' \in [SaClients -> [at : SaStages, ref : SaRefs \cup {NoSaCall.ref}, token : 0..saIssued]]
      <4>1. \A c \in SaClients : saCall'[c] \in [at : SaStages, ref : SaRefs \cup {NoSaCall.ref}, token : 0..saIssued]
        BY <2>3, <2>5 DEF SaTypes
      <4> QED
        BY <4>1, <2>7
    <3> QED
      BY <2>0, <2>4, <3>1 DEF SaTypes
  <2>1. HoldersAreApart'
    BY <2>0, <2>3, <2>4, <2>5 DEF HoldersAreApart, Holding
  <2> QED
    BY <1>8, <2>0, <2>1, <2>6 DEF SaRestarts, MemoryIsOfLocks, TokensAreOfLocks, LocksCanBeReleased
<1> QED
  BY <1>1, <1>2, <1>3, <1>4, <1>5, <1>6, <1>7, <1>8 DEF SaNext, SaClientStep

\* While its tenure lasts a lock protects the work of its holder, and nobody else can release it.
LEMMA SaPromises == SaInvariant => WorkIsExclusive /\ TokensAreOfLocks /\ LocksCanBeReleased
BY DEF SaInvariant, HoldersAreApart, Holding, WorkIsExclusive

-----------------------------------------------------------------------------
(***************************************************************************)
(* Appends and subscriptions through the remote runtime (RemoteRuntime).   *)
(* The invariant says why an entry past the cursor is not overlooked: it   *)
(* was journaled before a wake the engine has not processed, unless the    *)
(* clock gave the last request a stamp that is processed already.          *)
(***************************************************************************)
RrTypes ==
    /\ rrJournal \in Nat /\ rrCursor \in Nat
    /\ rrWake \in [requested : Nat, processed : Nat] /\ rrCovered \in BOOLEAN
    /\ rrCall \in [RrClients -> [at : {"idle", "posted", "journaled", "woken"}, entry : Nat]]
    /\ rrEngine \in [at : {"idle", "woken", "processed"}, wake : Nat]
    /\ rrTold \subseteq Nat
    /\ rrSub \in [at : {"idle", "negotiating", "starting", "subscribed", "failed", "over"},
                  connection : {"none", "connecting", "connected", "stopped"},
                  aborted : BOOLEAN, listening : BOOLEAN, left : BOOLEAN]

(* An entry the engine has not processed, of an append past its wake. *)
Arranged(e) == e > rrCursor =>
    /\ rrWake.requested > rrWake.processed
    /\ rrEngine.at = "processed" => rrWake.requested > rrEngine.wake

EntriesAreArranged ==
    /\ \A e \in rrTold : e <= rrJournal /\ (~rrCovered => Arranged(e))
    /\ \A c \in RrClients : /\ rrCall[c].entry <= rrJournal
                            /\ ~rrCovered /\ rrCall[c].at = "woken" => Arranged(rrCall[c].entry)

(* What has no connection yet, and what has it no more. *)
ConnectionIsOfPlace ==
    /\ rrSub.at \in {"idle", "negotiating"} => rrSub.connection = "none" /\ ~rrSub.listening
    /\ rrSub.at \in {"failed", "over"} => rrSub.connection \in {"none", "stopped"}

RrInvariant == RrTypes /\ EntriesAreArranged /\ ConnectionIsOfPlace

\* Nothing was appended, and nobody subscribed.
LEMMA RrInitial == RrInit => RrInvariant
<1> SUFFICES ASSUME RrInit PROVE RrInvariant
  OBVIOUS
<1>1. RrTypes /\ ConnectionIsOfPlace
  BY DEF RrInit, RrTypes, ConnectionIsOfPlace, NoAppend, NotReading, Unsubscribed
<1>2. EntriesAreArranged
  BY DEF RrInit, EntriesAreArranged, NoAppend
<1> QED
  BY <1>1, <1>2 DEF RrInvariant

\* Negotiating, starting, closing and cleaning up a subscription tell of its connection.
LEMMA RrSubKept ==
  ASSUME RrInvariant, RrSubNext
  PROVE  RrInvariant'
<1> USE DEF RrInvariant
<1>1. UNCHANGED rrAppends
  BY DEF RrSubNext, RrSubscribe, RrNegotiated, RrNegotiationFails, RrStarted, RrStartFails, RrCloses, RrStop, RrCleansUp, RrSubRests
<1>2. EntriesAreArranged'
  BY <1>1 DEF EntriesAreArranged, Arranged, rrAppends
<1>3. RrTypes' /\ ConnectionIsOfPlace'
  <2> DEFINE Typed == rrSub' \in [at : {"idle", "negotiating", "starting", "subscribed", "failed", "over"},
                  connection : {"none", "connecting", "connected", "stopped"},
                  aborted : BOOLEAN, listening : BOOLEAN, left : BOOLEAN]
  <2> USE DEF RrSubTurn, RrTypes, ConnectionIsOfPlace
  <2>1. CASE RrSubscribe \/ RrNegotiated \/ RrNegotiationFails
    BY <1>1, <2>1, ZenonT(30) DEF RrSubscribe, RrNegotiated, RrNegotiationFails, rrAppends
  <2>2. CASE RrStarted \/ RrStartFails
    BY <1>1, <2>2, ZenonT(30) DEF RrStarted, RrStartFails, rrAppends
  <2>3. CASE RrCloses \/ RrStop \/ RrCleansUp
    BY <1>1, <2>3, ZenonT(30) DEF RrCloses, RrStop, RrCleansUp, rrAppends
  <2> QED
    BY <2>1, <2>2, <2>3 DEF RrSubNext
<1> QED
  BY <1>2, <1>3

\* No client, engine or subscriber breaks the invariant of the remote runtime.
LEMMA RrKept ==
  ASSUME RrInvariant, RrNext
  PROVE  RrInvariant'
<1> USE DEF RrInvariant
<1>1. ASSUME NEW c \in RrClients, RrAppend(c) \/ RrAppendFails(c) PROVE RrInvariant'
  BY <1>1 DEF RrAppend, RrAppendFails, NoAppend, RrTypes, EntriesAreArranged, Arranged, ConnectionIsOfPlace
<1>2. ASSUME NEW c \in RrClients, RrJournaled(c) PROVE RrInvariant'
  BY <1>2 DEF RrJournaled, RrTypes, EntriesAreArranged, Arranged, ConnectionIsOfPlace
<1>3. ASSUME NEW c \in RrClients, RrWoken(c) PROVE RrInvariant'
  <2>1. PICK now \in RrClock : \E stamp \in Stamps(now) : rrWake' = WakeRequested(stamp) /\ rrCovered' = CoveredBy(stamp)
    BY <1>3 DEF RrWoken
  <2>2. PICK stamp \in Stamps(now) : rrWake' = WakeRequested(stamp) /\ rrCovered' = CoveredBy(stamp)
    BY <2>1
  <2>3. stamp \in Nat
    BY RemoteBounds DEF Stamps, RrTypes
  <2> QED
    BY <1>3, <2>2, <2>3 DEF RrWoken, WakeRequested, CoveredBy, RrTypes, EntriesAreArranged, Arranged, ConnectionIsOfPlace
<1>4. ASSUME NEW c \in RrClients, RrAnswered(c) PROVE RrInvariant'
  <2>1. /\ rrCall' = [rrCall EXCEPT ![c] = NoAppend] /\ rrTold' = rrTold \cup {rrCall[c].entry}
        /\ UNCHANGED <<rrJournal, rrWake, rrCovered, rrCursor, rrEngine, rrSub>> /\ rrCall[c].at = "woken"
    BY <1>4 DEF RrAnswered
  <2>2. RrTypes' /\ ConnectionIsOfPlace'
    BY <2>1, ZenonT(30) DEF NoAppend, RrTypes, ConnectionIsOfPlace
  <2>3. \A e \in rrTold' : e <= rrJournal /\ (~rrCovered => Arranged(e))
    BY <2>1 DEF EntriesAreArranged
  <2>4. \A d \in RrClients : rrCall'[d].entry <= rrJournal /\ (rrCall'[d].at = "woken" => rrCall'[d] = rrCall[d])
    BY <2>1 DEF NoAppend, EntriesAreArranged, RrTypes
  <2> QED
    BY <2>1, <2>2, <2>3, <2>4 DEF EntriesAreArranged, Arranged
<1>5. ASSUME RrReadsWake \/ RrProcesses \/ RrEngineFails PROVE RrInvariant'
  <2>1. CASE RrReadsWake
    BY <2>1 DEF RrReadsWake, RrTypes, EntriesAreArranged, Arranged, ConnectionIsOfPlace
  <2>2. CASE RrProcesses
    <3>1. RrTypes' /\ ConnectionIsOfPlace'
      BY <2>2 DEF RrProcesses, RrTypes, ConnectionIsOfPlace
    <3>2. rrCursor' = rrJournal /\ UNCHANGED <<rrJournal, rrCall, rrTold>>
      BY <2>2 DEF RrProcesses
    <3>3. \A e \in rrTold : e <= rrCursor'
      BY <3>2 DEF EntriesAreArranged
    <3>4. \A c \in RrClients : rrCall[c].entry <= rrCursor'
      BY <3>2 DEF EntriesAreArranged
    <3> QED
      BY <3>1, <3>2, <3>3, <3>4 DEF RrTypes, EntriesAreArranged, Arranged
  <2>3. CASE RrEngineFails
    BY <2>3 DEF RrEngineFails, NotReading, RrTypes, EntriesAreArranged, Arranged, ConnectionIsOfPlace
  <2> QED
    BY <1>5, <2>1, <2>2, <2>3
<1>6. ASSUME RrMarks PROVE RrInvariant'
  BY <1>6 DEF RrMarks, NotReading, RrTypes, EntriesAreArranged, Arranged, ConnectionIsOfPlace
<1> QED
  BY <1>1, <1>2, <1>3, <1>4, <1>5, <1>6, RrSubKept DEF RrNext

\* An answered append is arranged for, and a subscription that ended has no connection.
LEMMA RrPromises == RrInvariant => AnsweredIsArranged /\ NoConnectionLeft
BY DEF RrInvariant, EntriesAreArranged, Arranged, ConnectionIsOfPlace, AnsweredIsArranged, NoConnectionLeft

-----------------------------------------------------------------------------
(***************************************************************************)
(* A kernel that is driven and listened to (FaceDrive).  The invariant says *)
(* who of the drivers waits for which job of the queue, what the listener  *)
(* already has, and which program a reconfiguration that overlaps no other *)
(* was computed from.                                                      *)
(***************************************************************************)
FdOps == FaceOps \cup {"none", "start", "resync", "settle", "answer", "failure"}
FdPlaces == {"new", "mutating", "mutated", "idling", "draining", "resolving", "over"}
Drivers == FdCalls \cup {Controller}
Jobs == [by : Drivers \cup {Invocation}, op : FdOps,
         edit : [adds : SUBSET FdPatches, drops : SUBSET FdPatches], task : Nat]

DriverRecord == [op : FdOps, at : FdPlaces, behind : Nat, since : Nat, candidate : SUBSET FdPatches, lone : BOOLEAN]
KernelRecord == [rev : Nat, queue : Seq(Jobs), program : SUBSET FdPatches, outputs : {0, 1},
                 running : SUBSET Nat, errors : Nat]
ControllerRecord == [queue : Seq(FdOps), tree : Int, patch : Int]
FaceRecord == [blueprint : SUBSET FdPatches, heeded : {"not yet", "yes", "stopped"}, reads : SUBSET Nat,
               told : Int, signature : {0, 1}, heard : {0, 1}, missed : BOOLEAN, torn : BOOLEAN,
               poisoned : BOOLEAN]
LeftRecord == [operations : Nat, calls : SUBSET FdCalls, ops : SUBSET FaceOps, heeds : BOOLEAN,
               tasks : Nat, troubles : Nat]

FdTypes ==
    /\ fdKernel \in KernelRecord /\ fdController \in ControllerRecord /\ fdFace \in FaceRecord
    /\ fdDriver \in [Drivers -> DriverRecord] /\ fdLeft \in LeftRecord

\* The controller and an invocation are no calls of the face.
LEMMA FdNames == Controller \notin FdCalls /\ Invocation \notin FdCalls /\ Controller # Invocation
BY FdAssumption DEF Controller, Invocation

\* The first of a sequence, and the others one place nearer.
LEMMA NextOf ==
  ASSUME NEW S, NEW q \in Seq(S), q # <<>>
  PROVE  /\ Head(q) = q[1] /\ 1 \in DOMAIN q /\ Head(q) \in S /\ Tail(q) \in Seq(S)
         /\ \A i \in DOMAIN Tail(q) : i + 1 \in DOMAIN q /\ i + 1 # 1 /\ Tail(q)[i] = q[i + 1]
<1>1. Len(q) \in Nat /\ Len(q) # 0 /\ DOMAIN q = 1..Len(q) /\ \A i \in DOMAIN q : q[i] \in S
  OBVIOUS
<1>2. Tail(q) \in Seq(S) /\ Len(Tail(q)) = Len(q) - 1 /\ \A i \in 1..Len(Tail(q)) : Tail(q)[i] = q[i + 1]
  BY HeadTailProperties
<1>3. DOMAIN Tail(q) = 1..(Len(q) - 1)
  BY <1>2
<1> QED
  BY <1>1, <1>2, <1>3

\* A sequence with one more at its end.
LEMMA LastOf ==
  ASSUME NEW S, NEW q \in Seq(S), NEW x \in S
  PROVE  /\ Append(q, x) \in Seq(S)
         /\ \A i \in DOMAIN Append(q, x) : \/ i \in DOMAIN q /\ Append(q, x)[i] = q[i]
                                           \/ i = Len(q) + 1 /\ i \notin DOMAIN q /\ Append(q, x)[i] = x
BY AppendProperties

(***************************************************************************)
(* What an action may change of the kernel's revision and outputs and of   *)
(* what the listener has.                                                  *)
(***************************************************************************)
NotesAreKnown == fdFace.reads \subseteq 0..fdKernel.rev

ListenerHas ==
    fdFace.heeded = "yes" =>
        /\ fdFace.told = fdKernel.rev \/ (fdFace.told < fdKernel.rev /\ fdKernel.rev \in fdFace.reads)
        /\ ~fdFace.missed => fdFace.heard = fdKernel.outputs /\ fdFace.signature = fdKernel.outputs

(* A job of the queue is that of a driver who waits for it; only a lone
   reconfiguration edits what it was computed from. *)
JobHolds(job) ==
    /\ job.by \in Drivers => fdDriver[job.by].at = "mutating"
    /\ job.edit # NoEdit => job.by \in Reconfiguring
    /\ job.by = Controller => (job.op = "emit" <=> fdDriver[Controller].op = "emit")
    /\ (job.by \in Reconfiguring /\ fdDriver[job.by].lone) =>
           job.edit = Difference(fdKernel.program, Lowered(fdDriver[job.by].candidate))

QueueHolds ==
    /\ \A i \in DOMAIN fdKernel.queue : JobHolds(fdKernel.queue[i])
    /\ \A i, j \in DOMAIN fdKernel.queue :
          i # j /\ fdKernel.queue[i].by = fdKernel.queue[j].by => fdKernel.queue[i].by = Invocation

(* A reconfiguration that overlaps no other makes the program its candidate's. *)
CallHolds(c) ==
    /\ fdDriver[c].at \in {"mutating", "mutated"}
    /\ fdDriver[c].lone =>
          /\ Reconfiguring = {c}
          /\ fdDriver[c].at = "mutated" => fdKernel.program = Lowered(fdDriver[c].candidate)
          /\ fdDriver[c].at = "mutating" /\ ~fdFace.torn => fdKernel.program = Lowered(fdFace.blueprint)
    /\ ~fdDriver[c].lone => fdFace.torn

ProgramHolds == (\A c \in Reconfiguring : CallHolds(c)) /\ ProgramIsLowered

(* What invocations the controller's patch started, it has waited for. *)
AnswersHold ==
    /\ fdController.patch <= fdKernel.rev
    /\ (fdDriver[Controller].op = "emit" /\ fdDriver[Controller].at \in {"draining", "mutated", "resolving"}) =>
          \A task \in fdKernel.running : task > fdController.patch

(* The controller is at the first operation of its queue, or at none. *)
ControllerBusy == fdDriver[Controller].at # "new" => fdController.queue # <<>>

FdInvariant == FdTypes /\ ControllerBusy /\ NotesAreKnown /\ ListenerHas /\ QueueHolds /\ ProgramHolds /\ AnswersHold

-----------------------------------------------------------------------------
\* A driver that does nothing is a driver.
LEMMA NobodyTyped == Nobody \in DriverRecord
BY DEF Nobody, DriverRecord, FdOps, FdPlaces

\* A job that is done moves on the driver that waited for it, and no other.
LEMMA AdvancedDriver ==
  ASSUME FdTypes, NEW job
  PROVE  /\ Advanced(job, fdDriver) \in [Drivers -> DriverRecord]
         /\ \A d \in Drivers :
              /\ Advanced(job, fdDriver)[d].op = fdDriver[d].op
              /\ Advanced(job, fdDriver)[d].since = fdDriver[d].since
              /\ Advanced(job, fdDriver)[d].candidate = fdDriver[d].candidate
              /\ Advanced(job, fdDriver)[d].lone = fdDriver[d].lone
              /\ d # job.by => Advanced(job, fdDriver)[d].at = fdDriver[d].at
              /\ d = job.by => Advanced(job, fdDriver)[d].at =
                     IF d = Controller /\ fdDriver[d].at = "mutating" /\ job.op = "emit" THEN "idling" ELSE "mutated"
<1> DEFINE nearer(d) == [fdDriver[d] EXCEPT !.behind = IF @ > 0 THEN @ - 1 ELSE 0]
           then(d) == IF d = Controller /\ fdDriver[d].at = "mutating" /\ job.op = "emit" THEN "idling" ELSE "mutated"
<1>1. ASSUME NEW d \in Drivers
      PROVE  Advanced(job, fdDriver)[d] = IF d = job.by THEN [nearer(d) EXCEPT !.at = then(d)] ELSE nearer(d)
  <2>1. d \in DOMAIN fdDriver /\ nearer(d).at = fdDriver[d].at
    BY DEF FdTypes, KernelRecord
  <2> QED
    BY <2>1 DEF Advanced
<1>2. DOMAIN Advanced(job, fdDriver) = Drivers /\ Advanced(job, fdDriver) = [d \in Drivers |-> Advanced(job, fdDriver)[d]]
  BY DEF Advanced, FdTypes
<1>3. ASSUME NEW d \in Drivers
      PROVE  /\ nearer(d) \in DriverRecord /\ nearer(d).op = fdDriver[d].op /\ nearer(d).since = fdDriver[d].since
             /\ nearer(d).candidate = fdDriver[d].candidate /\ nearer(d).lone = fdDriver[d].lone
             /\ nearer(d).at = fdDriver[d].at
  BY DEF FdTypes, DriverRecord
<1> HIDE DEF nearer
<1>4. ASSUME NEW d \in Drivers
      PROVE  /\ Advanced(job, fdDriver)[d] \in DriverRecord
             /\ Advanced(job, fdDriver)[d].op = fdDriver[d].op
             /\ Advanced(job, fdDriver)[d].since = fdDriver[d].since
             /\ Advanced(job, fdDriver)[d].candidate = fdDriver[d].candidate
             /\ Advanced(job, fdDriver)[d].lone = fdDriver[d].lone
             /\ d # job.by => Advanced(job, fdDriver)[d].at = fdDriver[d].at
             /\ d = job.by => Advanced(job, fdDriver)[d].at = then(d)
  <2>1. then(d) \in FdPlaces
    BY DEF FdPlaces
  <2>2. CASE d = job.by
    <3>1. Advanced(job, fdDriver)[d] = [nearer(d) EXCEPT !.at = then(d)]
      BY <1>1, <2>2
    <3> HIDE DEF then
    <3> QED
      BY <1>3, <2>1, <2>2, <3>1 DEF DriverRecord
  <2>3. CASE d # job.by
    BY <1>1, <1>3, <2>3
  <2> QED
    BY <2>2, <2>3
<1> QED
  BY <1>2, <1>4

(***************************************************************************)
(* One driver that reconfigures nothing moves, or none does.               *)
(***************************************************************************)
StaysPut(e) ==
    /\ fdDriver'[e].op = fdDriver[e].op /\ fdDriver'[e].at = fdDriver[e].at
    /\ fdDriver'[e].candidate = fdDriver[e].candidate /\ fdDriver'[e].lone = fdDriver[e].lone

Apart(d) ==
    /\ \A e \in Drivers \ {d} : StaysPut(e)
    /\ d \notin Reconfiguring /\ d \notin Reconfiguring'

ProgramRests ==
    /\ fdKernel'.program = fdKernel.program
    /\ fdFace'.torn = fdFace.torn /\ fdFace'.blueprint = fdFace.blueprint

\* While a driver that reconfigures nothing moves, reconfigurations and their jobs stay as they are.
LEMMA ApartKeeps ==
  ASSUME ProgramHolds, NEW d, Apart(d), ProgramRests
  PROVE  /\ Reconfiguring' = Reconfiguring
         /\ ProgramHolds'
         /\ \A job : JobHolds(job) /\ job.by # d => JobHolds(job)'
<1>1. Reconfiguring' = Reconfiguring
  BY DEF Apart, Reconfiguring, StaysPut, Drivers
<1>2. \A c \in Reconfiguring : c # d /\ c \in Drivers /\ StaysPut(c)
  BY DEF Apart, Reconfiguring, Drivers
<1>3. \A c \in Reconfiguring : CallHolds(c) => CallHolds(c)'
  BY <1>1, <1>2 DEF CallHolds, StaysPut, ProgramRests, Lowered
<1>4. ProgramIsLowered'
  BY <1>1 DEF ProgramHolds, ProgramIsLowered, ProgramRests, Lowered
<1>5. ASSUME NEW job, JobHolds(job), job.by # d PROVE JobHolds(job)'
  <2>1. job.by \in Drivers => StaysPut(job.by)
    BY <1>5 DEF Apart
  <2>2. job.by \in Reconfiguring => job.by \in Drivers
    BY DEF Reconfiguring, Drivers
  <2>3. Controller \in Drivers
    BY DEF Drivers
  <2> QED
    BY <1>1, <1>5, <2>1, <2>2, <2>3 DEF JobHolds, StaysPut, ProgramRests, Lowered, Difference
<1> QED
  BY <1>1, <1>3, <1>4, <1>5 DEF ProgramHolds

(***************************************************************************)
(* A queue that stays, loses its first job, or gets one more.              *)
(***************************************************************************)
\* A queue nobody touches stays arranged while its jobs do.
LEMMA QueueStays ==
  ASSUME QueueHolds, fdKernel'.queue = fdKernel.queue,
         \A job : JobHolds(job) => JobHolds(job)'
  PROVE  QueueHolds'
<1>1. \A job : (\E i \in DOMAIN fdKernel'.queue : job = fdKernel'.queue[i]) => JobHolds(job)'
  BY DEF QueueHolds
<1> QED
  BY <1>1 DEF QueueHolds

\* The first job leaves the queue, and whoever waited for it waits no more.
LEMMA QueueShrinks ==
  ASSUME FdTypes, QueueHolds, fdKernel.queue # <<>>, fdKernel'.queue = Tail(fdKernel.queue),
         \A job \in Jobs : JobHolds(job) /\ (job.by = Head(fdKernel.queue).by => job.by = Invocation) => JobHolds(job)'
  PROVE  QueueHolds'
<1> DEFINE q == fdKernel.queue
<1>1. q \in Seq(Jobs)
  BY DEF FdTypes, KernelRecord
<1>2. /\ Head(q) = q[1] /\ 1 \in DOMAIN q
      /\ \A i \in DOMAIN Tail(q) : i + 1 \in DOMAIN q /\ i + 1 # 1 /\ Tail(q)[i] = q[i + 1]
  BY <1>1, NextOf
<1>3. \A i \in DOMAIN q : q[i] \in Jobs
  BY <1>1
<1>4. \A i \in DOMAIN Tail(q) : i \in Int
  BY <1>1, NextOf, HeadTailProperties
<1> HIDE DEF q
<1>5. ASSUME NEW i \in DOMAIN Tail(q) PROVE \E job \in Jobs : job = Tail(q)[i] /\ JobHolds(job)'
  <2>1. i + 1 \in DOMAIN q /\ i + 1 # 1 /\ Tail(q)[i] = q[i + 1]
    BY <1>2
  <2>2. JobHolds(q[i + 1]) /\ q[i + 1] \in Jobs /\ (q[i + 1].by = q[1].by => q[i + 1].by = Invocation)
    BY <1>2, <1>3, <2>1 DEF QueueHolds, q
  <2> QED
    BY <1>2, <2>1, <2>2 DEF q
<1>6. ASSUME NEW i \in DOMAIN Tail(q), NEW j \in DOMAIN Tail(q), i # j, Tail(q)[i].by = Tail(q)[j].by
      PROVE  Tail(q)[i].by = Invocation
  <2>1. i + 1 # j + 1
    BY <1>4, <1>6
  <2> QED
    BY <1>2, <1>6, <2>1 DEF QueueHolds, q
<1>7. \A job : (\E i \in DOMAIN fdKernel'.queue : job = fdKernel'.queue[i]) => JobHolds(job)'
  BY <1>5 DEF q
<1> QED
  BY <1>6, <1>7 DEF QueueHolds, q

\* A job is added to the queue by who has none in it.
LEMMA QueueGrows ==
  ASSUME FdTypes, QueueHolds, NEW new \in Jobs, fdKernel'.queue = Append(fdKernel.queue, new),
         \E job : job = new /\ JobHolds(job)',
         new.by # Invocation => \A i \in DOMAIN fdKernel.queue : fdKernel.queue[i].by # new.by,
         \A job \in Jobs : JobHolds(job) /\ (job.by = new.by => job.by = Invocation) => JobHolds(job)'
  PROVE  QueueHolds'
<1> DEFINE q == fdKernel.queue
<1>1. q \in Seq(Jobs) /\ \A i \in DOMAIN q : q[i] \in Jobs
  BY DEF FdTypes, KernelRecord
<1>2. \A i \in DOMAIN Append(q, new) : \/ i \in DOMAIN q /\ Append(q, new)[i] = q[i]
                                       \/ i = Len(q) + 1 /\ i \notin DOMAIN q /\ Append(q, new)[i] = new
  BY <1>1, LastOf
<1> HIDE DEF q
<1>3. ASSUME NEW i \in DOMAIN Append(q, new) PROVE \E job \in Jobs : job = Append(q, new)[i] /\ JobHolds(job)'
  <2>1. CASE i \in DOMAIN q /\ Append(q, new)[i] = q[i]
    <3>1. JobHolds(q[i]) /\ q[i] \in Jobs /\ (q[i].by = new.by => q[i].by = Invocation)
      BY <1>1, <2>1 DEF QueueHolds, q
    <3> QED
      BY <2>1, <3>1
  <2>2. CASE Append(q, new)[i] = new
    BY <2>2
  <2> QED
    BY <1>2, <2>1, <2>2
<1>4. ASSUME NEW i \in DOMAIN Append(q, new), NEW j \in DOMAIN Append(q, new), i # j,
             Append(q, new)[i].by = Append(q, new)[j].by
      PROVE  Append(q, new)[i].by = Invocation
  BY <1>2, <1>4 DEF QueueHolds, q
<1>5. \A job : (\E i \in DOMAIN fdKernel'.queue : job = fdKernel'.queue[i]) => JobHolds(job)'
  BY <1>3 DEF q
<1> QED
  BY <1>4, <1>5 DEF QueueHolds, q

-----------------------------------------------------------------------------
\* The controller reconfigures nothing.
LEMMA ControllerApart == Controller \notin Reconfiguring /\ Controller \in Drivers /\ Invocation \notin Drivers
BY FdNames DEF Reconfiguring, Drivers

(***************************************************************************)
(* A commit and a mutation that throws.                                    *)
(***************************************************************************)
\* What a commit of the kernel changes: the revision, the program, the outputs and the invocations
\* it starts, and what the face and its listener read of them.
LEMMA CommitIs ==
  ASSUME FdInvariant, FdCommits
  PROVE  \E job \in Jobs, rev \in Nat, outputs \in {0, 1}, starts \in {0, 1} :
           /\ job = Head(fdKernel.queue) /\ fdKernel.queue # <<>>
           /\ rev \in {fdKernel.rev, fdKernel.rev + 1}
           /\ rev = fdKernel.rev => outputs = fdKernel.outputs /\ starts = 0
           /\ starts <= fdLeft.tasks
           /\ fdLeft' = [fdLeft EXCEPT !.tasks = @ - starts]
           /\ fdKernel' = [rev |-> rev, queue |-> Tail(fdKernel.queue), program |-> Edited(fdKernel.program, job.edit),
                           outputs |-> outputs, running |-> (fdKernel.running \ {job.task}) \cup {rev : n \in 1..starts},
                           errors |-> fdKernel.errors + (IF job.op = "failure" THEN 1 ELSE 0)]
           /\ fdFace' = TreeRead(OutputsTold(fdFace, outputs), rev)
           /\ fdDriver' = Advanced(job, fdDriver)
           /\ fdController' = IF job.by = Controller THEN [fdController EXCEPT !.patch = rev] ELSE fdController
<1> DEFINE job == Head(fdKernel.queue)
<1>1. fdKernel.queue # <<>> /\ fdKernel.queue \in Seq(Jobs)
  BY DEF FdCommits, FdInvariant, FdTypes, KernelRecord
<1>2. job \in Jobs
  BY <1>1, NextOf
<1>3. fdKernel.rev \in Nat /\ fdKernel = [rev |-> fdKernel.rev, queue |-> fdKernel.queue, program |-> fdKernel.program,
         outputs |-> fdKernel.outputs, running |-> fdKernel.running, errors |-> fdKernel.errors]
  BY DEF FdInvariant, FdTypes, KernelRecord
<1>4. PICK rev \in {fdKernel.rev + 1} \cup {fdKernel.rev : o \in {job.op} \cap {"sync"}},
           outputs \in IF fdLeft.heeds THEN 0..1 ELSE {0}, starts \in 0..1 :
          /\ rev = fdKernel.rev => outputs = fdKernel.outputs /\ starts = 0
          /\ starts <= fdLeft.tasks
          /\ fdLeft' = [fdLeft EXCEPT !.tasks = @ - starts]
          /\ fdKernel' = [fdKernel EXCEPT !.rev = rev, !.queue = Tail(@), !.outputs = outputs,
                             !.program = Edited(@, job.edit),
                             !.running = (@ \ {job.task}) \cup {rev : n \in 1..starts},
                             !.errors = @ + (IF job.op = "failure" THEN 1 ELSE 0)]
          /\ fdFace' = TreeRead(OutputsTold(fdFace, outputs), rev)
          /\ fdDriver' = Advanced(job, fdDriver)
          /\ fdController' = IF job.by = Controller THEN [fdController EXCEPT !.patch = rev] ELSE fdController
  BY DEF FdCommits
<1>5. rev \in Nat /\ rev \in {fdKernel.rev, fdKernel.rev + 1} /\ outputs \in {0, 1} /\ starts \in {0, 1}
  BY <1>3
<1>6. fdKernel' = [rev |-> rev, queue |-> Tail(fdKernel.queue), program |-> Edited(fdKernel.program, job.edit),
                   outputs |-> outputs, running |-> (fdKernel.running \ {job.task}) \cup {rev : n \in 1..starts},
                   errors |-> fdKernel.errors + (IF job.op = "failure" THEN 1 ELSE 0)]
  <2> HIDE DEF job
  <2> QED
    BY <1>3, <1>4
<1> HIDE DEF job
<1>7. /\ job = Head(fdKernel.queue)
      /\ fdFace' = TreeRead(OutputsTold(fdFace, outputs), rev)
      /\ fdDriver' = Advanced(job, fdDriver)
  BY <1>4 DEF job
<1>8. /\ rev = fdKernel.rev => outputs = fdKernel.outputs /\ starts = 0
      /\ starts <= fdLeft.tasks /\ fdLeft' = [fdLeft EXCEPT !.tasks = @ - starts]
      /\ fdController' = IF job.by = Controller THEN [fdController EXCEPT !.patch = rev] ELSE fdController
  BY <1>4
<1> USE <1>2, <1>5
<1> WITNESS job \in Jobs, rev \in Nat, outputs \in {0, 1}, starts \in {0, 1}
<1> QED
  BY <1>1, <1>5, <1>6, <1>7, <1>8

\* Reading the tree adds its revision to what the listener is owed, and leaves the rest of the face alone.
LEMMA TreeReadHas ==
  ASSUME FdTypes, NEW outputs \in {0, 1}, NEW rev \in Nat
  PROVE  LET face == TreeRead(OutputsTold(fdFace, outputs), rev)
         IN  /\ face \in FaceRecord
             /\ face.reads = IF fdFace.heeded = "yes" THEN fdFace.reads \cup {rev} ELSE fdFace.reads
             /\ face.heeded = fdFace.heeded /\ face.told = fdFace.told /\ face.missed = fdFace.missed
             /\ face.torn = fdFace.torn /\ face.blueprint = fdFace.blueprint
             /\ fdFace.heeded = "yes" => face.signature = outputs /\ (face.heard = outputs \/ (face.heard = fdFace.heard /\ fdFace.signature = outputs))
<1> DEFINE told == OutputsTold(fdFace, outputs)
<1>1. /\ told \in FaceRecord /\ told.reads = fdFace.reads
      /\ told.heeded = fdFace.heeded /\ told.told = fdFace.told /\ told.missed = fdFace.missed
      /\ told.torn = fdFace.torn /\ told.blueprint = fdFace.blueprint
      /\ fdFace.heeded = "yes" => told.signature = outputs /\ (told.heard = outputs \/ (told.heard = fdFace.heard /\ fdFace.signature = outputs))
  BY DEF FdTypes, FaceRecord, OutputsTold
<1> HIDE DEF told
<1> QED
  BY <1>1 DEF TreeRead, FaceRecord, told

\* A commit leaves the types as they are.
LEMMA CommitTyped ==
  ASSUME FdInvariant, FdCommits
  PROVE  FdTypes'
<1>1. FdTypes
  BY DEF FdInvariant
<1>2. PICK job \in Jobs, rev \in Nat, outputs \in {0, 1}, starts \in {0, 1} :
           /\ job = Head(fdKernel.queue) /\ fdKernel.queue # <<>>
           /\ starts <= fdLeft.tasks
           /\ fdLeft' = [fdLeft EXCEPT !.tasks = @ - starts]
           /\ fdKernel' = [rev |-> rev, queue |-> Tail(fdKernel.queue), program |-> Edited(fdKernel.program, job.edit),
                           outputs |-> outputs, running |-> (fdKernel.running \ {job.task}) \cup {rev : n \in 1..starts},
                           errors |-> fdKernel.errors + (IF job.op = "failure" THEN 1 ELSE 0)]
           /\ fdFace' = TreeRead(OutputsTold(fdFace, outputs), rev)
           /\ fdDriver' = Advanced(job, fdDriver)
           /\ fdController' = IF job.by = Controller THEN [fdController EXCEPT !.patch = rev] ELSE fdController
  BY CommitIs
<1>3. fdKernel' \in KernelRecord
  <2>1. Tail(fdKernel.queue) \in Seq(Jobs)
    BY <1>1, <1>2, NextOf DEF FdTypes, KernelRecord
  <2>2. Edited(fdKernel.program, job.edit) \in SUBSET FdPatches
    BY <1>1 DEF FdTypes, KernelRecord, Edited, Jobs
  <2>3. (fdKernel.running \ {job.task}) \cup {rev : n \in 1..starts} \in SUBSET Nat
    BY <1>1 DEF FdTypes, KernelRecord
  <2>4. fdKernel.errors + (IF job.op = "failure" THEN 1 ELSE 0) \in Nat
    BY <1>1 DEF FdTypes, KernelRecord
  <2> QED
    BY <1>2, <2>1, <2>2, <2>3, <2>4 DEF KernelRecord
<1>4. fdLeft' \in LeftRecord
  BY <1>1, <1>2 DEF FdTypes, LeftRecord
<1>5. fdController' \in ControllerRecord
  BY <1>1, <1>2 DEF FdTypes, ControllerRecord
<1>6. fdFace' \in FaceRecord /\ fdDriver' \in [Drivers -> DriverRecord]
  BY <1>1, <1>2, TreeReadHas, AdvancedDriver
<1> QED
  BY <1>3, <1>4, <1>5, <1>6 DEF FdTypes

\* A commit keeps every part of the invariant.
LEMMA CommitKeeps ==
  ASSUME FdInvariant, FdCommits
  PROVE  ControllerBusy' /\ NotesAreKnown' /\ ListenerHas' /\ AnswersHold' /\ QueueHolds' /\ ProgramHolds'
<1>1. FdTypes /\ FdTypes' /\ NotesAreKnown /\ ListenerHas /\ QueueHolds /\ ProgramHolds /\ AnswersHold
  BY CommitTyped DEF FdInvariant
<1>2. PICK job \in Jobs, rev \in Nat, outputs \in {0, 1}, starts \in {0, 1} :
           /\ job = Head(fdKernel.queue) /\ fdKernel.queue # <<>>
           /\ rev \in {fdKernel.rev, fdKernel.rev + 1}
           /\ rev = fdKernel.rev => outputs = fdKernel.outputs /\ starts = 0
           /\ fdKernel' = [rev |-> rev, queue |-> Tail(fdKernel.queue), program |-> Edited(fdKernel.program, job.edit),
                           outputs |-> outputs, running |-> (fdKernel.running \ {job.task}) \cup {rev : n \in 1..starts},
                           errors |-> fdKernel.errors + (IF job.op = "failure" THEN 1 ELSE 0)]
           /\ fdFace' = TreeRead(OutputsTold(fdFace, outputs), rev)
           /\ fdDriver' = Advanced(job, fdDriver)
           /\ fdController' = IF job.by = Controller THEN [fdController EXCEPT !.patch = rev] ELSE fdController
  BY CommitIs
<1>3. /\ fdKernel'.rev = rev /\ fdKernel'.outputs = outputs /\ fdKernel'.queue = Tail(fdKernel.queue)
      /\ fdKernel'.program = Edited(fdKernel.program, job.edit)
      /\ fdKernel'.running = (fdKernel.running \ {job.task}) \cup {rev : n \in 1..starts}
  BY <1>2
<1>4. /\ fdFace'.reads = IF fdFace.heeded = "yes" THEN fdFace.reads \cup {rev} ELSE fdFace.reads
      /\ fdFace'.heeded = fdFace.heeded /\ fdFace'.told = fdFace.told /\ fdFace'.missed = fdFace.missed
      /\ fdFace'.torn = fdFace.torn /\ fdFace'.blueprint = fdFace.blueprint
      /\ fdFace.heeded = "yes" => fdFace'.signature = outputs /\ (fdFace'.heard = outputs \/ (fdFace'.heard = fdFace.heard /\ fdFace.signature = outputs))
  BY <1>1, <1>2, TreeReadHas
<1>5. /\ \A d \in Drivers : /\ fdDriver'[d].op = fdDriver[d].op /\ fdDriver'[d].candidate = fdDriver[d].candidate
                            /\ fdDriver'[d].lone = fdDriver[d].lone
                            /\ d # job.by => fdDriver'[d].at = fdDriver[d].at
                            /\ d = job.by => fdDriver'[d].at =
                                 IF d = Controller /\ fdDriver[d].at = "mutating" /\ job.op = "emit" THEN "idling" ELSE "mutated"
  BY <1>1, <1>2, AdvancedDriver, ZenonT(30)
<1>6. JobHolds(job)
  BY <1>1, <1>2, NextOf DEF QueueHolds, FdTypes, KernelRecord
<1>7. fdKernel.rev \in Nat /\ fdController.patch \in Int /\ fdKernel.running \in SUBSET Nat /\ fdFace.told \in Int
  BY <1>1 DEF FdTypes, KernelRecord, ControllerRecord, FaceRecord
<1>8. NotesAreKnown'
  BY <1>1, <1>2, <1>3, <1>4, <1>7 DEF NotesAreKnown
<1>9. ListenerHas'
  BY <1>1, <1>2, <1>3, <1>4, <1>7 DEF ListenerHas
<1>10. AnswersHold'
  <2>1. CASE job.by = Controller
    <3>1. fdController'.patch = rev
      BY <1>1, <1>2, <2>1 DEF FdTypes, ControllerRecord
    <3>2. fdDriver[Controller].at = "mutating" /\ (job.op = "emit" <=> fdDriver[Controller].op = "emit")
      BY <1>6, <2>1, ControllerApart DEF JobHolds
    <3>3. fdDriver'[Controller].op = "emit" => fdDriver'[Controller].at = "idling"
      BY <1>5, <2>1, <3>2, ControllerApart
    <3> QED
      BY <1>2, <1>3, <3>1, <3>3 DEF AnswersHold
  <2>2. CASE job.by # Controller
    <3>1. fdController' = fdController /\ fdDriver'[Controller].op = fdDriver[Controller].op
          /\ fdDriver'[Controller].at = fdDriver[Controller].at
      BY <1>2, <1>5, <2>2, ControllerApart
    <3>2. \A task \in fdKernel'.running : task \in fdKernel.running \/ (task = rev /\ rev = fdKernel.rev + 1)
      BY <1>2, <1>3
    <3>3. fdController'.patch <= fdKernel'.rev
      BY <1>1, <1>2, <1>3, <1>7, <3>1 DEF AnswersHold
    <3>4. ASSUME fdDriver[Controller].op = "emit" /\ fdDriver[Controller].at \in {"draining", "mutated", "resolving"},
                 NEW task \in fdKernel'.running
          PROVE  task > fdController.patch
      BY <1>1, <1>7, <3>2, <3>4 DEF AnswersHold
    <3> QED
      BY <3>1, <3>3, <3>4 DEF AnswersHold
  <2> QED
    BY <2>1, <2>2
<1>13. ControllerBusy'
  <2>1. fdController'.queue = fdController.queue
    BY <1>1, <1>2 DEF FdTypes, ControllerRecord
  <2>2. fdDriver[Controller].at # "new"  \/ fdDriver'[Controller].at = "new"
    BY <1>5, <1>6, ControllerApart DEF JobHolds
  <2> QED
    BY <2>1, <2>2 DEF ControllerBusy, FdInvariant
<1>11. CASE job.by \notin Reconfiguring
  <2>1. job.edit = NoEdit /\ fdKernel'.program = fdKernel.program
    BY <1>3, <1>6, <1>11 DEF JobHolds, NoEdit, Edited
  <2>2. Apart(job.by)
    <3>1. \A e \in Drivers \ {job.by} : StaysPut(e)
      BY <1>5 DEF StaysPut
    <3>2. job.by \notin Reconfiguring'
      BY <1>5, <1>6, <1>11 DEF Reconfiguring, JobHolds, Drivers
    <3> QED
      BY <1>11, <3>1, <3>2 DEF Apart
  <2>3. ProgramHolds' /\ \A other : JobHolds(other) /\ other.by # job.by => JobHolds(other)'
    BY <1>1, <1>4, <2>1, <2>2, ApartKeeps DEF ProgramRests
  <2>4. \A other \in Jobs : JobHolds(other) /\ other.by = Invocation => JobHolds(other)'
    <3>1. \A other \in Jobs : JobHolds(other) /\ other.by = Invocation => other.edit = NoEdit
      BY FdNames DEF JobHolds, Reconfiguring
    <3> QED
      BY <3>1, FdNames, ControllerApart DEF JobHolds, Reconfiguring
  <2>5. QueueHolds'
    BY <1>1, <1>2, <1>3, <2>3, <2>4, QueueShrinks
  <2> QED
    BY <1>8, <1>9, <1>10, <1>13, <2>3, <2>5
<1>12. CASE job.by \in Reconfiguring
  <2> DEFINE c == job.by
  <2>1. c \in FdCalls /\ c \in Drivers /\ c # Controller /\ c # Invocation
    BY <1>12, FdNames DEF Reconfiguring, Drivers
  <2>2. fdDriver'[c].at = "mutated" /\ fdDriver[c].at = "mutating"
    BY <1>5, <1>6, <2>1 DEF JobHolds
  <2>3. Reconfiguring' = Reconfiguring
    BY <1>5, <2>2 DEF Reconfiguring, Drivers
  <2>4. CallHolds(c)
    BY <1>1, <1>12 DEF ProgramHolds
  <2>5. fdDriver[c].lone => fdKernel'.program = Lowered(fdDriver[c].candidate)
    <3>1. fdDriver[c].lone => job.edit = Difference(fdKernel.program, Lowered(fdDriver[c].candidate))
      BY <1>6, <1>12 DEF JobHolds
    <3> QED
      BY <1>3, <3>1 DEF Edited, Difference
  <2>6. ASSUME NEW d \in Reconfiguring PROVE CallHolds(d)'
    <3>1. CallHolds(d) /\ d \in Drivers
      BY <1>1 DEF ProgramHolds, Reconfiguring, Drivers
    <3>2. CASE d = c
      BY <1>4, <1>5, <2>1, <2>2, <2>3, <2>4, <2>5, <3>2 DEF CallHolds, Lowered
    <3>3. CASE d # c
      BY <1>4, <1>5, <1>12, <2>3, <3>1, <3>3 DEF CallHolds
    <3> QED
      BY <3>2, <3>3
  <2>7. ProgramHolds'
    BY <1>12, <2>3, <2>6 DEF ProgramHolds, ProgramIsLowered
  <2>8. \A other \in Jobs : JobHolds(other) /\ (other.by = c => other.by = Invocation) => JobHolds(other)'
    <3>1. \A d \in Reconfiguring : d # c => ~fdDriver'[d].lone
      BY <1>1, <1>5, <1>12 DEF ProgramHolds, CallHolds, Reconfiguring, Drivers
    <3> QED
      BY <1>5, <2>1, <2>3, <3>1, ControllerApart DEF JobHolds
  <2>9. QueueHolds'
    BY <1>1, <1>2, <1>3, <2>8, QueueShrinks
  <2> QED
    BY <1>8, <1>9, <1>10, <1>13, <2>7, <2>9
<1> QED
  BY <1>11, <1>12

(***************************************************************************)
(* What the other actions leave alone.                                     *)
(***************************************************************************)
FaceRests ==
    /\ fdFace'.reads = fdFace.reads /\ fdFace'.told = fdFace.told /\ fdFace'.heeded = fdFace.heeded
    /\ fdFace'.missed = fdFace.missed /\ fdFace'.heard = fdFace.heard /\ fdFace'.signature = fdFace.signature

RevisionRests ==
    /\ fdKernel'.rev = fdKernel.rev /\ fdKernel'.outputs = fdKernel.outputs
    /\ fdKernel'.running \subseteq fdKernel.running

\* The listener has what it had if neither the revision nor the face changed.
LEMMA ListenerRests ==
  ASSUME NotesAreKnown, ListenerHas, RevisionRests, FaceRests
  PROVE  NotesAreKnown' /\ ListenerHas'
BY DEF NotesAreKnown, ListenerHas, RevisionRests, FaceRests

\* The controller's answers are as they were if neither the kernel's revision nor the controller moved.
LEMMA AnswersRest ==
  ASSUME AnswersHold, RevisionRests, fdController'.patch = fdController.patch, StaysPut(Controller)
  PROVE  AnswersHold'
BY DEF AnswersHold, RevisionRests, StaysPut

\* When no driver moves, the controller stays put.
LEMMA NobodyStirs ==
  ASSUME FdTypes, fdDriver' = fdDriver
  PROVE  Apart(Controller) /\ StaysPut(Controller) /\ fdDriver' \in [Drivers -> DriverRecord]
BY ControllerApart DEF Apart, StaysPut, Reconfiguring, FdTypes

\* When one driver moves, the others stay put.
LEMMA OneStirs ==
  ASSUME FdTypes, NEW d \in Drivers, NEW record \in DriverRecord, fdDriver' = [fdDriver EXCEPT ![d] = record]
  PROVE  /\ fdDriver' \in [Drivers -> DriverRecord]
         /\ fdDriver'[d] = record
         /\ \A e \in Drivers \ {d} : fdDriver'[e] = fdDriver[e] /\ StaysPut(e)
BY DEF FdTypes, StaysPut

\* A driver in another place is a driver.
LEMMA TurnTyped ==
  ASSUME FdTypes, NEW d \in Drivers, NEW at \in FdPlaces
  PROVE  /\ [fdDriver[d] EXCEPT !.at = at] \in DriverRecord
         /\ [fdDriver[d] EXCEPT !.at = at].op = fdDriver[d].op
         /\ [fdDriver[d] EXCEPT !.at = at].at = at
BY DEF FdTypes, DriverRecord

\* What is left of operations and troubles stays a bounded record.
LEMMA TroubleTyped ==
  ASSUME FdTypes, Spend("troubles") \/ Spend("operations") \/ UNCHANGED fdLeft
  PROVE  fdLeft' \in LeftRecord
BY DEF FdTypes, Spend, LeftRecord

\* Queueing a job touches neither the program nor the revision.
LEMMA QueuedIs ==
  ASSUME FdTypes, NEW job \in Jobs, Queued(job)
  PROVE  /\ fdKernel' \in KernelRecord
         /\ fdKernel'.queue = Append(fdKernel.queue, job)
         /\ fdKernel'.program = fdKernel.program
         /\ RevisionRests
<1>1. Append(fdKernel.queue, job) \in Seq(Jobs)
  BY LastOf DEF FdTypes, KernelRecord
<1>2. fdKernel' = [fdKernel EXCEPT !.queue = Append(fdKernel.queue, job)]
  BY DEF Queued
<1> QED
  BY <1>1, <1>2 DEF FdTypes, KernelRecord, RevisionRests

\* A job without an edit is a job.
LEMMA JobTyped ==
  ASSUME NEW by \in Drivers \cup {Invocation}, NEW op \in FdOps
  PROVE  /\ Job(by, op, NoEdit) \in Jobs /\ Job(by, op, NoEdit).by = by
         /\ Job(by, op, NoEdit).op = op /\ Job(by, op, NoEdit).edit = NoEdit
BY DEF Job, Jobs, NoEdit

(* The queue when a driver that reconfigures nothing moves. *)
LEMMA ApartQueue ==
  ASSUME FdTypes, QueueHolds, ProgramHolds, NEW d, Apart(d), ProgramRests, fdKernel'.queue = fdKernel.queue,
         d \in Drivers => (fdDriver[d].at # "mutating" \/ StaysPut(d))
  PROVE  QueueHolds'
<1>1. ASSUME NEW job, JobHolds(job) PROVE JobHolds(job)'
  <2>1. CASE job.by # d
    BY <1>1, <2>1, ApartKeeps
  <2>2. CASE job.by = d
    BY <1>1, <2>2, ApartKeeps, ControllerApart DEF JobHolds, StaysPut, Apart
  <2> QED
    BY <2>1, <2>2
<1> QED
  BY <1>1, QueueStays

(* A job is queued by a driver that had none in the queue, or by nobody. *)
LEMMA ApartQueues ==
  ASSUME FdTypes, QueueHolds, ProgramHolds, NEW d, Apart(d), ProgramRests,
         NEW job \in Jobs, fdKernel'.queue = Append(fdKernel.queue, job), job.by = d, job.edit = NoEdit,
         d \in Drivers => fdDriver[d].at # "mutating" /\ fdDriver'[d].at = "mutating",
         d = Controller => (job.op = "emit" <=> fdDriver'[Controller].op = "emit"),
         d \in Drivers \/ d = Invocation
  PROVE  QueueHolds'
<1>1. JobHolds(job)'
  <2>1. job.by \notin Reconfiguring'
    BY DEF Apart
  <2> QED
    BY <2>1 DEF JobHolds
<1>2. d # Invocation => \A i \in DOMAIN fdKernel.queue : fdKernel.queue[i].by # job.by
  BY DEF QueueHolds, JobHolds
<1>3. \A other : JobHolds(other) /\ other.by # d => JobHolds(other)'
  BY ApartKeeps
<1>4. d = Invocation => \A other : JobHolds(other) /\ other.by = d => JobHolds(other)'
  <2>1. Reconfiguring' = Reconfiguring
    BY ApartKeeps
  <2> QED
    BY <2>1, ControllerApart DEF JobHolds, Apart
<1> QED
  BY <1>1, <1>2, <1>3, <1>4, QueueGrows

-----------------------------------------------------------------------------
\* What a handler that throws changes: the job is gone, its edit may have been made or not, and its driver
\* ends or goes on.
LEMMA ThrowIs ==
  ASSUME FdInvariant, FdThrows
  PROVE  \E job \in Jobs, program \in SUBSET FdPatches :
           /\ job = Head(fdKernel.queue) /\ fdKernel.queue # <<>> /\ Spend("troubles")
           /\ program \in {fdKernel.program, Edited(fdKernel.program, job.edit)}
           /\ fdKernel' \in KernelRecord /\ RevisionRests
           /\ fdKernel'.queue = Tail(fdKernel.queue) /\ fdKernel'.program = program
           /\ fdDriver' = LET advanced == Advanced(job, fdDriver)
                          IN  CASE job.by = Controller -> [advanced EXCEPT ![Controller] = Nobody]
                                [] job.by \in FdCalls -> [advanced EXCEPT ![job.by].at = "over"]
                                [] OTHER -> advanced
           /\ fdController' = IF job.by = Controller THEN OperationOver(fdController, <<>>) ELSE fdController
           /\ fdFace' \in FaceRecord /\ FaceRests /\ fdFace'.blueprint = fdFace.blueprint
           /\ fdFace'.torn = (fdFace.torn \/ program # fdKernel.program)
<1> DEFINE job == Head(fdKernel.queue)
<1>1. fdKernel.queue # <<>> /\ fdKernel.queue \in Seq(Jobs)
  BY DEF FdThrows, FdInvariant, FdTypes, KernelRecord
<1>2. job \in Jobs /\ Tail(fdKernel.queue) \in Seq(Jobs)
  BY <1>1, NextOf
<1> HIDE DEF job
<1>3. PICK program \in {fdKernel.program, Edited(fdKernel.program, job.edit)} :
          /\ fdKernel' = [fdKernel EXCEPT !.queue = Tail(@), !.program = program,
                             !.running = @ \ {job.task},
                             !.errors = @ + (IF job.by = Invocation THEN 1 ELSE 0)]
          /\ fdDriver' = LET advanced == Advanced(job, fdDriver)
                         IN  CASE job.by = Controller -> [advanced EXCEPT ![Controller] = Nobody]
                               [] job.by \in FdCalls -> [advanced EXCEPT ![job.by].at = "over"]
                               [] OTHER -> advanced
          /\ fdController' = IF job.by = Controller THEN OperationOver(fdController, <<>>) ELSE fdController
          /\ fdFace' = [fdFace EXCEPT !.torn = @ \/ program # fdKernel.program,
                                      !.poisoned = @ \/ (job.by \in FdCalls /\ job.op = "emit")]
  BY DEF FdThrows, job
<1>4. program \in SUBSET FdPatches
  BY <1>2 DEF FdInvariant, FdTypes, KernelRecord, Edited, Jobs
<1>5. /\ fdKernel' \in KernelRecord /\ RevisionRests
      /\ fdKernel'.queue = Tail(fdKernel.queue) /\ fdKernel'.program = program
  <2> DEFINE errors == fdKernel.errors + (IF job.by = Invocation THEN 1 ELSE 0)
             tail == Tail(fdKernel.queue)
             running == fdKernel.running \ {job.task}
  <2>1. fdKernel \in KernelRecord
    BY DEF FdInvariant, FdTypes
  <2>2. fdKernel' = [fdKernel EXCEPT !.queue = tail, !.program = program, !.running = running, !.errors = errors]
    BY <1>3
  <2>3. tail \in Seq(Jobs) /\ errors \in Nat /\ running \in SUBSET Nat /\ running \subseteq fdKernel.running
    BY <1>2, <2>1 DEF KernelRecord
  <2> HIDE DEF errors, running, tail
  <2>4. fdKernel' \in KernelRecord /\ fdKernel'.queue = tail /\ fdKernel'.program = program
        /\ fdKernel'.rev = fdKernel.rev /\ fdKernel'.outputs = fdKernel.outputs /\ fdKernel'.running = running
    BY <1>4, <2>1, <2>2, <2>3 DEF KernelRecord
  <2> QED
    BY <2>3, <2>4 DEF tail, RevisionRests
<1>6. /\ fdFace' \in FaceRecord /\ FaceRests /\ fdFace'.blueprint = fdFace.blueprint
      /\ fdFace'.torn = (fdFace.torn \/ program # fdKernel.program)
  BY <1>3 DEF FdInvariant, FdTypes, FaceRecord, FaceRests
<1>7. Spend("troubles") /\ job = Head(fdKernel.queue)
  BY DEF FdThrows, job
<1> USE <1>2, <1>4
<1> WITNESS job \in Jobs, program \in SUBSET FdPatches
<1> QED
  BY <1>1, <1>3, <1>5, <1>6, <1>7

\* An operation of the controller that is over leaves the queue to the operations that follow.
LEMMA ControllerOver ==
  ASSUME FdTypes, ControllerBusy, fdDriver[Controller].at # "new", NEW then \in Seq(FdOps)
  PROVE  /\ OperationOver(fdController, then) \in ControllerRecord
         /\ OperationOver(fdController, then).patch = fdController.patch
<1>1. Tail(fdController.queue) \o then \in Seq(FdOps)
  BY NextOf, ConcatProperties DEF FdTypes, ControllerRecord, ControllerBusy
<1> QED
  BY <1>1 DEF OperationOver, FdTypes, ControllerRecord

\* A handler that throws keeps the invariant.
LEMMA ThrowKeeps ==
  ASSUME FdInvariant, FdThrows
  PROVE  FdInvariant'
<1>1. FdTypes /\ ControllerBusy /\ NotesAreKnown /\ ListenerHas /\ QueueHolds /\ ProgramHolds /\ AnswersHold
  BY DEF FdInvariant
<1>2. PICK job \in Jobs, program \in SUBSET FdPatches :
           /\ job = Head(fdKernel.queue) /\ fdKernel.queue # <<>> /\ Spend("troubles")
           /\ program \in {fdKernel.program, Edited(fdKernel.program, job.edit)}
           /\ fdKernel' \in KernelRecord /\ RevisionRests
           /\ fdKernel'.queue = Tail(fdKernel.queue) /\ fdKernel'.program = program
           /\ fdDriver' = LET advanced == Advanced(job, fdDriver)
                          IN  CASE job.by = Controller -> [advanced EXCEPT ![Controller] = Nobody]
                                [] job.by \in FdCalls -> [advanced EXCEPT ![job.by].at = "over"]
                                [] OTHER -> advanced
           /\ fdController' = IF job.by = Controller THEN OperationOver(fdController, <<>>) ELSE fdController
           /\ fdFace' \in FaceRecord /\ FaceRests /\ fdFace'.blueprint = fdFace.blueprint
           /\ fdFace'.torn = (fdFace.torn \/ program # fdKernel.program)
  BY ThrowIs
<1> DEFINE advanced == Advanced(job, fdDriver)
<1>3. /\ advanced \in [Drivers -> DriverRecord]
      /\ \A d \in Drivers : /\ advanced[d].op = fdDriver[d].op /\ advanced[d].candidate = fdDriver[d].candidate
                            /\ advanced[d].lone = fdDriver[d].lone
                            /\ d # job.by => advanced[d].at = fdDriver[d].at
  BY <1>1, AdvancedDriver
<1>4. JobHolds(job)
  BY <1>1, <1>2, NextOf DEF QueueHolds, FdTypes, KernelRecord
<1>5. job.by \in Drivers \cup {Invocation} /\ Drivers = FdCalls \cup {Controller}
  BY DEF Jobs, Drivers
<1> HIDE DEF advanced
<1>6. /\ job.by = Controller => fdDriver' = [advanced EXCEPT ![Controller] = Nobody]
      /\ job.by \in FdCalls => fdDriver' = [advanced EXCEPT ![job.by].at = "over"]
      /\ job.by = Invocation => fdDriver' = advanced
  BY <1>2, FdNames DEF advanced
<1>7. /\ fdDriver' \in [Drivers -> DriverRecord]
      /\ \A e \in Drivers \ {job.by} : StaysPut(e)
      /\ job.by = Controller => fdDriver'[Controller].at = "new"
      /\ job.by \in FdCalls => fdDriver'[job.by].at = "over"
  <2>1. CASE job.by = Controller
    <3>1. fdDriver' = [advanced EXCEPT ![Controller] = Nobody] /\ Controller \in Drivers /\ Controller \notin FdCalls
      BY <1>6, <2>1, ControllerApart, FdNames
    <3>2. fdDriver' \in [Drivers -> DriverRecord] /\ fdDriver'[Controller] = Nobody
          /\ \A e \in Drivers \ {Controller} : fdDriver'[e] = advanced[e]
      BY <1>3, <3>1, NobodyTyped
    <3>3. \A e \in Drivers \ {Controller} : StaysPut(e)
      BY <1>3, <2>1, <3>2 DEF StaysPut
    <3> QED
      BY <2>1, <3>1, <3>2, <3>3 DEF Nobody
  <2>2. CASE job.by \in FdCalls
    <3>1. job.by \in Drivers /\ "over" \in FdPlaces /\ job.by # Controller
      BY <1>5, <2>2, FdNames DEF FdPlaces
    <3>2. advanced[job.by] \in DriverRecord
      BY <1>3, <3>1
    <3>3. [advanced[job.by] EXCEPT !.at = "over"] \in DriverRecord /\ [advanced[job.by] EXCEPT !.at = "over"].at = "over"
      BY <3>1, <3>2 DEF DriverRecord
    <3>4. fdDriver' = [advanced EXCEPT ![job.by] = [advanced[job.by] EXCEPT !.at = "over"]]
      BY <1>6, <2>2
    <3> QED
      BY <1>3, <3>1, <3>3, <3>4 DEF StaysPut
  <2>3. CASE job.by = Invocation
    BY <1>3, <1>6, <2>3, FdNames, ControllerApart DEF StaysPut
  <2> QED
    BY <1>5, <2>1, <2>2, <2>3
<1>8. fdController' \in ControllerRecord /\ fdController'.patch = fdController.patch /\ (job.by # Controller => fdController' = fdController)
  <2>1. job.by = Controller => fdDriver[Controller].at # "new"
    BY <1>4, ControllerApart DEF JobHolds
  <2>2. <<>> \in Seq(FdOps)
    OBVIOUS
  <2> QED
    BY <1>1, <1>2, <2>1, <2>2, ControllerOver DEF FdTypes
<1>9. FdTypes'
  BY <1>1, <1>2, <1>7, <1>8, TroubleTyped DEF FdTypes
<1>10. ControllerBusy'
  <2>1. CASE job.by = Controller
    BY <1>7, <2>1 DEF ControllerBusy
  <2>2. CASE job.by # Controller
    BY <1>1, <1>7, <1>8, <2>2, ControllerApart DEF ControllerBusy, StaysPut
  <2> QED
    BY <2>1, <2>2
<1>11. NotesAreKnown' /\ ListenerHas'
  BY <1>1, <1>2, ListenerRests
<1>12. AnswersHold'
  <2>1. CASE job.by = Controller
    BY <1>1, <1>2, <1>7, <1>8, <2>1 DEF AnswersHold, RevisionRests
  <2>2. CASE job.by # Controller
    BY <1>1, <1>2, <1>7, <1>8, <2>2, AnswersRest, ControllerApart
  <2> QED
    BY <2>1, <2>2
<1>13. job.by \in FdCalls => job.by \notin Reconfiguring'
  BY <1>7 DEF Reconfiguring
<1>14. Reconfiguring' = Reconfiguring \ {job.by}
  <2>1. ASSUME NEW c \in FdCalls, c # job.by PROVE c \in Reconfiguring' <=> c \in Reconfiguring
    BY <1>5, <1>7, <2>1 DEF Reconfiguring, StaysPut
  <2> QED
    BY <1>13, <2>1 DEF Reconfiguring
<1>15. ~fdFace'.torn => ~fdFace.torn /\ fdKernel'.program = fdKernel.program
  BY <1>2
<1>16. ProgramHolds' /\ \A other : JobHolds(other) /\ other.by # job.by => JobHolds(other)'
  <2>1. CASE job.by \in Reconfiguring
    <3>1. CallHolds(job.by) /\ fdDriver[job.by].at = "mutating"
      BY <1>1, <1>4, <2>1 DEF ProgramHolds, JobHolds, Reconfiguring, Drivers
    <3>2. ASSUME NEW d \in Reconfiguring' PROVE CallHolds(d)' /\ ~fdDriver'[d].lone
      <4>1. d \in Reconfiguring /\ d # job.by /\ d \in Drivers
        BY <1>14, <3>2 DEF Reconfiguring, Drivers
      <4>2. ~fdDriver[d].lone /\ fdFace.torn
        BY <1>1, <2>1, <4>1 DEF ProgramHolds, CallHolds
      <4> QED
        BY <1>1, <1>2, <1>7, <4>1, <4>2 DEF ProgramHolds, CallHolds, StaysPut
    <3>3. ProgramIsLowered'
      BY <1>2, <1>14, <1>15, <2>1, <3>1 DEF ProgramIsLowered, CallHolds, Lowered
    <3>4. ASSUME NEW other, JobHolds(other), other.by # job.by PROVE JobHolds(other)'
      BY <1>7, <1>14, <3>2, <3>4, ControllerApart DEF JobHolds, StaysPut
    <3> QED
      BY <3>2, <3>3, <3>4 DEF ProgramHolds
  <2>2. CASE job.by \notin Reconfiguring
    <3>1. job.edit = NoEdit /\ program = fdKernel.program
      <4>1. job.edit = NoEdit
        BY <1>4, <2>2 DEF JobHolds
      <4>2. Edited(fdKernel.program, NoEdit) = fdKernel.program
        BY DEF NoEdit, Edited
      <4> QED
        BY <1>2, <4>1, <4>2
    <3>2. Apart(job.by)
      BY <1>7, <1>14, <2>2 DEF Apart
    <3> QED
      <4>1. fdFace.torn \in BOOLEAN
        BY <1>1 DEF FdTypes, FaceRecord
      <4>2. ProgramRests
        BY <1>2, <3>1, <4>1 DEF ProgramRests
      <4> QED
        BY <1>1, <3>2, <4>2, ApartKeeps
  <2> QED
    BY <2>1, <2>2
<1>17. \A other : JobHolds(other) /\ other.by = Invocation => JobHolds(other)'
  <2>1. Invocation \notin Reconfiguring /\ Invocation \notin Reconfiguring'
    BY FdNames DEF Reconfiguring
  <2> QED
    BY <2>1, FdNames, ControllerApart DEF JobHolds
<1>18. QueueHolds'
  BY <1>1, <1>2, <1>16, <1>17, QueueShrinks
<1> QED
  BY <1>9, <1>10, <1>11, <1>12, <1>16, <1>18 DEF FdInvariant

-----------------------------------------------------------------------------
(***************************************************************************)
(* The actions that move one driver which reconfigures nothing.            *)
(***************************************************************************)
\* A call of the face that reconfigures nothing keeps the invariant.
LEMMA CallMoves ==
  ASSUME FdInvariant, FdTypes', NEW d, d # Controller, Apart(d), ProgramRests, FaceRests, RevisionRests,
         QueueHolds', fdController' = fdController
  PROVE  FdInvariant'
<1>1. StaysPut(Controller)
  BY ControllerApart DEF Apart
<1>2. ControllerBusy'
  BY <1>1 DEF FdInvariant, ControllerBusy, StaysPut
<1> QED
  BY <1>1, <1>2, ApartKeeps, ListenerRests, AnswersRest DEF FdInvariant

\* A move of the controller that leaves the program, the face and the revision alone keeps the invariant.
LEMMA ControllerMoves ==
  ASSUME FdInvariant, FdTypes', Apart(Controller), ProgramRests, FaceRests, RevisionRests,
         QueueHolds', ControllerBusy', AnswersHold'
  PROVE  FdInvariant'
BY ApartKeeps, ListenerRests DEF FdInvariant

\* A driver that moves and neither was nor becomes a reconfiguration leaves the reconfigurations apart.
LEMMA OneIsApart ==
  ASSUME FdTypes, NEW d \in Drivers, NEW record \in DriverRecord,
         fdDriver' = [fdDriver EXCEPT ![d] = record],
         d = Controller \/ d \notin Reconfiguring,
         d = Controller \/ record.op # "reconfigure" \/ record.at = "over"
  PROVE  Apart(d)
<1>1. \A e \in Drivers \ {d} : StaysPut(e)
  BY OneStirs
<1>2. fdDriver'[d] = record
  BY OneStirs
<1>3. d \notin Reconfiguring
  BY ControllerApart
<1>4. d \notin Reconfiguring'
  BY <1>2, <1>3, FdNames DEF Reconfiguring, Drivers
<1> QED
  BY <1>1, <1>3, <1>4 DEF Apart

\* Who waits until the kernel is idle is the controller or no reconfiguration.
LEMMA WhoWaits ==
  ASSUME ProgramHolds, NEW d \in Drivers, fdDriver[d].at \in {"idling", "draining"}
  PROVE  (d = Controller \/ d \notin Reconfiguring) /\ (d = Controller \/ fdDriver[d].op # "reconfigure")
BY DEF ProgramHolds, CallHolds, Reconfiguring, Drivers

\* The answer of an invocation keeps the invariant.
LEMMA AnswerKeeps ==
  ASSUME FdInvariant, FdAnswers
  PROVE  FdInvariant'
<1>1. FdTypes /\ QueueHolds /\ ProgramHolds
  BY DEF FdInvariant
<1>2. PICK task \in fdKernel.running, op \in {"answer", "failure"} :
        Queued(Settling(task, op)) /\ (UNCHANGED fdLeft \/ Spend("troubles"))
  BY DEF FdAnswers
<1>3. UNCHANGED <<fdController, fdFace, fdDriver>>
  BY DEF FdAnswers
<1> DEFINE job == Settling(task, op)
<1>4. job \in Jobs /\ job.by = Invocation /\ job.edit = NoEdit
  <2>1. task \in Nat /\ op \in FdOps
    BY <1>1 DEF FdTypes, KernelRecord, FdOps
  <2>2. Job(Invocation, op, NoEdit) \in Jobs /\ Job(Invocation, op, NoEdit).by = Invocation
        /\ Job(Invocation, op, NoEdit).edit = NoEdit
    BY <2>1, JobTyped
  <2> QED
    BY <2>1, <2>2 DEF Settling, Jobs
<1> HIDE DEF job
<1>5. /\ fdKernel' \in KernelRecord /\ fdKernel'.queue = Append(fdKernel.queue, job)
      /\ fdKernel'.program = fdKernel.program /\ RevisionRests
  BY <1>1, <1>2, <1>4, QueuedIs DEF job
<1>6. FdTypes'
  BY <1>1, <1>2, <1>3, <1>5, TroubleTyped DEF FdTypes
<1>7. Apart(Invocation)
  BY <1>3, FdNames, ControllerApart DEF Apart, StaysPut, Reconfiguring
<1>8. ProgramRests /\ FaceRests
  BY <1>3, <1>5 DEF ProgramRests, FaceRests
<1>9. QueueHolds'
  <2>1. \E j \in Jobs : j = job
    BY <1>4
  <2>2. PICK j \in Jobs : j = job
    BY <2>1
  <2> QED
    BY <1>1, <1>4, <1>5, <1>7, <1>8, <2>2, FdNames, ControllerApart, ApartQueues
<1> QED
  BY <1>3, <1>5, <1>6, <1>7, <1>8, <1>9, FdNames, CallMoves

\* Finding the kernel idle keeps the invariant.
LEMMA IdleKeeps ==
  ASSUME FdInvariant, NEW d \in Drivers, FdIdle(d)
  PROVE  FdInvariant'
<1>1. FdTypes /\ ControllerBusy /\ QueueHolds /\ ProgramHolds
  BY DEF FdInvariant
<1>2. /\ fdDriver[d].at = "idling" /\ fdKernel.running = {}
      /\ fdDriver' = [fdDriver EXCEPT ![d].at = "draining", ![d].behind = Len(fdKernel.queue)]
      /\ UNCHANGED <<fdKernel, fdController, fdFace, fdLeft>>
  BY DEF FdIdle
<1> DEFINE record == [[fdDriver[d] EXCEPT !.at = "draining"] EXCEPT !.behind = Len(fdKernel.queue)]
<1>3. /\ record \in DriverRecord /\ record.op = fdDriver[d].op /\ record.at = "draining"
      /\ fdDriver' = [fdDriver EXCEPT ![d] = record]
  <2>1. "draining" \in FdPlaces /\ Len(fdKernel.queue) \in Nat
    BY <1>1, LenProperties DEF FdTypes, KernelRecord, FdPlaces
  <2>2. [fdDriver[d] EXCEPT !.at = "draining"] \in DriverRecord /\ [fdDriver[d] EXCEPT !.at = "draining"].op = fdDriver[d].op
        /\ [fdDriver[d] EXCEPT !.at = "draining"].at = "draining"
    BY <1>1, <2>1, TurnTyped
  <2>3. fdDriver' = [fdDriver EXCEPT ![d] = record]
    BY <1>1, <1>2 DEF FdTypes
  <2> QED
    BY <2>1, <2>2, <2>3 DEF DriverRecord
<1> HIDE DEF record
<1>4. Apart(d)
  BY <1>1, <1>2, <1>3, WhoWaits, OneIsApart
<1>5. /\ fdDriver' \in [Drivers -> DriverRecord] /\ fdDriver'[d] = record
      /\ \A e \in Drivers \ {d} : fdDriver'[e] = fdDriver[e]
  BY <1>1, <1>3, OneStirs
<1>6. FdTypes' /\ ProgramRests /\ FaceRests /\ RevisionRests
  BY <1>1, <1>2, <1>5 DEF FdTypes, ProgramRests, FaceRests, RevisionRests
<1>7. QueueHolds'
  BY <1>1, <1>2, <1>4, <1>6, ApartQueue
<1>8. CASE d = Controller
  <2>1. ControllerBusy' /\ AnswersHold'
    BY <1>1, <1>2, <1>8 DEF ControllerBusy, AnswersHold, FdInvariant
  <2> QED
    BY <1>4, <1>6, <1>7, <1>8, <2>1, ControllerMoves
<1> QED
  BY <1>2, <1>4, <1>6, <1>7, <1>8, CallMoves

\* Finding that nothing runs any more keeps the invariant: the controller's patch is answered by then.
LEMMA DrainedKeeps ==
  ASSUME FdInvariant, NEW d \in Drivers, FdDrained(d)
  PROVE  FdInvariant'
<1>1. FdTypes /\ ControllerBusy /\ QueueHolds /\ ProgramHolds
  BY DEF FdInvariant
<1>2. /\ fdDriver[d].at = "draining" /\ fdKernel' = [fdKernel EXCEPT !.errors = 0] /\ UNCHANGED <<fdFace, fdLeft>>
      /\ \/ fdDriver' = [fdDriver EXCEPT ![d].at = "mutated"] /\ fdController' = fdController
         \/ d = Controller /\ fdDriver' = [fdDriver EXCEPT ![d] = Nobody] /\ fdController' = OperationOver(fdController, <<>>)
         \/ d # Controller /\ fdDriver' = [fdDriver EXCEPT ![d].at = "over"] /\ fdController' = fdController
  BY DEF FdDrained
<1>3. fdKernel' \in KernelRecord /\ fdKernel'.queue = fdKernel.queue /\ ProgramRests /\ FaceRests /\ RevisionRests
  BY <1>1, <1>2 DEF FdTypes, KernelRecord, ProgramRests, FaceRests, RevisionRests
<1>4. ASSUME NEW record \in DriverRecord, fdDriver' = [fdDriver EXCEPT ![d] = record],
             record.op = fdDriver[d].op \/ d = Controller
      PROVE  /\ Apart(d) /\ QueueHolds' /\ fdDriver' \in [Drivers -> DriverRecord] /\ fdDriver'[d] = record
             /\ \A e \in Drivers \ {d} : fdDriver'[e] = fdDriver[e]
  <2>1. Apart(d)
    BY <1>1, <1>2, <1>4, WhoWaits, OneIsApart
  <2>2. QueueHolds'
    BY <1>1, <1>2, <1>3, <2>1, ApartQueue
  <2> QED
    BY <1>1, <1>4, <2>1, <2>2, OneStirs
<1>5. ASSUME NEW at \in {"mutated", "over"}, fdDriver' = [fdDriver EXCEPT ![d].at = at], fdController' = fdController,
             d = Controller => at = "mutated"
      PROVE  FdInvariant'
  <2> DEFINE record == [fdDriver[d] EXCEPT !.at = at]
  <2>1. record \in DriverRecord /\ record.op = fdDriver[d].op /\ record.at = at
    BY <1>1, <1>5, TurnTyped, ZenonT(30) DEF FdPlaces
  <2>2. fdDriver' = [fdDriver EXCEPT ![d] = record]
    BY <1>5
  <2> HIDE DEF record
  <2>3. /\ Apart(d) /\ QueueHolds' /\ fdDriver' \in [Drivers -> DriverRecord] /\ fdDriver'[d] = record
        /\ \A e \in Drivers \ {d} : fdDriver'[e] = fdDriver[e]
    BY <1>4, <2>1, <2>2
  <2>4. FdTypes'
    BY <1>1, <1>2, <1>3, <1>5, <2>3 DEF FdTypes
  <2>5. CASE d = Controller
    <3>1. ControllerBusy'
      BY <1>1, <1>2, <1>5, <2>5 DEF ControllerBusy
    <3>2. AnswersHold'
      BY <1>2, <1>3, <1>5, <2>1, <2>3, <2>5 DEF AnswersHold, FdInvariant, RevisionRests
    <3> QED
      BY <1>3, <2>3, <2>4, <2>5, <3>1, <3>2, ControllerMoves
  <2> QED
    BY <1>3, <1>5, <2>3, <2>4, <2>5, CallMoves
<1>6. ASSUME d = Controller, fdDriver' = [fdDriver EXCEPT ![d] = Nobody], fdController' = OperationOver(fdController, <<>>)
      PROVE  FdInvariant'
  <2>1. /\ Apart(d) /\ QueueHolds' /\ fdDriver' \in [Drivers -> DriverRecord] /\ fdDriver'[d] = Nobody
    BY <1>4, <1>6, NobodyTyped
  <2>2. fdController' \in ControllerRecord /\ fdController'.patch = fdController.patch
    <3>1. <<>> \in Seq(FdOps)
      OBVIOUS
    <3> QED
      BY <1>1, <1>2, <1>6, <3>1, ControllerOver
  <2>3. FdTypes'
    BY <1>1, <1>2, <1>3, <2>1, <2>2 DEF FdTypes
  <2>4. ControllerBusy'
    BY <1>6, <2>1 DEF ControllerBusy, Nobody
  <2>5. AnswersHold'
    BY <1>3, <1>6, <2>1, <2>2 DEF AnswersHold, FdInvariant, Nobody, RevisionRests
  <2> QED
    BY <1>3, <1>6, <2>1, <2>3, <2>4, <2>5, ControllerMoves
<1> QED
  BY <1>2, <1>5, <1>6

\* The controller's own queue keeps the invariant, whichever operation it begins or ends.
LEMMA ControllerKeeps ==
  ASSUME FdInvariant, (\E op \in Operations : FdEnqueue(op)) \/ FdBegins \/ FdResolves \/ FdShows
  PROVE  FdInvariant'
<1>1. FdTypes /\ ControllerBusy /\ QueueHolds /\ ProgramHolds /\ AnswersHold
  BY DEF FdInvariant
<1>2. fdController \in ControllerRecord /\ fdKernel \in KernelRecord /\ fdDriver \in [Drivers -> DriverRecord]
  BY <1>1 DEF FdTypes
<1>3. ASSUME NEW op \in Operations, FdEnqueue(op) PROVE FdInvariant'
  <2>1. UNCHANGED <<fdKernel, fdFace, fdDriver>> /\ Spend("operations")
        /\ fdController' = [fdController EXCEPT !.queue = Append(@, op)]
    BY <1>3 DEF FdEnqueue
  <2>2. Append(fdController.queue, op) \in Seq(FdOps) /\ Append(fdController.queue, op) # <<>>
    BY <1>2, AppendProperties DEF ControllerRecord, Operations, FdOps, FaceOps
  <2>3. fdController' \in ControllerRecord /\ fdController'.patch = fdController.patch /\ fdController'.queue # <<>>
    BY <1>2, <2>1, <2>2 DEF ControllerRecord
  <2>4. Apart(Controller) /\ FdTypes' /\ ProgramRests /\ FaceRests /\ RevisionRests /\ StaysPut(Controller)
    BY <1>1, <2>1, <2>3, NobodyStirs, TroubleTyped DEF FdTypes, ProgramRests, FaceRests, RevisionRests
  <2>5. QueueHolds'
    BY <1>1, <2>1, <2>4, ApartQueue
  <2>6. ControllerBusy' /\ AnswersHold'
    BY <1>1, <2>3, <2>4, AnswersRest DEF ControllerBusy
  <2> QED
    BY <2>4, <2>5, <2>6, ControllerMoves
<1>4. ASSUME FdBegins PROVE FdInvariant'
  <2> DEFINE op == Head(fdController.queue)
             at == IF op = "settle" THEN "idling" ELSE "mutating"
             record == [[fdDriver[Controller] EXCEPT !.op = op] EXCEPT !.at = at]
             job == Job(Controller, IF op = "emit" THEN "emit" ELSE "sync", NoEdit)
  <2>1. /\ fdController.queue # <<>> /\ fdDriver[Controller].at = "new" /\ UNCHANGED <<fdController, fdFace, fdLeft>>
        /\ fdDriver' = [fdDriver EXCEPT ![Controller] = record]
        /\ \/ op = "settle" /\ UNCHANGED fdKernel
           \/ op # "settle" /\ Queued(job)
    BY <1>4 DEF FdBegins, MayBegin, Begun
  <2>2. op \in FdOps /\ at \in FdPlaces
    BY <1>2, <2>1, NextOf DEF ControllerRecord, FdPlaces
  <2>3. record \in DriverRecord /\ record.op = op /\ record.at = at
    <3> HIDE DEF op, at
    <3> QED
      BY <1>2, <2>2, ControllerApart DEF DriverRecord
  <2>4. job \in Jobs /\ job.by = Controller /\ job.edit = NoEdit /\ (job.op = "emit" <=> op = "emit")
    <3>1. (IF op = "emit" THEN "emit" ELSE "sync") \in FdOps
      BY DEF FdOps, FaceOps
    <3> QED
      BY <3>1, JobTyped, ControllerApart
  <2> HIDE DEF record, job, op
  <2>5. Apart(Controller) /\ fdDriver'[Controller] = record /\ fdDriver' \in [Drivers -> DriverRecord]
    BY <1>1, <2>1, <2>3, ControllerApart, OneIsApart, OneStirs
  <2>6. /\ fdKernel' \in KernelRecord /\ fdKernel'.program = fdKernel.program /\ RevisionRests
        /\ fdKernel'.queue = fdKernel.queue \/ (op # "settle" /\ fdKernel'.queue = Append(fdKernel.queue, job))
    BY <1>1, <1>2, <2>1, <2>4, QueuedIs DEF RevisionRests
  <2>7. FdTypes' /\ ProgramRests /\ FaceRests
    BY <1>1, <2>1, <2>5, <2>6 DEF FdTypes, ProgramRests, FaceRests
  <2>8. QueueHolds'
    <3>1. CASE fdKernel'.queue = fdKernel.queue
      BY <1>1, <2>1, <2>5, <2>7, <3>1, ApartQueue
    <3>2. CASE op # "settle" /\ fdKernel'.queue = Append(fdKernel.queue, job)
      <4>1. fdDriver'[Controller].at = "mutating" /\ fdDriver'[Controller].op = op
        BY <2>3, <2>5, <3>2
      <4>2. PICK j \in Jobs : j = job
        BY <2>4
      <4> QED
        BY <1>1, <2>1, <2>4, <2>5, <2>7, <3>2, <4>1, <4>2, ControllerApart, ApartQueues
    <3> QED
      BY <2>6, <3>1, <3>2
  <2>9. ControllerBusy' /\ AnswersHold'
    BY <1>1, <2>1, <2>3, <2>5, <2>6 DEF ControllerBusy, AnswersHold, RevisionRests
  <2> QED
    BY <2>5, <2>6, <2>7, <2>8, <2>9, ControllerMoves
<1>5. ASSUME FdResolves PROVE FdInvariant'
  <2> DEFINE record == [[fdDriver[Controller] EXCEPT !.at = "resolving"] EXCEPT !.since = fdKernel.rev]
  <2>1. /\ fdDriver[Controller].at = "mutated" /\ UNCHANGED <<fdKernel, fdController, fdFace, fdLeft>>
        /\ fdDriver' = [fdDriver EXCEPT ![Controller] = record]
    BY <1>2, <1>5, ControllerApart DEF FdResolves
  <2>2. record \in DriverRecord /\ record.op = fdDriver[Controller].op /\ record.at = "resolving"
    <3>1. "resolving" \in FdPlaces /\ fdKernel.rev \in Nat
      BY <1>2 DEF FdPlaces, KernelRecord
    <3> QED
      BY <1>2, <3>1, ControllerApart DEF DriverRecord
  <2> HIDE DEF record
  <2>3. Apart(Controller) /\ fdDriver'[Controller] = record /\ fdDriver' \in [Drivers -> DriverRecord]
    BY <1>1, <2>1, <2>2, ControllerApart, OneIsApart, OneStirs
  <2>4. FdTypes' /\ ProgramRests /\ FaceRests /\ RevisionRests
    BY <1>1, <2>1, <2>3 DEF FdTypes, ProgramRests, FaceRests, RevisionRests
  <2>5. QueueHolds'
    BY <1>1, <2>1, <2>3, <2>4, ApartQueue
  <2>6. ControllerBusy' /\ AnswersHold'
    BY <1>1, <2>1, <2>2, <2>3 DEF ControllerBusy, AnswersHold
  <2> QED
    BY <2>3, <2>4, <2>5, <2>6, ControllerMoves
<1>6. ASSUME FdShows PROVE FdInvariant'
  <2> DEFINE then == IF fdDriver[Controller].op = "start" THEN <<"settle">> ELSE <<>>
  <2>1. /\ fdDriver[Controller].at = "resolving" /\ UNCHANGED <<fdKernel, fdFace, fdLeft>>
        /\ fdDriver' = [fdDriver EXCEPT ![Controller] = Nobody]
        /\ fdController' = [OperationOver(fdController, then) EXCEPT !.tree = fdDriver[Controller].since]
    BY <1>6 DEF FdShows
  <2>2. fdController' \in ControllerRecord /\ fdController'.patch = fdController.patch
    <3>1. then \in Seq(FdOps)
      <4>1. "settle" \in FdOps
        BY DEF FdOps
      <4>2. <<"settle">> \in Seq(FdOps) /\ <<>> \in Seq(FdOps)
        BY <4>1
      <4> QED
        BY <4>2
    <3> HIDE DEF then
    <3>2. OperationOver(fdController, then) \in ControllerRecord /\ OperationOver(fdController, then).patch = fdController.patch
      BY <1>1, <2>1, <3>1, ControllerOver
    <3>3. fdDriver[Controller].since \in Int
      BY <1>2, ControllerApart DEF DriverRecord
    <3> QED
      BY <2>1, <3>2, <3>3 DEF ControllerRecord
  <2>3. Apart(Controller) /\ fdDriver'[Controller] = Nobody /\ fdDriver' \in [Drivers -> DriverRecord]
    BY <1>1, <2>1, NobodyTyped, ControllerApart, OneIsApart, OneStirs
  <2>4. FdTypes' /\ ProgramRests /\ FaceRests /\ RevisionRests
    BY <1>1, <2>1, <2>2, <2>3 DEF FdTypes, ProgramRests, FaceRests, RevisionRests
  <2>5. QueueHolds'
    BY <1>1, <2>1, <2>3, <2>4, ApartQueue
  <2>6. ControllerBusy' /\ AnswersHold'
    BY <1>1, <2>1, <2>2, <2>3 DEF ControllerBusy, AnswersHold, Nobody
  <2> QED
    BY <2>3, <2>4, <2>5, <2>6, ControllerMoves
<1> QED
  BY <1>3, <1>4, <1>5, <1>6

-----------------------------------------------------------------------------
(***************************************************************************)
(* The actions of the face.                                                *)
(***************************************************************************)
\* What beginning a call changes: its driver, and whether the reconfigurations under way still are alone.
LEMMA CallingIs ==
  ASSUME FdInvariant, NEW c \in FdCalls, NEW op \in FaceOps, NEW at \in FdPlaces, NEW candidate \in SUBSET FdPatches,
         Calling(c, op, at, candidate)
  PROVE  /\ fdDriver[c].at = "new" /\ c \notin Reconfiguring
         /\ fdDriver' \in [Drivers -> DriverRecord]
         /\ fdDriver'[c].op = op /\ fdDriver'[c].at = at /\ fdDriver'[c].candidate = candidate
         /\ fdDriver'[c].lone = (op = "reconfigure" => Reconfiguring = {})
         /\ \A e \in Drivers \ {c} :
              /\ fdDriver'[e].op = fdDriver[e].op /\ fdDriver'[e].at = fdDriver[e].at
              /\ fdDriver'[e].candidate = fdDriver[e].candidate
              /\ fdDriver'[e].lone = (fdDriver[e].lone /\ op # "reconfigure")
<1>1. fdDriver \in [Drivers -> DriverRecord] /\ c \in Drivers /\ op \in FdOps
  BY DEF FdInvariant, FdTypes, Drivers, FdOps
<1> DEFINE alone == op = "reconfigure" => Reconfiguring = {}
           new == [fdDriver[c] EXCEPT !.op = op, !.at = at, !.candidate = candidate, !.lone = alone]
           other(e) == [fdDriver[e] EXCEPT !.lone = @ /\ op # "reconfigure"]
<1>2. fdDriver' = [d \in Drivers |-> IF d = c THEN new ELSE other(d)] /\ fdDriver[c].at = "new"
  BY <1>1 DEF Calling
<1>3. alone \in BOOLEAN
  OBVIOUS
<1>4. /\ new \in DriverRecord /\ new.op = op /\ new.at = at /\ new.candidate = candidate /\ new.lone = alone
  <2> HIDE DEF alone
  <2> QED
    BY <1>1, <1>3 DEF DriverRecord
<1>5. ASSUME NEW e \in Drivers
      PROVE  /\ other(e) \in DriverRecord /\ other(e).op = fdDriver[e].op /\ other(e).at = fdDriver[e].at
             /\ other(e).candidate = fdDriver[e].candidate
             /\ other(e).lone = (fdDriver[e].lone /\ op # "reconfigure")
  BY <1>1 DEF DriverRecord
<1>6. c \notin Reconfiguring
  BY <1>2 DEF Reconfiguring
<1> HIDE DEF new, other
<1>7. fdDriver' \in [Drivers -> DriverRecord] /\ fdDriver'[c] = new /\ \A e \in Drivers \ {c} : fdDriver'[e] = other(e)
  BY <1>1, <1>2, <1>4, <1>5
<1> QED
  BY <1>2, <1>4, <1>5, <1>6, <1>7

\* Beginning a call that reconfigures nothing leaves the reconfigurations as they are.
LEMMA CallingApart ==
  ASSUME FdInvariant, NEW c \in FdCalls, NEW op \in FaceOps, NEW at \in FdPlaces, NEW candidate \in SUBSET FdPatches,
         Calling(c, op, at, candidate), op # "reconfigure"
  PROVE  Apart(c) /\ fdDriver' \in [Drivers -> DriverRecord] /\ fdDriver'[c].at = at /\ fdDriver[c].at = "new"
         /\ c # Controller /\ c \in Drivers
<1>1. /\ fdDriver[c].at = "new" /\ c \notin Reconfiguring
      /\ fdDriver' \in [Drivers -> DriverRecord]
      /\ fdDriver'[c].op = op /\ fdDriver'[c].at = at
      /\ \A e \in Drivers \ {c} : /\ fdDriver'[e].op = fdDriver[e].op /\ fdDriver'[e].at = fdDriver[e].at
                                  /\ fdDriver'[e].candidate = fdDriver[e].candidate
                                  /\ fdDriver'[e].lone = (fdDriver[e].lone /\ op # "reconfigure")
  BY CallingIs
<1>2. \A e \in Drivers : fdDriver[e].lone \in BOOLEAN
  BY DEF FdInvariant, FdTypes, DriverRecord
<1>3. \A e \in Drivers \ {c} : StaysPut(e)
  BY <1>1, <1>2 DEF StaysPut
<1> QED
  BY <1>1, <1>3, FdNames DEF Apart, Reconfiguring, Drivers

\* A call of the face that reconfigures nothing keeps the invariant.
LEMMA FaceCallKeeps ==
  ASSUME FdInvariant, NEW c \in FdCalls,
         (\E op \in {"emit", "restore", "sync", "compensate"} : FdDrive(c, op)) \/ FdWhenIdle(c) \/ FdRefused(c)
  PROVE  FdInvariant'
<1>1. FdTypes /\ QueueHolds /\ ProgramHolds /\ c \in Drivers /\ c # Controller /\ c # Invocation
  BY FdNames DEF FdInvariant, Drivers
<1>2. ASSUME NEW op \in {"emit", "restore", "sync", "compensate"}, FdDrive(c, op) PROVE FdInvariant'
  <2> DEFINE job == Job(c, op, NoEdit)
  <2>1. Calling(c, op, "mutating", {}) /\ Queued(job) /\ UNCHANGED <<fdController, fdFace, fdLeft>>
    BY <1>2 DEF FdDrive
  <2>2. op \in FaceOps /\ op \in FdOps /\ "mutating" \in FdPlaces /\ {} \in SUBSET FdPatches /\ op # "reconfigure"
    BY DEF FaceOps, FdOps, FdPlaces
  <2>3. Apart(c) /\ fdDriver' \in [Drivers -> DriverRecord] /\ fdDriver'[c].at = "mutating" /\ fdDriver[c].at = "new"
    BY <2>1, <2>2, CallingApart
  <2>4. job \in Jobs /\ job.by = c /\ job.edit = NoEdit
    BY <1>1, <2>2, JobTyped
  <2> HIDE DEF job
  <2>5. fdKernel' \in KernelRecord /\ fdKernel'.program = fdKernel.program /\ RevisionRests
        /\ fdKernel'.queue = Append(fdKernel.queue, job)
    BY <1>1, <2>1, <2>4, QueuedIs
  <2>6. FdTypes' /\ ProgramRests /\ FaceRests
    BY <1>1, <2>1, <2>3, <2>5 DEF FdTypes, ProgramRests, FaceRests
  <2>7. PICK j \in Jobs : j = job
    BY <2>4
  <2>8. QueueHolds'
    BY <1>1, <2>3, <2>4, <2>5, <2>6, <2>7, ApartQueues
  <2> QED
    BY <1>1, <2>1, <2>3, <2>5, <2>6, <2>8, CallMoves
<1>3. ASSUME Apart(c), fdDriver' \in [Drivers -> DriverRecord], fdDriver[c].at # "mutating",
             UNCHANGED <<fdKernel, fdController, fdFace, fdLeft>>
      PROVE  FdInvariant'
  <2>1. FdTypes' /\ ProgramRests /\ FaceRests /\ RevisionRests
    BY <1>1, <1>3 DEF FdTypes, ProgramRests, FaceRests, RevisionRests
  <2>2. QueueHolds'
    BY <1>1, <1>3, <2>1, ApartQueue
  <2> QED
    BY <1>1, <1>3, <2>1, <2>2, CallMoves
<1>4. ASSUME FdWhenIdle(c) PROVE FdInvariant'
  <2>1. Calling(c, "whenIdle", "idling", {}) /\ UNCHANGED <<fdKernel, fdController, fdFace, fdLeft>>
    BY <1>4 DEF FdWhenIdle
  <2>2. "whenIdle" \in FaceOps /\ "idling" \in FdPlaces /\ {} \in SUBSET FdPatches
    BY DEF FaceOps, FdPlaces
  <2> QED
    BY <1>3, <2>1, <2>2, CallingApart
<1>5. ASSUME FdRefused(c) PROVE FdInvariant'
  <2>1. UNCHANGED <<fdKernel, fdController, fdFace, fdLeft>>
    BY <1>5 DEF FdRefused
  <2>2. CASE Calling(c, "emit", "over", {})
    <3>1. "emit" \in FaceOps /\ "over" \in FdPlaces /\ {} \in SUBSET FdPatches
      BY DEF FaceOps, FdPlaces
    <3> QED
      BY <1>3, <2>1, <2>2, <3>1, CallingApart
  <2>3. CASE fdDriver[c].at = "idling" /\ fdDriver' = [fdDriver EXCEPT ![c].at = "over"]
    <3> DEFINE record == [fdDriver[c] EXCEPT !.at = "over"]
    <3>1. record \in DriverRecord /\ record.op = fdDriver[c].op /\ fdDriver' = [fdDriver EXCEPT ![c] = record]
      BY <1>1, <2>3, TurnTyped DEF FdPlaces
    <3> HIDE DEF record
    <3>2. Apart(c) /\ fdDriver' \in [Drivers -> DriverRecord]
      BY <1>1, <2>3, <3>1, WhoWaits, OneIsApart, OneStirs
    <3> QED
      BY <1>3, <2>1, <2>3, <3>2
  <2> QED
    BY <1>5, <2>2, <2>3 DEF FdRefused
<1> QED
  BY <1>2, <1>4, <1>5

\* Subscribing, telling the listener and unsubscribing keep the invariant.
LEMMA ListenKeeps ==
  ASSUME FdInvariant, FdSubscribe \/ FdTells \/ FdStop
  PROVE  FdInvariant'
<1>1. FdTypes /\ QueueHolds /\ ProgramHolds /\ AnswersHold /\ NotesAreKnown /\ ListenerHas /\ ControllerBusy
  BY DEF FdInvariant
<1>2. UNCHANGED <<fdKernel, fdController, fdDriver, fdLeft>>
  BY DEF FdSubscribe, FdTells, FdStop
<1>3. fdFace' \in FaceRecord /\ fdFace'.torn = fdFace.torn /\ fdFace'.blueprint = fdFace.blueprint
  <2>1. fdFace \in FaceRecord /\ fdKernel \in KernelRecord
    BY <1>1 DEF FdTypes
  <2>2. CASE FdSubscribe
    <3> DEFINE missed == fdFace.signature # fdKernel.outputs
    <3>1. fdFace' = [fdFace EXCEPT !.heeded = "yes", !.heard = fdKernel.outputs, !.told = fdKernel.rev, !.missed = missed]
      BY <2>2 DEF FdSubscribe
    <3>2. missed \in BOOLEAN /\ fdKernel.outputs \in {0, 1} /\ fdKernel.rev \in Int
      BY <2>1 DEF KernelRecord
    <3> HIDE DEF missed
    <3> QED
      BY <2>1, <3>1, <3>2 DEF FaceRecord
  <2>3. CASE FdTells
    <3>1. PICK from \in fdFace.reads : fdFace' = [fdFace EXCEPT !.reads = @ \ {from},
                                   !.told = IF fdFace.heeded = "yes" /\ from > @ THEN from ELSE @]
      BY <2>3 DEF FdTells
    <3> DEFINE reads == fdFace.reads \ {from}
               told == IF fdFace.heeded = "yes" /\ from > fdFace.told THEN from ELSE fdFace.told
    <3>4. fdFace.reads \in SUBSET Nat /\ from \in Nat /\ fdFace.told \in Int
      BY <2>1 DEF FaceRecord
    <3>2. reads \in SUBSET Nat /\ told \in Int
      BY <3>4
    <3>3. fdFace' = [fdFace EXCEPT !.reads = reads, !.told = told]
      BY <3>1
    <3> HIDE DEF reads, told
    <3> QED
      BY <2>1, <3>2, <3>3 DEF FaceRecord
  <2>4. CASE FdStop
    BY <2>1, <2>4 DEF FdStop, FaceRecord
  <2> QED
    BY <2>2, <2>3, <2>4
<1>4. NotesAreKnown' /\ ListenerHas'
  <2>1. fdFace \in FaceRecord /\ fdKernel.rev \in Nat
    BY <1>1 DEF FdTypes, KernelRecord
  <2>2. CASE FdSubscribe
    BY <1>1, <1>2, <2>1, <2>2 DEF FdSubscribe, FaceRecord, NotesAreKnown, ListenerHas
  <2>3. CASE FdTells
    <3>1. PICK from \in fdFace.reads : fdFace' = [fdFace EXCEPT !.reads = @ \ {from},
                                   !.told = IF fdFace.heeded = "yes" /\ from > @ THEN from ELSE @]
      BY <2>3 DEF FdTells
    <3>2. /\ fdFace'.reads = fdFace.reads \ {from} /\ fdFace'.heeded = fdFace.heeded /\ fdFace'.missed = fdFace.missed
          /\ fdFace'.heard = fdFace.heard /\ fdFace'.signature = fdFace.signature
          /\ fdFace'.told = IF fdFace.heeded = "yes" /\ from > fdFace.told THEN from ELSE fdFace.told
      BY <2>1, <3>1 DEF FaceRecord
    <3>3. from \in 0..fdKernel.rev /\ fdFace.told \in Int /\ fdFace.reads \in SUBSET Nat
      BY <1>1, <2>1 DEF NotesAreKnown, FaceRecord
    <3> QED
      BY <1>1, <1>2, <2>1, <3>2, <3>3 DEF NotesAreKnown, ListenerHas
  <2>4. CASE FdStop
    BY <1>1, <1>2, <2>1, <2>4 DEF FdStop, FaceRecord, NotesAreKnown, ListenerHas
  <2> QED
    BY <2>2, <2>3, <2>4
<1>5. FdTypes' /\ Apart(Controller) /\ ProgramRests /\ StaysPut(Controller)
  BY <1>1, <1>2, <1>3, NobodyStirs DEF FdTypes, ProgramRests
<1>6. QueueHolds' /\ ProgramHolds'
  BY <1>1, <1>2, <1>5, ApartQueue, ApartKeeps
<1>7. ControllerBusy' /\ AnswersHold'
  BY <1>1, <1>2 DEF ControllerBusy, AnswersHold
<1> QED
  BY <1>4, <1>5, <1>6, <1>7 DEF FdInvariant

\* Beginning a reconfiguration keeps the invariant: it is alone, or everything torn is called torn.
LEMMA ReconfigureKeeps ==
  ASSUME FdInvariant, NEW c \in FdCalls, NEW change \in FdPatches, FdReconfigure(c, change)
  PROVE  FdInvariant'
<1>1. /\ FdTypes /\ QueueHolds /\ ProgramHolds /\ AnswersHold /\ NotesAreKnown /\ ListenerHas /\ ControllerBusy
      /\ c \in Drivers /\ c # Controller /\ c # Invocation
  BY FdNames DEF FdInvariant, Drivers
<1> DEFINE candidate == fdFace.blueprint \cup {change}
           edit == Difference(fdKernel.program, Lowered(candidate))
           at == IF edit = NoEdit THEN "mutated" ELSE "mutating"
           job == Job(c, "reconfigure", edit)
<1>2. /\ Calling(c, "reconfigure", at, candidate)
      /\ \/ edit = NoEdit /\ UNCHANGED fdKernel
         \/ edit # NoEdit /\ Queued(job)
      /\ fdFace' = [fdFace EXCEPT !.torn = @ \/ Reconfiguring # {}]
      /\ UNCHANGED <<fdController, fdLeft>>
  BY DEF FdReconfigure
<1>3. fdFace \in FaceRecord /\ fdKernel \in KernelRecord
  BY <1>1 DEF FdTypes
<1>4. candidate \in SUBSET FdPatches /\ edit \in [adds : SUBSET FdPatches, drops : SUBSET FdPatches] /\ at \in FdPlaces
  BY <1>3 DEF FaceRecord, KernelRecord, Difference, Lowered, FdPlaces
<1>5. job \in Jobs /\ job.by = c /\ job.edit = edit
  BY <1>1, <1>4 DEF Job, Jobs, FdOps, FaceOps
<1>6. edit.adds = Lowered(candidate) \ fdKernel.program /\ edit.drops = fdKernel.program \ Lowered(candidate)
  BY DEF Difference
<1>7. edit = NoEdit => fdKernel.program = Lowered(candidate)
  BY <1>6, SMTT(30) DEF NoEdit
<1> HIDE DEF job, candidate
<1>8. /\ fdDriver[c].at = "new" /\ c \notin Reconfiguring
      /\ fdDriver' \in [Drivers -> DriverRecord]
      /\ fdDriver'[c].op = "reconfigure" /\ fdDriver'[c].at = at /\ fdDriver'[c].candidate = candidate
      /\ fdDriver'[c].lone = (Reconfiguring = {})
      /\ \A e \in Drivers \ {c} : /\ fdDriver'[e].op = fdDriver[e].op /\ fdDriver'[e].at = fdDriver[e].at
                                  /\ fdDriver'[e].candidate = fdDriver[e].candidate /\ ~fdDriver'[e].lone
  <2>1. "reconfigure" \in FaceOps
    BY DEF FaceOps
  <2>2. /\ fdDriver[c].at = "new" /\ c \notin Reconfiguring
        /\ fdDriver' \in [Drivers -> DriverRecord]
        /\ fdDriver'[c].op = "reconfigure" /\ fdDriver'[c].at = at /\ fdDriver'[c].candidate = candidate
        /\ fdDriver'[c].lone = ("reconfigure" = "reconfigure" => Reconfiguring = {})
        /\ \A e \in Drivers \ {c} : /\ fdDriver'[e].op = fdDriver[e].op /\ fdDriver'[e].at = fdDriver[e].at
                                    /\ fdDriver'[e].candidate = fdDriver[e].candidate
                                    /\ fdDriver'[e].lone = (fdDriver[e].lone /\ "reconfigure" # "reconfigure")
    BY <1>2, <1>4, <2>1, CallingIs
  <2> QED
    BY <2>2
<1>9. /\ fdKernel' \in KernelRecord /\ fdKernel'.program = fdKernel.program /\ RevisionRests
      /\ fdKernel'.queue = fdKernel.queue \/ (edit # NoEdit /\ fdKernel'.queue = Append(fdKernel.queue, job))
  BY <1>1, <1>2, <1>3, <1>5, QueuedIs DEF RevisionRests, job
<1>10. /\ fdFace' \in FaceRecord /\ FaceRests /\ fdFace'.blueprint = fdFace.blueprint
       /\ fdFace'.torn = (fdFace.torn \/ Reconfiguring # {})
  <2> DEFINE torn == fdFace.torn \/ Reconfiguring # {}
  <2>1. torn \in BOOLEAN /\ fdFace' = [fdFace EXCEPT !.torn = torn]
    BY <1>2
  <2> HIDE DEF torn
  <2>2. fdFace' \in FaceRecord /\ FaceRests /\ fdFace'.blueprint = fdFace.blueprint /\ fdFace'.torn = torn
    BY <1>3, <2>1 DEF FaceRecord, FaceRests
  <2> QED
    BY <2>2 DEF torn
<1> HIDE DEF edit
<1>11. FdTypes'
  BY <1>1, <1>2, <1>8, <1>9, <1>10 DEF FdTypes
<1>12. Reconfiguring' = Reconfiguring \cup {c}
  <2>1. c \in Reconfiguring'
    BY <1>8 DEF Reconfiguring
  <2>2. ASSUME NEW e \in FdCalls, e # c PROVE e \in Reconfiguring' <=> e \in Reconfiguring
    BY <1>8, <2>2 DEF Reconfiguring, Drivers
  <2> QED
    BY <2>1, <2>2 DEF Reconfiguring
<1>13. NotesAreKnown' /\ ListenerHas'
  BY <1>1, <1>9, <1>10, ListenerRests
<1>14. ControllerBusy' /\ AnswersHold'
  BY <1>1, <1>2, <1>8, <1>9, ControllerApart DEF ControllerBusy, AnswersHold, RevisionRests
<1>15. ProgramHolds'
  <2>1. ASSUME NEW e \in Reconfiguring PROVE CallHolds(e)'
    <3>1. e \in Drivers \ {c} /\ CallHolds(e)
      BY <1>1, <1>8 DEF ProgramHolds, Reconfiguring, Drivers
    <3> QED
      BY <1>8, <1>10, <3>1 DEF CallHolds
  <2>2. CallHolds(c)'
    <3>1. CASE Reconfiguring = {}
      <4>1. Reconfiguring' = {c} /\ fdDriver'[c].lone
        BY <1>8, <1>12, <3>1
      <4>2. at = "mutated" => fdKernel'.program = Lowered(candidate)
        BY <1>7, <1>9
      <4>3. ~fdFace'.torn => fdKernel'.program = Lowered(fdFace.blueprint)
        BY <1>1, <1>9, <1>10, <3>1 DEF ProgramHolds, ProgramIsLowered
      <4> QED
        BY <1>8, <1>10, <4>1, <4>2, <4>3 DEF CallHolds, Lowered
    <3>2. CASE Reconfiguring # {}
      BY <1>8, <1>10, <3>2 DEF CallHolds
    <3> QED
      BY <3>1, <3>2
  <2> QED
    BY <1>12, <2>1, <2>2 DEF ProgramHolds, ProgramIsLowered
<1>16. ASSUME NEW other, JobHolds(other), other.by # c PROVE JobHolds(other)'
  <2>1. other.by \in Reconfiguring' => other.by \in Drivers \ {c}
    BY <1>16 DEF Reconfiguring, Drivers
  <2> QED
    BY <1>1, <1>8, <1>12, <1>16, <2>1, ControllerApart DEF JobHolds
<1>17. \A i \in DOMAIN fdKernel.queue : fdKernel.queue[i].by # c
  BY <1>1, <1>8 DEF QueueHolds, JobHolds
<1>18. QueueHolds'
  <2>1. CASE fdKernel'.queue = fdKernel.queue
    <3>1. \A other : (\E i \in DOMAIN fdKernel'.queue : other = fdKernel'.queue[i]) => JobHolds(other)'
      BY <1>1, <1>16, <1>17, <2>1 DEF QueueHolds
    <3> QED
      BY <1>1, <2>1, <3>1 DEF QueueHolds
  <2>2. CASE edit # NoEdit /\ fdKernel'.queue = Append(fdKernel.queue, job)
    <3>1. PICK j \in Jobs : j = job
      BY <1>5
    <3>2. j.by = c /\ j.edit = edit /\ edit = Difference(fdKernel.program, Lowered(candidate))
      BY <1>5, <3>1 DEF edit
    <3>3. JobHolds(j)'
      BY <1>1, <1>8, <1>9, <1>12, <2>2, <3>2 DEF JobHolds, Lowered, Difference
    <3> QED
      BY <1>1, <1>16, <1>17, <2>2, <3>1, <3>2, <3>3, QueueGrows
  <2> QED
    BY <1>9, <2>1, <2>2
<1> QED
  BY <1>11, <1>13, <1>14, <1>15, <1>18 DEF FdInvariant

\* A call of the face that returns keeps the invariant; a reconfiguration that was alone adopts its Blueprint.
LEMMA ReturnKeeps ==
  ASSUME FdInvariant, NEW c \in FdCalls, FdReturns(c)
  PROVE  FdInvariant'
<1>1. /\ FdTypes /\ QueueHolds /\ ProgramHolds /\ AnswersHold /\ NotesAreKnown /\ ListenerHas /\ ControllerBusy
      /\ c \in Drivers /\ c # Controller /\ c # Invocation
  BY FdNames DEF FdInvariant, Drivers
<1> DEFINE over == [Nobody EXCEPT !.at = "over"]
           face == Adopted(fdFace, fdDriver[c])
<1>2. /\ fdDriver[c].at = "mutated"
      /\ fdDriver' = [fdDriver EXCEPT ![c] = over]
      /\ fdFace' = face \/ fdFace' = TreeRead(face, fdKernel.rev)
      /\ UNCHANGED <<fdKernel, fdController, fdLeft>>
  BY DEF FdReturns
<1>3. over \in DriverRecord /\ over.op = "none" /\ over.at = "over"
  BY NobodyTyped DEF DriverRecord, Nobody, FdPlaces
<1>4. fdFace \in FaceRecord /\ fdKernel \in KernelRecord /\ fdDriver[c] \in DriverRecord
  BY <1>1 DEF FdTypes
<1>5. /\ face \in FaceRecord /\ face.reads = fdFace.reads /\ face.told = fdFace.told /\ face.heeded = fdFace.heeded
      /\ face.missed = fdFace.missed /\ face.heard = fdFace.heard /\ face.signature = fdFace.signature
      /\ fdDriver[c].op # "reconfigure" => face = fdFace
      /\ fdDriver[c].op = "reconfigure" => face.blueprint = fdDriver[c].candidate /\ face.torn = (fdFace.torn /\ ~fdDriver[c].lone)
  BY <1>4 DEF Adopted, FaceRecord, DriverRecord
<1> HIDE DEF over, face
<1>6. /\ fdFace' \in FaceRecord /\ fdFace'.told = fdFace.told /\ fdFace'.heeded = fdFace.heeded
      /\ fdFace'.missed = fdFace.missed /\ fdFace'.heard = fdFace.heard /\ fdFace'.signature = fdFace.signature
      /\ fdFace'.torn = face.torn /\ fdFace'.blueprint = face.blueprint
      /\ fdFace.reads \subseteq fdFace'.reads /\ fdFace'.reads \subseteq fdFace.reads \cup {fdKernel.rev}
  <2>1. fdKernel.rev \in Nat
    BY <1>4 DEF KernelRecord
  <2> QED
    <3>1. face.reads \cup {fdKernel.rev} \in SUBSET Nat
      BY <1>5, <2>1 DEF FaceRecord
    <3>2. fdFace' = face \/ fdFace' = [face EXCEPT !.reads = face.reads \cup {fdKernel.rev}]
      BY <1>2 DEF TreeRead
    <3>3. CASE fdFace' = face
      BY <1>5, <3>3
    <3>4. CASE fdFace' = [face EXCEPT !.reads = face.reads \cup {fdKernel.rev}]
      BY <1>5, <3>1, <3>4 DEF FaceRecord
    <3> QED
      BY <3>2, <3>3, <3>4
<1>7. /\ fdDriver' \in [Drivers -> DriverRecord] /\ fdDriver'[c] = over
      /\ \A e \in Drivers \ {c} : fdDriver'[e] = fdDriver[e] /\ StaysPut(e)
  BY <1>1, <1>2, <1>3, OneStirs
<1>8. FdTypes'
  BY <1>1, <1>2, <1>6, <1>7 DEF FdTypes
<1>9. NotesAreKnown' /\ ListenerHas'
  <2>1. fdKernel.rev \in Nat
    BY <1>4 DEF KernelRecord
  <2> QED
    BY <1>1, <1>2, <1>6, <2>1 DEF NotesAreKnown, ListenerHas
<1>10. ControllerBusy' /\ AnswersHold'
  BY <1>1, <1>2, <1>7, ControllerApart DEF ControllerBusy, AnswersHold
<1>11. Reconfiguring' = Reconfiguring \ {c}
  <2>1. c \notin Reconfiguring'
    BY <1>3, <1>7 DEF Reconfiguring
  <2>2. ASSUME NEW e \in FdCalls, e # c PROVE e \in Reconfiguring' <=> e \in Reconfiguring
    BY <1>7, <2>2 DEF Reconfiguring, Drivers
  <2> QED
    BY <2>1, <2>2 DEF Reconfiguring
<1>12. CASE c \notin Reconfiguring
  <2>1. fdDriver[c].op # "reconfigure"
    BY <1>2, <1>12 DEF Reconfiguring
  <2>2. Apart(c) /\ ProgramRests
    BY <1>2, <1>5, <1>6, <1>7, <1>11, <1>12, <2>1 DEF Apart, ProgramRests
  <2>3. QueueHolds' /\ ProgramHolds'
    BY <1>1, <1>2, <2>2, ApartQueue, ApartKeeps
  <2> QED
    BY <1>8, <1>9, <1>10, <2>3 DEF FdInvariant
<1>13. CASE c \in Reconfiguring
  <2>1. fdDriver[c].op = "reconfigure" /\ CallHolds(c)
    BY <1>1, <1>13 DEF Reconfiguring, ProgramHolds
  <2>2. /\ fdFace'.blueprint = fdDriver[c].candidate /\ fdFace'.torn = (fdFace.torn /\ ~fdDriver[c].lone)
    BY <1>5, <1>6, <2>1
  <2>3. ASSUME NEW e \in Reconfiguring' PROVE CallHolds(e)' /\ ~fdDriver'[e].lone
    <3>1. e \in Reconfiguring /\ e # c /\ e \in Drivers \ {c}
      BY <1>11, <2>3 DEF Reconfiguring, Drivers
    <3>2. CallHolds(e) /\ ~fdDriver[e].lone /\ ~fdDriver[c].lone
      BY <1>1, <1>13, <2>1, <3>1 DEF ProgramHolds, CallHolds
    <3> QED
      BY <1>7, <2>2, <3>1, <3>2 DEF CallHolds
  <2>4. ProgramIsLowered'
    <3>1. CASE fdDriver[c].lone
      BY <1>2, <2>1, <2>2, <3>1 DEF ProgramIsLowered, CallHolds, Lowered
    <3>2. CASE ~fdDriver[c].lone
      BY <2>1, <2>2, <3>2 DEF ProgramIsLowered, CallHolds
    <3> QED
      BY <3>1, <3>2
  <2>5. ASSUME NEW other, JobHolds(other) PROVE JobHolds(other)'
    <3>1. other.by # c
      BY <1>1, <1>2, <2>5 DEF JobHolds
    <3> QED
      BY <1>7, <1>11, <2>3, <2>5, <3>1, <1>1, ControllerApart DEF JobHolds
  <2>6. QueueHolds'
    BY <1>1, <1>2, <2>5, QueueStays
  <2> QED
    BY <1>8, <1>9, <1>10, <2>3, <2>4, <2>6 DEF FdInvariant, ProgramHolds
<1> QED
  BY <1>12, <1>13

\* A kernel nobody drives yet.
LEMMA FdInitial == FdInit => FdInvariant
<1> SUFFICES ASSUME FdInit PROVE FdInvariant
  OBVIOUS
<1>1. FdTypes
  <2>1. fdKernel \in KernelRecord
    <3>1. <<>> \in Seq(Jobs) /\ {} \in SUBSET FdPatches /\ {} \in SUBSET Nat /\ 0 \in Nat
      OBVIOUS
    <3> QED
      BY <3>1 DEF FdInit, KernelRecord
  <2>2. fdController \in ControllerRecord
    <3>1. "start" \in FdOps
      BY DEF FdOps
    <3>2. <<"start">> \in Seq(FdOps) /\ <<>> \in Seq(FdOps)
      BY <3>1
    <3>3. -1 \in Int
      OBVIOUS
    <3>4. fdController = [queue |-> <<"start">>, tree |-> -1, patch |-> -1]
          \/ fdController = [queue |-> <<>>, tree |-> -1, patch |-> -1]
      BY DEF FdInit
    <3>5. \A q \in Seq(FdOps), m \in Int : [queue |-> q, tree |-> m, patch |-> m] \in ControllerRecord
      BY DEF ControllerRecord
    <3> QED
      BY <3>2, <3>3, <3>4, <3>5
  <2>3. fdFace \in FaceRecord
    <3>1. -1 \in Int /\ {} \in SUBSET FdPatches /\ {} \in SUBSET Nat
      OBVIOUS
    <3> QED
      BY <3>1 DEF FdInit, FaceRecord
  <2>4. fdDriver \in [Drivers -> DriverRecord]
    BY NobodyTyped DEF FdInit, Drivers
  <2>5. fdLeft \in LeftRecord
    BY FdAssumption DEF FdInit, LeftRecord
  <2> QED
    BY <2>1, <2>2, <2>3, <2>4, <2>5 DEF FdTypes
<1>2. ControllerBusy /\ AnswersHold
  <2>1. fdDriver[Controller] = Nobody /\ fdController.patch = -1 /\ fdKernel.rev = 0
    BY DEF FdInit
  <2> QED
    BY <2>1 DEF ControllerBusy, AnswersHold, Nobody
<1>3. NotesAreKnown /\ ListenerHas
  BY DEF FdInit, NotesAreKnown, ListenerHas
<1>4. Reconfiguring = {}
  BY DEF FdInit, Reconfiguring, Nobody
<1>5. ProgramHolds
  BY <1>4 DEF FdInit, ProgramHolds, ProgramIsLowered, Lowered
<1>6. QueueHolds
  <2>1. DOMAIN fdKernel.queue = {}
    <3>1. fdKernel.queue = <<>>
      BY DEF FdInit
    <3> QED
      BY <3>1
  <2> QED
    BY <2>1 DEF QueueHolds
<1> QED
  BY <1>1, <1>2, <1>3, <1>5, <1>6 DEF FdInvariant

\* Nobody who drives the kernel or listens to it breaks the invariant.
LEMMA FdKept == FdInvariant /\ FdNext => FdInvariant'
<1> SUFFICES ASSUME FdInvariant, FdNext PROVE FdInvariant'
  OBVIOUS
<1>1. CASE FdCommits
  BY <1>1, CommitTyped, CommitKeeps DEF FdInvariant
<1>2. CASE FdThrows \/ FdAnswers
  BY <1>2, ThrowKeeps, AnswerKeeps
<1>3. CASE \E d \in FdCalls \cup {Controller} : FdIdle(d) \/ FdDrained(d)
  BY <1>3, IdleKeeps, DrainedKeeps DEF Drivers
<1>4. CASE (\E op \in Operations : FdEnqueue(op)) \/ FdBegins \/ FdResolves \/ FdShows
  BY <1>4, ControllerKeeps
<1>5. ASSUME NEW c \in FdCalls,
             \/ \E op \in {"emit", "restore", "sync", "compensate"} : FdDrive(c, op)
             \/ FdWhenIdle(c) \/ FdRefused(c)
             \/ \E change \in FdPatches : FdReconfigure(c, change)
             \/ FdReturns(c)
      PROVE  FdInvariant'
  BY <1>5, FaceCallKeeps, ReconfigureKeeps, ReturnKeeps
<1>6. CASE FdSubscribe \/ FdTells \/ FdStop
  BY <1>6, ListenKeeps
<1> QED
  BY <1>1, <1>2, <1>3, <1>4, <1>5, <1>6 DEF FdNext

\* The controller shows what its patch started, the program is that of the Blueprint, and the listener is told.
LEMMA FdPromises == FdInvariant => AnswersAreShown /\ ProgramIsLowered /\ ListenersAreTold
<1> SUFFICES ASSUME FdInvariant PROVE AnswersAreShown /\ ProgramIsLowered /\ ListenersAreTold
  OBVIOUS
<1>1. AnswersAreShown
  BY DEF FdInvariant, AnswersHold, AnswersAreShown
<1>2. ProgramIsLowered
  BY DEF FdInvariant, ProgramHolds
<1>3. ListenersAreTold
  BY DEF FdInvariant, ListenerHas, ListenersAreTold
<1> QED
  BY <1>1, <1>2, <1>3

-----------------------------------------------------------------------------
(***************************************************************************)
(* Requests of the service host (ServiceHost).  The invariant ties the     *)
(* place of the call that works on a request to what the store says of it  *)
(* and counts what its attempts and its guardrail violations still allow.  *)
(***************************************************************************)
Outcomes == {"authorized", "rejected", "confirmation-required"}
SvStatuses == {"none", "accepted", "running"} \cup FinalStatus
SvPlaces == {"absent", "new", "creating", "queued", "picked", "executing", "requeue"} \cup SvLive \cup SvOver
SvRecords == [status : SvStatuses, mode : {"none", "immediate", "queued"}, attempts : Nat, guardrail : Nat,
              decision : [outcome : Outcomes, until : {"none", "soon", "unparseable"}],
              snapshot : {"none", "lasting", "expiring", "mismatched"},
              runs : Nat, bound : BOOLEAN, aborted : BOOLEAN]
SvTools == [state : {"none", "asking", "refused", "handled"}, attempt : Nat]

SvTypes ==
    /\ svStore \in [SvRequests -> SvRecords] /\ svRec \in [SvRequests -> SvRecords]
    /\ svAt \in [SvRequests -> SvPlaces]
    /\ svCancel \in [SvRequests -> {"none", "read", "written"}]
    /\ svAdapter \in [state : {"none", "building", "ready", "failed"}, created : {0, 1}]
    /\ svTool \in [SvRequests -> SvTools]

(* The queue holds the requests that wait in it, each once. *)
PendingHolds ==
    /\ svPending \in Seq(SvRequests)
    /\ \A i \in DOMAIN svPending : svAt[svPending[i]] = "queued"
    /\ \A r \in SvRequests : svAt[r] = "queued" => \E i \in DOMAIN svPending : svPending[i] = r
    /\ \A i, j \in DOMAIN svPending : svPending[i] = svPending[j] => i = j

(* What the store says of a request, by the place of the call that works on it. *)
SvWaiting == {"queued", "requeue", "picked", "executing"}
StatusHolds(at, stored, cancel) ==
    /\ at \in {"absent", "new", "creating"} => stored = NoRecord /\ cancel = "none"
    /\ at \in SvWaiting => stored.status \in {"accepted", "cancelled"}
    /\ at \in SvLive => stored.status \in {"running", "cancelled"}
    /\ at \in SvOver => stored.status \notin {"accepted", "running"}

(* Every run was allowed by an attempt or by a violation, and what is still to
   run is allowed too. *)
Allowed(record) == record.attempts + record.guardrail
RunsHold(at, stored, record) ==
    /\ at \in {"absent", "new"} => record = NoRecord
    /\ at = "creating" => record.runs = 0 /\ record.attempts = 0 /\ record.guardrail = 0
    /\ at \in {"queued", "requeue"} => stored.attempts = record.attempts /\ stored.guardrail = record.guardrail
    /\ at \in SvWaiting \cup SvLive => record.attempts <= SvMaxAttempts /\ record.guardrail <= SvCeiling - 1
    /\ at \in SvWaiting => record.runs <= Allowed(record) /\ record.attempts < SvMaxAttempts
    /\ at \in SvLive \ {"running", "validating"} => record.runs + 1 <= Allowed(record)
    /\ at \in {"running", "validating"} => record.runs <= Allowed(record)
    /\ at \in SvOver => record.runs <= SvMaxAttempts + SvCeiling - 1

RequestHolds(at, stored, record, cancel) == StatusHolds(at, stored, cancel) /\ RunsHold(at, stored, record)
RequestsHold == \A r \in SvRequests : RequestHolds(svAt[r], svStore[r], svRec[r], svCancel[r])

AdapterHolds == svHost.cached /\ svAdapter.state = "none" => svAdapter.created = 0

SvInvariant == SvTypes /\ PendingHolds /\ RequestsHold /\ AdapterHolds

\* Both ceilings are positive.
LEMMA SvBounds == SvMaxAttempts \in Nat \ {0} /\ SvCeiling \in Nat \ {0}
BY SvAssumption

\* A request nobody recorded has the record of none.
LEMMA NoRecordTyped == NoRecord \in SvRecords
BY DEF NoRecord, SvRecords, SvStatuses, FinalStatus, Trivial, Outcomes

\* Nothing was submitted.
LEMMA SvInitial == SvInit => SvInvariant
<1> SUFFICES ASSUME SvInit PROVE SvInvariant
  OBVIOUS
<1>1. PICK scenario \in SvScenarios :
          /\ svHost = scenario.host
          /\ svAt = [r \in SvRequests |-> IF r \in scenario.requests THEN "new" ELSE "absent"]
  BY DEF SvInit
<1>2. /\ svStore = [r \in SvRequests |-> NoRecord] /\ svRec = [r \in SvRequests |-> NoRecord]
      /\ svPending = <<>> /\ svCancel = [r \in SvRequests |-> "none"]
      /\ svAdapter = [state |-> "none", created |-> 0]
      /\ svTool = [r \in SvRequests |-> [state |-> "none", attempt |-> 0]]
  BY DEF SvInit
<1>3. \A r \in SvRequests : svAt[r] \in {"new", "absent"}
  BY <1>1
<1>4. SvTypes
  BY <1>1, <1>2, <1>3, NoRecordTyped DEF SvTypes, SvPlaces, SvTools
<1>5. PendingHolds
  BY <1>2, <1>3 DEF PendingHolds
<1>6. RequestsHold
  BY <1>2, <1>3 DEF RequestsHold, RequestHolds, StatusHolds, RunsHold, SvWaiting, SvLive, SvOver
<1> QED
  BY <1>2, <1>4, <1>5, <1>6 DEF SvInvariant, AdapterHolds

(* A step of the call that works on one request. *)
LEMMA TurnHolds ==
  ASSUME SvInvariant, NEW r \in SvRequests, NEW at \in SvPlaces, NEW stored \in SvRecords, NEW record \in SvRecords,
         svAt' = [svAt EXCEPT ![r] = at], svStore' = [svStore EXCEPT ![r] = stored],
         svRec' = [svRec EXCEPT ![r] = record], UNCHANGED <<svHost, svCancel, svAdapter, svTool>>,
         RequestHolds(at, stored, record, svCancel[r]), PendingHolds'
  PROVE  SvInvariant'
<1>1. SvTypes'
  BY DEF SvInvariant, SvTypes
<1>2. RequestsHold'
  <2>1. ASSUME NEW q \in SvRequests PROVE RequestHolds(svAt'[q], svStore'[q], svRec'[q], svCancel'[q])
    BY DEF SvInvariant, SvTypes, RequestsHold
  <2> QED
    BY <2>1 DEF RequestsHold
<1> QED
  BY <1>1, <1>2 DEF SvInvariant, AdapterHolds

\* The queue stays as it is when a call that is not queued moves.
LEMMA PendingRests ==
  ASSUME SvInvariant, NEW r \in SvRequests, NEW at \in SvPlaces \ {"queued"}, svAt[r] # "queued",
         svAt' = [svAt EXCEPT ![r] = at], svPending' = svPending
  PROVE  PendingHolds'
BY DEF SvInvariant, SvTypes, PendingHolds

\* A request that was not queued is put at the end of the queue.
LEMMA PendingGrows ==
  ASSUME SvInvariant, NEW r \in SvRequests, svAt[r] # "queued",
         svAt' = [svAt EXCEPT ![r] = "queued"], svPending' = Append(svPending, r)
  PROVE  PendingHolds'
<1>1. svPending \in Seq(SvRequests)
  BY DEF SvInvariant, PendingHolds
<1>2. /\ svPending' \in Seq(SvRequests) /\ Len(svPending) \in Nat
      /\ DOMAIN svPending' = DOMAIN svPending \cup {Len(svPending) + 1} /\ DOMAIN svPending = 1..Len(svPending)
      /\ \A i \in DOMAIN svPending : svPending'[i] = svPending[i] /\ i # Len(svPending) + 1
      /\ svPending'[Len(svPending) + 1] = r
  BY <1>1, AppendProperties
<1>3. \A q \in SvRequests : svAt'[q] = IF q = r THEN "queued" ELSE svAt[q]
  BY DEF SvInvariant, SvTypes
<1>4. \A i \in DOMAIN svPending : svPending[i] # r /\ svPending[i] \in SvRequests
  BY <1>1 DEF SvInvariant, PendingHolds
<1>5. \A i \in DOMAIN svPending' : svAt'[svPending'[i]] = "queued"
  BY <1>2, <1>3, <1>4 DEF SvInvariant, PendingHolds
<1>6. \A q \in SvRequests : svAt'[q] = "queued" => \E i \in DOMAIN svPending' : svPending'[i] = q
  BY <1>2, <1>3 DEF SvInvariant, PendingHolds
<1>7. \A i, j \in DOMAIN svPending' : svPending'[i] = svPending'[j] => i = j
  BY <1>2, <1>4 DEF SvInvariant, PendingHolds
<1> QED
  BY <1>2, <1>5, <1>6, <1>7 DEF PendingHolds

\* The first of the queue is taken out of it.
LEMMA PendingShrinks ==
  ASSUME SvInvariant, NEW r \in SvRequests, NEW at \in SvPlaces \ {"queued"}, svPending # <<>>, r = Head(svPending),
         svAt' = [svAt EXCEPT ![r] = at], svPending' = Tail(svPending)
  PROVE  PendingHolds'
<1>1. svPending \in Seq(SvRequests)
  BY DEF SvInvariant, PendingHolds
<1>2. /\ svPending' \in Seq(SvRequests) /\ Len(svPending) \in Nat /\ Len(svPending) # 0
      /\ DOMAIN svPending = 1..Len(svPending) /\ DOMAIN svPending' = 1..(Len(svPending) - 1)
      /\ \A i \in DOMAIN svPending' : svPending'[i] = svPending[i + 1]
      /\ svPending[1] = r
  <2>1. Tail(svPending) \in Seq(SvRequests) /\ Len(Tail(svPending)) = Len(svPending) - 1
        /\ \A i \in 1..Len(Tail(svPending)) : Tail(svPending)[i] = svPending[i + 1]
    BY <1>1, HeadTailProperties
  <2> QED
    BY <1>1, <2>1
<1>3. \A q \in SvRequests : svAt'[q] = IF q = r THEN at ELSE svAt[q]
  BY DEF SvInvariant, SvTypes
<1>4. \A i \in DOMAIN svPending' : i + 1 \in DOMAIN svPending /\ i + 1 # 1 /\ 1 \in DOMAIN svPending
  BY <1>2
<1>5. \A i \in DOMAIN svPending' : svPending'[i] # r /\ svPending'[i] \in SvRequests
  BY <1>1, <1>2, <1>4 DEF SvInvariant, PendingHolds
<1>6. \A i \in DOMAIN svPending' : svAt'[svPending'[i]] = "queued"
  BY <1>2, <1>3, <1>4, <1>5 DEF SvInvariant, PendingHolds
<1>7. ASSUME NEW q \in SvRequests, svAt'[q] = "queued" PROVE \E i \in DOMAIN svPending' : svPending'[i] = q
  <2>1. q # r /\ svAt[q] = "queued"
    BY <1>3, <1>7
  <2>2. PICK i \in DOMAIN svPending : svPending[i] = q
    BY <2>1 DEF SvInvariant, PendingHolds
  <2>3. i # 1 /\ i - 1 \in DOMAIN svPending' /\ svPending'[i - 1] = svPending[i]
    BY <1>2, <2>1, <2>2
  <2> QED
    BY <2>2, <2>3
<1>8. ASSUME NEW i \in DOMAIN svPending', NEW j \in DOMAIN svPending', svPending'[i] = svPending'[j] PROVE i = j
  <2>1. i + 1 = j + 1
    BY <1>2, <1>4, <1>8 DEF SvInvariant, PendingHolds
  <2> QED
    BY <1>2, <2>1
<1> QED
  BY <1>2, <1>6, <1>7, <1>8 DEF PendingHolds

-----------------------------------------------------------------------------
(* What is decided about a request. *)
LEMMA DecisionsTyped ==
  ASSUME NEW decision \in Decisions \cup {Refused, Trivial}
  PROVE  decision \in [outcome : Outcomes, until : {"none", "soon", "unparseable"}]
<1>1. Refused \in [outcome : Outcomes, until : {"none", "soon", "unparseable"}]
      /\ Trivial \in [outcome : Outcomes, until : {"none", "soon", "unparseable"}]
  BY DEF Refused, Trivial, Outcomes
<1>2. ASSUME NEW answer \in PolicyAnswers
      PROVE  AuthorizationDecision(answer) \in [outcome : Outcomes, until : {"none", "soon", "unparseable"}]
  BY DEF AuthorizationDecision, IsAuthorizationDecision, PolicyAnswers, Outcomes
<1>3. decision \in {AuthorizationDecision(answer) : answer \in PolicyAnswers} \cup {Refused, Trivial}
  BY DEF Decisions
<1> QED
  BY <1>1, <1>2, <1>3

\* What the invariant says of one request.
LEMMA RequestTyped ==
  ASSUME SvInvariant, NEW r \in SvRequests
  PROVE  /\ svStore[r] \in SvRecords /\ svRec[r] \in SvRecords /\ svAt[r] \in SvPlaces
         /\ RequestHolds(svAt[r], svStore[r], svRec[r], svCancel[r])
         /\ svStore' = svStore => svStore' = [svStore EXCEPT ![r] = svStore[r]]
         /\ svRec' = svRec => svRec' = [svRec EXCEPT ![r] = svRec[r]]
BY DEF SvInvariant, SvTypes, RequestsHold

(* A failure of a request that is being worked on. *)
LEMMA FailedHolds ==
  ASSUME SvInvariant, NEW r \in SvRequests, svAt[r] \in SvLive, Failed(r, svRec[r]), svPending' = svPending,
         UNCHANGED <<svHost, svCancel, svAdapter, svTool>>
  PROVE  SvInvariant'
<1> DEFINE record == svRec[r]
           retry == record.mode = "queued" /\ record.attempts < SvMaxAttempts
           status == IF retry THEN "accepted" ELSE IF record.mode = "queued" THEN "dead-lettered" ELSE "failed"
           failed == [record EXCEPT !.status = status]
           at == IF retry THEN "requeue" ELSE "ended"
<1>1. /\ svRec' = [svRec EXCEPT ![r] = failed] /\ svStore' = [svStore EXCEPT ![r] = failed]
      /\ svAt' = [svAt EXCEPT ![r] = at]
  BY DEF Failed, Hold, Put, Goto
<1>2. svRec[r] \in SvRecords /\ RequestHolds(svAt[r], svStore[r], svRec[r], svCancel[r])
  BY RequestTyped
<1>3. failed \in SvRecords /\ failed.status = status /\ failed.attempts = record.attempts
      /\ failed.guardrail = record.guardrail /\ failed.runs = record.runs
  <2>1. status \in SvStatuses
    BY DEF SvStatuses, FinalStatus
  <2> HIDE DEF status
  <2> QED
    BY <1>2, <2>1 DEF SvRecords
<1>4. record.runs \in Nat /\ record.attempts \in Nat /\ record.guardrail \in Nat
  BY <1>2 DEF SvRecords
<1>5. RequestHolds(at, failed, failed, svCancel[r])
  BY <1>2, <1>3, <1>4, SvBounds DEF RequestHolds, StatusHolds, RunsHold, Allowed, SvWaiting, SvLive, SvOver
<1>6. at \in SvPlaces \ {"queued"} /\ svAt[r] # "queued"
  BY DEF SvPlaces, SvLive, SvOver
<1> HIDE DEF failed, at
<1>7. PendingHolds'
  BY <1>1, <1>6, PendingRests
<1> QED
  BY <1>1, <1>3, <1>5, <1>6, <1>7, TurnHolds

\* Submitting keeps the invariant.
LEMMA SubmitHolds ==
  ASSUME SvInvariant, NEW r \in SvRequests, NEW mode \in {"immediate", "queued"}, SvSubmit(r, mode)
  PROVE  SvInvariant'
<1>1. PICK snapshot \in {"lasting", "expiring", "mismatched", "none"}, built \in BOOLEAN :
          svRec' = [svRec EXCEPT ![r] = [NoRecord EXCEPT !.mode = mode, !.status = IF built THEN "accepted" ELSE "rejected",
                                                         !.snapshot = IF built THEN snapshot ELSE "none"]]
  <2>1. \A s : IsAuthorizationSnapshot(s) \in BOOLEAN
    BY DEF IsAuthorizationSnapshot
  <2> QED
    BY <2>1 DEF SvSubmit, Hold
<1> DEFINE status == IF built THEN "accepted" ELSE "rejected"
           shot == IF built THEN snapshot ELSE "none"
           record == [NoRecord EXCEPT !.mode = mode, !.status = status, !.snapshot = shot]
<1>2. record \in SvRecords /\ record.runs = 0 /\ record.attempts = 0 /\ record.guardrail = 0
  <2>1. status \in SvStatuses /\ shot \in {"none", "lasting", "expiring", "mismatched"}
    BY DEF SvStatuses, FinalStatus
  <2> HIDE DEF status, shot
  <2>2. record \in SvRecords
    BY <2>1, NoRecordTyped DEF SvRecords
  <2> QED
    BY <2>2 DEF NoRecord
<1>3. svAt[r] = "new" /\ svAt' = [svAt EXCEPT ![r] = "creating"] /\ svPending' = svPending /\ svStore' = svStore
      /\ UNCHANGED <<svHost, svCancel, svAdapter, svTool>>
  BY DEF SvSubmit, Goto
<1>4. RequestHolds("creating", svStore[r], record, svCancel[r])
  BY <1>2, <1>3, RequestTyped DEF RequestHolds, StatusHolds, RunsHold, SvWaiting, SvLive, SvOver
<1>5. "creating" \in SvPlaces \ {"queued"}
  BY DEF SvPlaces, SvLive, SvOver
<1>6. PendingHolds'
  BY <1>3, <1>5, PendingRests
<1>7. svRec' = [svRec EXCEPT ![r] = record]
  BY <1>1
<1> HIDE DEF record
<1> QED
  BY <1>2, <1>3, <1>4, <1>5, <1>6, <1>7, RequestTyped, TurnHolds

\* Writing a new request down keeps the invariant: it is run at once, or queued once.
LEMMA CreateHolds ==
  ASSUME SvInvariant, NEW r \in SvRequests, CreateRecord(r)
  PROVE  SvInvariant'
<1>1. PICK decision \in Decisions \cup {Refused} :
          LET record == [svRec[r] EXCEPT !.status = StatusFor(decision, "accepted"), !.decision = decision]
              accepted == record.status = "accepted"
          IN  /\ Hold(r, record) /\ Put(r, record)
              /\ Goto(r, IF ~accepted THEN "ended" ELSE IF record.mode = "queued" THEN "queued" ELSE "executing")
              /\ svPending' = IF accepted /\ record.mode = "queued" THEN Append(svPending, r) ELSE svPending
  BY DEF CreateRecord
<1>2. svAt[r] = "creating" /\ UNCHANGED <<svHost, svCancel, svAdapter, svTool>>
  BY DEF CreateRecord
<1> DEFINE status == StatusFor(decision, "accepted")
           record == [svRec[r] EXCEPT !.status = status, !.decision = decision]
           at == IF record.status # "accepted" THEN "ended" ELSE IF record.mode = "queued" THEN "queued" ELSE "executing"
<1>3. decision \in [outcome : Outcomes, until : {"none", "soon", "unparseable"}]
  BY DecisionsTyped
<1>4. status \in {"accepted", "rejected", "confirmation-required"} /\ status \in SvStatuses
  BY <1>3 DEF StatusFor, Outcomes, SvStatuses, FinalStatus
<1>5. svRec[r] \in SvRecords /\ RequestHolds("creating", svStore[r], svRec[r], svCancel[r])
  BY <1>2, RequestTyped
<1>6. /\ svRec' = [svRec EXCEPT ![r] = record] /\ svStore' = [svStore EXCEPT ![r] = record]
      /\ svAt' = [svAt EXCEPT ![r] = at]
      /\ svPending' = IF at = "queued" THEN Append(svPending, r) ELSE svPending
  BY <1>1 DEF Hold, Put, Goto
<1> HIDE DEF status
<1>7. record \in SvRecords /\ record.status = status /\ record.runs = 0 /\ record.attempts = 0 /\ record.guardrail = 0
  <2>1. svRec[r].runs = 0 /\ svRec[r].attempts = 0 /\ svRec[r].guardrail = 0
    BY <1>5 DEF RequestHolds, RunsHold
  <2> QED
    BY <1>3, <1>4, <1>5, <2>1 DEF SvRecords
<1>8. at \in {"ended", "queued", "executing"} /\ (at # "ended" => status = "accepted")
      /\ (at = "ended" => status # "accepted") /\ at \in SvPlaces
  BY <1>7 DEF SvPlaces, SvOver
<1> HIDE DEF record, at
<1>9. RequestHolds(at, record, record, svCancel[r])
  BY <1>4, <1>7, <1>8, SvBounds DEF RequestHolds, StatusHolds, RunsHold, Allowed, SvWaiting, SvLive, SvOver
<1>10. PendingHolds'
  BY <1>2, <1>6, <1>8, PendingRests, PendingGrows
<1> QED
  BY <1>2, <1>6, <1>7, <1>8, <1>9, <1>10, TurnHolds

\* Taking the next request keeps the invariant: it is in the hands of the call that took it.
LEMMA RunNextHolds ==
  ASSUME SvInvariant, NEW r \in SvRequests, RunNext(r)
  PROVE  SvInvariant'
<1> DEFINE record == [svStore[r] EXCEPT !.runs = svRec[r].runs, !.bound = svRec[r].bound]
           at == IF svStore[r].status = "accepted" THEN "picked" ELSE "ended"
<1>1. /\ svPending # <<>> /\ r = Head(svPending) /\ svPending' = Tail(svPending)
      /\ svRec' = [svRec EXCEPT ![r] = record] /\ svAt' = [svAt EXCEPT ![r] = at]
      /\ UNCHANGED <<svHost, svStore, svCancel, svAdapter, svTool>>
  BY DEF RunNext, Hold, Goto
<1>2. svAt[r] = "queued"
  <2>1. svPending \in Seq(SvRequests) /\ \A i \in DOMAIN svPending : svAt[svPending[i]] = "queued"
    BY DEF SvInvariant, PendingHolds
  <2>2. 1 \in DOMAIN svPending /\ Head(svPending) = svPending[1]
    BY <1>1, <2>1
  <2> QED
    BY <1>1, <2>1, <2>2
<1>3. svRec[r] \in SvRecords /\ svStore[r] \in SvRecords /\ RequestHolds("queued", svStore[r], svRec[r], svCancel[r])
  BY <1>2, RequestTyped
<1>4. record \in SvRecords /\ record.status = svStore[r].status /\ record.attempts = svRec[r].attempts
      /\ record.guardrail = svRec[r].guardrail /\ record.runs = svRec[r].runs
  BY <1>3 DEF SvRecords, RequestHolds, RunsHold
<1>5. svRec[r].runs \in Nat /\ svRec[r].attempts \in Nat /\ svRec[r].guardrail \in Nat
  BY <1>3 DEF SvRecords
<1>6. at \in SvPlaces \ {"queued"}
  BY DEF SvPlaces, SvOver
<1>7. RequestHolds(at, svStore[r], record, svCancel[r])
  BY <1>3, <1>4, <1>5, SvBounds DEF RequestHolds, StatusHolds, RunsHold, Allowed, SvWaiting, SvLive, SvOver
<1> HIDE DEF record, at
<1>8. PendingHolds'
  BY <1>1, <1>6, PendingShrinks
<1> QED
  BY <1>1, <1>3, <1>4, <1>6, <1>7, <1>8, RequestTyped, TurnHolds

-----------------------------------------------------------------------------
\* A record with another status.
LEMMA StatusOf ==
  ASSUME NEW record \in SvRecords, NEW status \in SvStatuses
  PROVE  LET after == [record EXCEPT !.status = status]
         IN  /\ after \in SvRecords /\ after.status = status /\ after.attempts = record.attempts
             /\ after.guardrail = record.guardrail /\ after.runs = record.runs /\ after.decision = record.decision
BY DEF SvRecords

\* The counts of a record.
LEMMA CountsTyped ==
  ASSUME NEW record \in SvRecords
  PROVE  record.runs \in Nat /\ record.attempts \in Nat /\ record.guardrail \in Nat
BY DEF SvRecords

(* A call that goes on with what it holds. *)
LEMMA OnlyGoes ==
  ASSUME SvInvariant, NEW r \in SvRequests, NEW at \in SvPlaces \ {"queued"}, svAt[r] # "queued",
         svAt' = [svAt EXCEPT ![r] = at], UNCHANGED <<svHost, svStore, svPending, svRec, svCancel, svAdapter, svTool>>,
         RequestHolds(at, svStore[r], svRec[r], svCancel[r])
  PROVE  SvInvariant'
<1>1. PendingHolds'
  BY PendingRests
<1> QED
  BY <1>1, RequestTyped, TurnHolds

(* A call that ends with a record it writes. *)
LEMMA EndsWith ==
  ASSUME SvInvariant, NEW r \in SvRequests, svAt[r] \in SvLive \cup {"picked"},
         NEW stored \in SvRecords, NEW record \in SvRecords, svAt' = [svAt EXCEPT ![r] = "ended"],
         svStore' = [svStore EXCEPT ![r] = stored], svRec' = [svRec EXCEPT ![r] = record],
         stored.status \notin {"accepted", "running"}, record.runs = svRec[r].runs,
         UNCHANGED <<svHost, svPending, svCancel, svAdapter, svTool>>
  PROVE  SvInvariant'
<1>1. svRec[r] \in SvRecords /\ RequestHolds(svAt[r], svStore[r], svRec[r], svCancel[r])
  BY RequestTyped
<1>2. svRec[r].runs \in Nat /\ svRec[r].attempts \in Nat /\ svRec[r].guardrail \in Nat
  BY <1>1, CountsTyped
<1>3. RequestHolds("ended", stored, record, svCancel[r])
  BY <1>1, <1>2, SvBounds DEF RequestHolds, StatusHolds, RunsHold, Allowed, SvWaiting, SvLive, SvOver
<1>4. "ended" \in SvPlaces \ {"queued"} /\ svAt[r] # "queued"
  BY DEF SvPlaces, SvLive, SvOver
<1>5. PendingHolds'
  BY <1>4, PendingRests
<1> QED
  BY <1>3, <1>4, <1>5, TurnHolds

\* Reading a request again before it is executed keeps the invariant.
LEMMA RevalidateHolds ==
  ASSUME SvInvariant, NEW r \in SvRequests, Revalidate(r)
  PROVE  SvInvariant'
<1>1. svAt[r] = "picked" /\ UNCHANGED <<svHost, svPending, svCancel, svAdapter, svTool>>
  BY DEF Revalidate
<1>2. svRec[r] \in SvRecords /\ RequestHolds("picked", svStore[r], svRec[r], svCancel[r])
  BY <1>1, RequestTyped
<1>3. CASE StillAuthorized(svRec[r])
  <2>1. svAt' = [svAt EXCEPT ![r] = "executing"] /\ UNCHANGED <<svStore, svRec>>
    BY <1>3 DEF Revalidate, Goto
  <2>2. RequestHolds("executing", svStore[r], svRec[r], svCancel[r])
    BY <1>2 DEF RequestHolds, StatusHolds, RunsHold, SvWaiting, SvLive, SvOver
  <2>3. "executing" \in SvPlaces \ {"queued"}
    BY DEF SvPlaces
  <2> QED
    BY <1>1, <2>1, <2>2, <2>3, OnlyGoes
<1>4. CASE ~StillAuthorized(svRec[r])
  <2> DEFINE record == [svRec[r] EXCEPT !.status = "rejected"]
  <2>1. svAt' = [svAt EXCEPT ![r] = "ended"] /\ svStore' = [svStore EXCEPT ![r] = record]
        /\ svRec' = [svRec EXCEPT ![r] = record]
    BY <1>4 DEF Revalidate, Goto, Hold, Put
  <2>2. record \in SvRecords /\ record.status = "rejected" /\ record.runs = svRec[r].runs
    BY <1>2, StatusOf DEF SvStatuses, FinalStatus
  <2> HIDE DEF record
  <2> QED
    BY <1>1, <2>1, <2>2, EndsWith
<1> QED
  BY <1>3, <1>4

\* Executing keeps the invariant: one of the attempts that are left is taken.
LEMMA ExecuteHolds ==
  ASSUME SvInvariant, NEW r \in SvRequests, Execute(r)
  PROVE  SvInvariant'
<1> DEFINE record == [svRec[r] EXCEPT !.status = "running", !.attempts = @ + 1, !.aborted = FALSE]
           at == IF svRec[r].bound THEN "adapted" ELSE "materializing"
<1>1. /\ svAt[r] = "executing" /\ UNCHANGED <<svHost, svPending, svCancel, svAdapter, svTool>>
      /\ svAt' = [svAt EXCEPT ![r] = at] /\ svStore' = [svStore EXCEPT ![r] = record]
      /\ svRec' = [svRec EXCEPT ![r] = record]
  BY DEF Execute, Goto, Hold, Put
<1>2. svRec[r] \in SvRecords /\ RequestHolds("executing", svStore[r], svRec[r], svCancel[r])
  BY <1>1, RequestTyped
<1>3. /\ record \in SvRecords /\ record.status = "running" /\ record.attempts = svRec[r].attempts + 1
      /\ record.guardrail = svRec[r].guardrail /\ record.runs = svRec[r].runs
  <2> DEFINE tried == svRec[r].attempts + 1
  <2>1. tried \in Nat /\ "running" \in SvStatuses
    BY <1>2, CountsTyped DEF SvStatuses
  <2>2. record = [svRec[r] EXCEPT !.status = "running", !.attempts = tried, !.aborted = FALSE]
    BY <1>2
  <2> HIDE DEF tried, record
  <2>3. record \in SvRecords /\ record.attempts = tried /\ record.status = "running"
        /\ record.guardrail = svRec[r].guardrail /\ record.runs = svRec[r].runs
    BY <1>2, <2>1, <2>2 DEF SvRecords
  <2> QED
    BY <2>3 DEF tried
<1>4. at \in {"adapted", "materializing"} /\ at \in SvPlaces \ {"queued"}
  BY DEF SvPlaces, SvLive
<1> HIDE DEF record, at
<1>5. RequestHolds(at, record, record, svCancel[r])
  BY <1>2, <1>3, <1>4, CountsTyped, SvBounds DEF RequestHolds, StatusHolds, RunsHold, Allowed, SvWaiting, SvLive, SvOver
<1>6. PendingHolds'
  BY <1>1, <1>4, PendingRests
<1> QED
  BY <1>1, <1>3, <1>4, <1>5, <1>6, TurnHolds

\* Putting a request back keeps the invariant: it is queued once again.
LEMMA RequeueHolds ==
  ASSUME SvInvariant, NEW r \in SvRequests, Requeue(r)
  PROVE  SvInvariant'
<1>1. /\ svAt[r] = "requeue" /\ svAt' = [svAt EXCEPT ![r] = "queued"] /\ svPending' = Append(svPending, r)
      /\ UNCHANGED <<svHost, svStore, svRec, svCancel, svAdapter, svTool>>
  BY DEF Requeue, QueuedAgain, Goto
<1>2. RequestHolds("queued", svStore[r], svRec[r], svCancel[r])
  BY <1>1, RequestTyped DEF RequestHolds, StatusHolds, RunsHold, SvWaiting, SvLive, SvOver
<1>3. "queued" \in SvPlaces
  BY DEF SvPlaces
<1>4. PendingHolds'
  BY <1>1, PendingGrows
<1> QED
  BY <1>1, <1>2, <1>3, <1>4, RequestTyped, TurnHolds

\* Materializing an adapter keeps the invariant: a cached kind is built once.
LEMMA MaterializeHolds ==
  ASSUME SvInvariant, NEW r \in SvRequests, Materialize(r)
  PROVE  SvInvariant'
<1>1. svAt[r] = "materializing" /\ UNCHANGED <<svHost, svPending, svCancel, svTool>>
  BY DEF Materialize
<1>2. CASE Failed(r, svRec[r]) /\ UNCHANGED svAdapter
  BY <1>1, <1>2, FailedHolds DEF SvLive
<1>3. CASE /\ svAdapter' = IF CacheMisses
                          THEN [state |-> IF svHost.cached THEN "building" ELSE "none",
                                created |-> IF svHost.cached THEN svAdapter.created + 1 ELSE 0]
                          ELSE svAdapter
           /\ Goto(r, "building") /\ UNCHANGED <<svStore, svRec>>
  <2>1. svAdapter' \in [state : {"none", "building", "ready", "failed"}, created : {0, 1}] /\ AdapterHolds'
    BY <1>1, <1>3 DEF SvInvariant, SvTypes, AdapterHolds, CacheMisses
  <2>2. svAt' = [svAt EXCEPT ![r] = "building"]
    BY <1>3 DEF Goto
  <2>3. RequestHolds("building", svStore[r], svRec[r], svCancel[r])
    BY <1>1, RequestTyped DEF RequestHolds, StatusHolds, RunsHold, SvWaiting, SvLive, SvOver
  <2>4. "building" \in SvPlaces \ {"queued"}
    BY DEF SvPlaces, SvLive
  <2>5. PendingHolds'
    BY <1>1, <2>2, <2>4, PendingRests
  <2>6. SvTypes'
    BY <1>1, <1>3, <2>1, <2>2, <2>4 DEF SvInvariant, SvTypes
  <2>7. RequestsHold'
    <3>1. ASSUME NEW q \in SvRequests PROVE RequestHolds(svAt'[q], svStore'[q], svRec'[q], svCancel'[q])
      BY <1>1, <1>3, <2>2, <2>3 DEF SvInvariant, SvTypes, RequestsHold
    <3> QED
      BY <3>1 DEF RequestsHold
  <2> QED
    BY <2>1, <2>5, <2>6, <2>7 DEF SvInvariant
<1> QED
  BY <1>2, <1>3 DEF Materialize

\* Having the adapter keeps the invariant.
LEMMA AdaptedHolds ==
  ASSUME SvInvariant, NEW r \in SvRequests, Adapted(r)
  PROVE  SvInvariant'
<1>1. svAt[r] = "building" /\ UNCHANGED <<svHost, svPending, svCancel, svAdapter, svTool>>
  BY DEF Adapted
<1>2. CASE Failed(r, svRec[r])
  BY <1>1, <1>2, FailedHolds DEF SvLive
<1>3. CASE Hold(r, [svRec[r] EXCEPT !.bound = TRUE]) /\ Goto(r, "adapted") /\ UNCHANGED svStore
  <2> DEFINE record == [svRec[r] EXCEPT !.bound = TRUE]
  <2>1. svAt' = [svAt EXCEPT ![r] = "adapted"] /\ svRec' = [svRec EXCEPT ![r] = record] /\ svStore' = svStore
    BY <1>3 DEF Hold, Goto
  <2>2. svRec[r] \in SvRecords /\ RequestHolds("building", svStore[r], svRec[r], svCancel[r])
    BY <1>1, RequestTyped
  <2>3. record \in SvRecords /\ record.attempts = svRec[r].attempts /\ record.guardrail = svRec[r].guardrail
        /\ record.runs = svRec[r].runs
    BY <2>2 DEF SvRecords
  <2> HIDE DEF record
  <2>4. RequestHolds("adapted", svStore[r], record, svCancel[r])
    BY <2>2, <2>3 DEF RequestHolds, StatusHolds, RunsHold, Allowed, SvWaiting, SvLive, SvOver
  <2>5. "adapted" \in SvPlaces \ {"queued"}
    BY DEF SvPlaces, SvLive
  <2>6. PendingHolds'
    BY <1>1, <2>1, <2>5, PendingRests
  <2> QED
    BY <1>1, <2>1, <2>3, <2>4, <2>5, <2>6, RequestTyped, TurnHolds
<1> QED
  BY <1>2, <1>3 DEF Adapted

\* Authorizing an attempt keeps the invariant, whatever was decided.
LEMMA AuthorizeHolds ==
  ASSUME SvInvariant, NEW r \in SvRequests, Authorize(r)
  PROVE  SvInvariant'
<1>1. PICK decision \in Decisions \cup {Refused} :
          LET record == [svRec[r] EXCEPT !.status = StatusFor(decision, "running"), !.decision = decision]
          IN  /\ Hold(r, [record EXCEPT !.aborted = FALSE]) /\ Put(r, record)
              /\ Goto(r, IF record.status = "running" THEN "attempt" ELSE "ended")
  BY DEF Authorize
<1>2. svAt[r] \in {"adapted", "retrying"} /\ UNCHANGED <<svHost, svPending, svCancel, svAdapter, svTool>>
  BY DEF Authorize
<1> DEFINE status == StatusFor(decision, "running")
           stored == [svRec[r] EXCEPT !.status = status, !.decision = decision]
           record == [stored EXCEPT !.aborted = FALSE]
           at == IF stored.status = "running" THEN "attempt" ELSE "ended"
<1>3. decision \in [outcome : Outcomes, until : {"none", "soon", "unparseable"}]
  BY DecisionsTyped
<1>4. status \in {"running", "rejected", "confirmation-required"} /\ status \in SvStatuses
  BY <1>3 DEF StatusFor, Outcomes, SvStatuses, FinalStatus
<1>5. svRec[r] \in SvRecords /\ RequestHolds(svAt[r], svStore[r], svRec[r], svCancel[r])
  BY <1>2, RequestTyped
<1>6. /\ svRec' = [svRec EXCEPT ![r] = record] /\ svStore' = [svStore EXCEPT ![r] = stored]
      /\ svAt' = [svAt EXCEPT ![r] = at]
  BY <1>1 DEF Hold, Put, Goto
<1> HIDE DEF status
<1>7. /\ stored \in SvRecords /\ stored.status = status /\ stored.attempts = svRec[r].attempts
      /\ stored.guardrail = svRec[r].guardrail /\ stored.runs = svRec[r].runs
  BY <1>3, <1>4, <1>5 DEF SvRecords
<1> HIDE DEF stored
<1>8. /\ record \in SvRecords /\ record.attempts = svRec[r].attempts
      /\ record.guardrail = svRec[r].guardrail /\ record.runs = svRec[r].runs
  BY <1>7 DEF SvRecords
<1>9. CASE status = "running"
  <2>1. at = "attempt" /\ "attempt" \in SvPlaces \ {"queued"} /\ svAt[r] # "queued"
    BY <1>2, <1>7, <1>9 DEF SvPlaces, SvLive
  <2> HIDE DEF record, at
  <2>2. RequestHolds("attempt", stored, record, svCancel[r])
    BY <1>2, <1>5, <1>7, <1>8, <1>9 DEF RequestHolds, StatusHolds, RunsHold, Allowed, SvWaiting, SvLive, SvOver
  <2>3. PendingHolds'
    BY <1>2, <1>6, <2>1, PendingRests
  <2> QED
    BY <1>2, <1>6, <1>7, <1>8, <2>1, <2>2, <2>3, TurnHolds
<1>10. CASE status # "running"
  <2>1. at = "ended" /\ svAt[r] \in SvLive
    BY <1>2, <1>7, <1>10 DEF SvLive
  <2> HIDE DEF record, at
  <2> QED
    BY <1>2, <1>4, <1>6, <1>7, <1>8, <1>10, <2>1, EndsWith
<1> QED
  BY <1>9, <1>10

\* Starting the adapter keeps the invariant: the run was allowed.
LEMMA AdapterStartsHolds ==
  ASSUME SvInvariant, NEW r \in SvRequests, AdapterStarts(r)
  PROVE  SvInvariant'
<1>1. svAt[r] = "attempt" /\ UNCHANGED <<svHost, svPending, svCancel, svAdapter, svTool>>
  BY DEF AdapterStarts
<1>2. svRec[r] \in SvRecords /\ RequestHolds("attempt", svStore[r], svRec[r], svCancel[r])
  BY <1>1, RequestTyped
<1>3. CASE StillAuthorized(svRec[r])
  <2> DEFINE ran == svRec[r].runs + 1
             record == [svRec[r] EXCEPT !.runs = ran]
  <2>1. svAt' = [svAt EXCEPT ![r] = "running"] /\ svStore' = svStore /\ svRec' = [svRec EXCEPT ![r] = record]
    BY <1>2, <1>3 DEF AdapterStarts, Goto, Hold
  <2>2. ran \in Nat
    BY <1>2, CountsTyped
  <2> HIDE DEF ran
  <2>3. record \in SvRecords /\ record.attempts = svRec[r].attempts /\ record.guardrail = svRec[r].guardrail
        /\ record.runs = ran
    BY <1>2, <2>2 DEF SvRecords
  <2> HIDE DEF record
  <2>4. RequestHolds("running", svStore[r], record, svCancel[r])
    BY <1>2, <2>3, CountsTyped DEF ran, RequestHolds, StatusHolds, RunsHold, Allowed, SvWaiting, SvLive, SvOver
  <2>5. "running" \in SvPlaces \ {"queued"}
    BY DEF SvPlaces, SvLive
  <2>6. PendingHolds'
    BY <1>1, <2>1, <2>5, PendingRests
  <2> QED
    BY <1>1, <2>1, <2>3, <2>4, <2>5, <2>6, RequestTyped, TurnHolds
<1>4. CASE ~StillAuthorized(svRec[r])
  <2> DEFINE record == [svRec[r] EXCEPT !.status = "rejected"]
  <2>1. svAt' = [svAt EXCEPT ![r] = "ended"] /\ svStore' = [svStore EXCEPT ![r] = record]
        /\ svRec' = [svRec EXCEPT ![r] = record]
    BY <1>4 DEF AdapterStarts, Goto, Hold, Put
  <2>2. record \in SvRecords /\ record.status = "rejected" /\ record.runs = svRec[r].runs
    BY <1>2, StatusOf DEF SvStatuses, FinalStatus
  <2> HIDE DEF record
  <2> QED
    BY <1>1, <2>1, <2>2, EndsWith DEF SvLive
<1> QED
  BY <1>3, <1>4

\* An answer of the adapter keeps the invariant, be it a failure or one nobody can read.
LEMMA AnswerHolds ==
  ASSUME SvInvariant, NEW r \in SvRequests, AdapterThrows(r) \/ AdapterAnswers(r) \/ InvokeReturns(r) \/ InputRefused(r)
  PROVE  SvInvariant'
<1>1. CASE AdapterThrows(r)
  BY <1>1, FailedHolds DEF AdapterThrows, SvLive
<1>2. CASE AdapterAnswers(r)
  <2>1. svAt[r] = "running" /\ svAt' = [svAt EXCEPT ![r] = "validating"]
        /\ UNCHANGED <<svHost, svStore, svPending, svRec, svCancel, svAdapter, svTool>>
    BY <1>2 DEF AdapterAnswers, Goto
  <2>2. RequestHolds("validating", svStore[r], svRec[r], svCancel[r])
    BY <2>1, RequestTyped DEF RequestHolds, StatusHolds, RunsHold, Allowed, SvWaiting, SvLive, SvOver
  <2>3. "validating" \in SvPlaces \ {"queued"}
    BY DEF SvPlaces, SvLive
  <2> QED
    BY <2>1, <2>2, <2>3, OnlyGoes
<1>3. CASE InvokeReturns(r) \/ InputRefused(r)
  <2>1. PICK answer \in {"outcome", "settlement", "failure-settlement", "throws"} :
            svAt' = [svAt EXCEPT ![r] = answer]
    BY <1>3 DEF InvokeReturns, InputRefused, Returned, Goto
  <2>2. svAt[r] \in {"ended", "new"} /\ UNCHANGED <<svHost, svStore, svPending, svRec, svCancel, svAdapter, svTool>>
    BY <1>3 DEF InvokeReturns, InputRefused
  <2>3. RequestHolds(svAt[r], svStore[r], svRec[r], svCancel[r])
    BY RequestTyped
  <2>4. answer \in SvOver /\ answer \in SvPlaces \ {"queued"} /\ answer \notin SvWaiting \cup SvLive
        /\ answer \notin {"absent", "new", "creating"}
    BY DEF SvPlaces, SvOver, SvWaiting, SvLive
  <2>5. RequestHolds(answer, svStore[r], svRec[r], svCancel[r])
    <3>1. NoRecord.status = "none" /\ NoRecord.runs = 0
      BY DEF NoRecord
    <3>2. CASE svAt[r] = "ended"
      BY <2>3, <2>4, <3>2 DEF RequestHolds, StatusHolds, RunsHold, SvWaiting, SvOver, SvLive
    <3>3. CASE svAt[r] = "new"
      BY <2>3, <2>4, <3>1, <3>3, SvBounds DEF RequestHolds, StatusHolds, RunsHold, SvWaiting, SvLive
    <3> QED
      BY <2>2, <3>2, <3>3
  <2> QED
    BY <2>1, <2>2, <2>4, <2>5, OnlyGoes
<1> QED
  BY <1>1, <1>2, <1>3

\* Validating a response keeps the invariant: a violation is counted by itself.
LEMMA ResponseHolds ==
  ASSUME SvInvariant, NEW r \in SvRequests, ResponseValid(r) \/ ResponseViolates(r)
  PROVE  SvInvariant'
<1>1. svAt[r] = "validating" /\ UNCHANGED <<svHost, svPending, svCancel, svAdapter, svTool>>
  BY DEF ResponseValid, ResponseViolates
<1>2. svRec[r] \in SvRecords /\ RequestHolds("validating", svStore[r], svRec[r], svCancel[r])
  BY <1>1, RequestTyped
<1> DEFINE counted == svRec[r].guardrail + 1
<1>3. counted \in Nat /\ counted = svRec[r].guardrail + 1
  BY <1>2, CountsTyped
<1> HIDE DEF counted
<1>4. CASE ResponseValid(r)
  <2> DEFINE record == [svRec[r] EXCEPT !.status = "completed"]
  <2>1. svAt' = [svAt EXCEPT ![r] = "ended"] /\ svStore' = [svStore EXCEPT ![r] = record]
        /\ svRec' = [svRec EXCEPT ![r] = record]
    BY <1>4 DEF ResponseValid, Goto, Hold, Put
  <2>2. record \in SvRecords /\ record.status = "completed" /\ record.runs = svRec[r].runs
    BY <1>2, StatusOf DEF SvStatuses, FinalStatus
  <2> HIDE DEF record
  <2> QED
    BY <1>1, <2>1, <2>2, EndsWith DEF SvLive
<1>5. CASE ResponseViolates(r) /\ svHost.retries /\ counted < SvCeiling
  <2> DEFINE record == [svRec[r] EXCEPT !.guardrail = counted]
  <2>1. svAt' = [svAt EXCEPT ![r] = "retrying"] /\ svStore' = svStore /\ svRec' = [svRec EXCEPT ![r] = record]
    BY <1>2, <1>5 DEF counted, ResponseViolates, CountViolation, Goto, Hold
  <2>2. record \in SvRecords /\ record.attempts = svRec[r].attempts /\ record.guardrail = counted
        /\ record.runs = svRec[r].runs
    BY <1>2, <1>3 DEF SvRecords
  <2> HIDE DEF record
  <2>3. RequestHolds("retrying", svStore[r], record, svCancel[r])
    BY <1>2, <1>3, <1>5, <2>2, CountsTyped, SvBounds
       DEF RequestHolds, StatusHolds, RunsHold, Allowed, SvWaiting, SvLive, SvOver
  <2>4. "retrying" \in SvPlaces \ {"queued"}
    BY DEF SvPlaces, SvLive
  <2>5. PendingHolds'
    BY <1>1, <2>1, <2>4, PendingRests
  <2> QED
    BY <1>1, <2>1, <2>2, <2>3, <2>4, <2>5, RequestTyped, TurnHolds
<1>6. CASE ResponseViolates(r) /\ ~(svHost.retries /\ counted < SvCeiling)
  <2> DEFINE record == [svRec[r] EXCEPT !.status = "failed", !.guardrail = counted]
  <2>1. svAt' = [svAt EXCEPT ![r] = "ended"] /\ svStore' = [svStore EXCEPT ![r] = record]
        /\ svRec' = [svRec EXCEPT ![r] = record]
    BY <1>6 DEF counted, ResponseViolates, Goto, Hold, Put
  <2>2. record \in SvRecords /\ record.status = "failed" /\ record.runs = svRec[r].runs
    BY <1>2, <1>3 DEF SvRecords, SvStatuses, FinalStatus
  <2> HIDE DEF record
  <2> QED
    BY <1>1, <2>1, <2>2, EndsWith DEF SvLive
<1> QED
  BY <1>4, <1>5, <1>6

\* Cancelling keeps the invariant, although it reads the store before it writes it.
LEMMA CancelHolds ==
  ASSUME SvInvariant, NEW r \in SvRequests, CancelReads(r) \/ CancelWrites(r)
  PROVE  SvInvariant'
<1>1. svRec[r] \in SvRecords /\ svStore[r] \in SvRecords /\ RequestHolds(svAt[r], svStore[r], svRec[r], svCancel[r])
  BY RequestTyped
<1>2. NoRecord.status = "none"
  BY DEF NoRecord
<1>3. UNCHANGED <<svHost, svPending, svAt, svAdapter, svTool>>
  BY DEF CancelReads, CancelWrites
<1>4. PendingHolds' /\ AdapterHolds'
  BY <1>3 DEF SvInvariant, PendingHolds, AdapterHolds
<1>5. CASE CancelReads(r)
  <2>1. svCancel' = [svCancel EXCEPT ![r] = "read"] /\ UNCHANGED <<svStore, svRec>> /\ svStore[r].status # "none"
    BY <1>5 DEF CancelReads
  <2>2. RequestHolds(svAt[r], svStore[r], svRec[r], "read")
    BY <1>1, <1>2, <2>1 DEF RequestHolds, StatusHolds
  <2>3. SvTypes'
    BY <1>3, <2>1 DEF SvInvariant, SvTypes
  <2>4. RequestsHold'
    BY <1>3, <2>1, <2>2 DEF SvInvariant, SvTypes, RequestsHold
  <2> QED
    BY <1>4, <2>3, <2>4 DEF SvInvariant
<1>6. CASE CancelWrites(r)
  <2> DEFINE aborted == svRec[r].aborted \/ svAt[r] \in {"attempt", "running"}
             record == [svRec[r] EXCEPT !.aborted = aborted]
             stored == [svStore[r] EXCEPT !.status = "cancelled"]
  <2>1. /\ svCancel' = [svCancel EXCEPT ![r] = "written"] /\ svCancel[r] = "read"
        /\ svRec' = [svRec EXCEPT ![r] = record] /\ svStore' = [svStore EXCEPT ![r] = stored]
    BY <1>6 DEF CancelWrites, Hold, Put
  <2>2. aborted \in BOOLEAN
    OBVIOUS
  <2> HIDE DEF aborted
  <2>3. /\ record \in SvRecords /\ record.attempts = svRec[r].attempts
        /\ record.guardrail = svRec[r].guardrail /\ record.runs = svRec[r].runs
    BY <1>1, <2>2 DEF SvRecords
  <2>4. stored \in SvRecords /\ stored.status = "cancelled" /\ stored.attempts = svStore[r].attempts
        /\ stored.guardrail = svStore[r].guardrail
    BY <1>1, StatusOf DEF SvStatuses, FinalStatus
  <2> HIDE DEF record, stored
  <2>5. svAt[r] \notin {"absent", "new", "creating"}
    BY <1>1, <2>1 DEF RequestHolds, StatusHolds
  <2>6. RequestHolds(svAt[r], stored, record, "written")
    BY <1>1, <2>3, <2>4, <2>5 DEF RequestHolds, StatusHolds, RunsHold, Allowed
  <2>7. SvTypes'
    BY <1>3, <2>1, <2>3, <2>4 DEF SvInvariant, SvTypes
  <2>8. RequestsHold'
    BY <1>3, <2>1, <2>6 DEF SvInvariant, SvTypes, RequestsHold
  <2> QED
    BY <1>4, <2>7, <2>8 DEF SvInvariant
<1> QED
  BY <1>5, <1>6

\* Tools, the kill switch, deadlines and a built adapter keep the invariant.
LEMMA OthersHold ==
  ASSUME SvInvariant,
         \/ AdapterBuilt \/ KillSwitchThrown \/ DeadlinesPass
         \/ \E r \in SvRequests : ToolCalled(r) \/ ToolDecided(r)
  PROVE  SvInvariant'
<1>1. UNCHANGED <<svHost, svStore, svPending, svAt, svRec, svCancel>>
  BY DEF AdapterBuilt, KillSwitchThrown, DeadlinesPass, ToolCalled, ToolDecided
<1>2. PendingHolds' /\ RequestsHold'
  BY <1>1 DEF SvInvariant, PendingHolds, RequestsHold
<1>3. CASE AdapterBuilt
  <2>1. svTool' = svTool /\ svAdapter' \in [state : {"none", "building", "ready", "failed"}, created : {0, 1}]
        /\ AdapterHolds'
    BY <1>3 DEF AdapterBuilt, SvInvariant, SvTypes, AdapterHolds
  <2> QED
    BY <1>1, <1>2, <2>1 DEF SvInvariant, SvTypes
<1>4. CASE KillSwitchThrown \/ DeadlinesPass
  BY <1>1, <1>2, <1>4 DEF KillSwitchThrown, DeadlinesPass, SvInvariant, SvTypes, AdapterHolds
<1>5. ASSUME NEW r \in SvRequests, ToolCalled(r) \/ ToolDecided(r)
      PROVE  SvInvariant'
  <2>1. svTool' \in [SvRequests -> SvTools]
    <3>1. CASE ToolCalled(r)
      <4>1. PICK attempt \in 1..svRec[r].runs : \E state \in {"refused", "asking"} :
                svTool' = [svTool EXCEPT ![r] = [attempt |-> attempt, state |-> state]]
        BY <3>1 DEF ToolCalled
      <4>2. attempt \in Nat
        BY RequestTyped, CountsTyped
      <4> QED
        BY <4>1, <4>2 DEF SvInvariant, SvTypes, SvTools
    <3>2. CASE ToolDecided(r)
      <4>1. \E state \in {"refused", "handled"} : svTool' = [svTool EXCEPT ![r].state = state]
        BY <3>2 DEF ToolDecided
      <4> QED
        BY <4>1 DEF SvInvariant, SvTypes, SvTools
    <3> QED
      BY <1>5, <3>1, <3>2
  <2>2. svAdapter' = svAdapter
    BY <1>5 DEF ToolCalled, ToolDecided
  <2> QED
    BY <1>1, <1>2, <2>1, <2>2 DEF SvInvariant, SvTypes, AdapterHolds
<1> QED
  BY <1>3, <1>4, <1>5

\* No step of the host, an adapter, a tool, a clock or a cancel breaks the invariant.
LEMMA SvKept == ASSUME SvInvariant, SvNext PROVE SvInvariant'
<1>1. ASSUME NEW r \in SvRequests, SvProgress(r) PROVE SvInvariant'
  BY <1>1, CreateHolds, RunNextHolds, RevalidateHolds, ExecuteHolds, RequeueHolds, MaterializeHolds, AdaptedHolds,
     AuthorizeHolds, AdapterStartsHolds, AnswerHolds, ResponseHolds DEF SvProgress
<1>2. ASSUME NEW r \in SvRequests, NEW mode \in {"immediate", "queued"}, SvSubmit(r, mode) PROVE SvInvariant'
  BY <1>2, SubmitHolds
<1> QED
  BY <1>1, <1>2, AnswerHolds, CancelHolds, OthersHold DEF SvNext

\* Requests are arranged for, what runs is alive, runs are bounded, and an adapter is created once.
LEMMA SvPromises == SvInvariant => AcceptedIsArranged /\ RunningIsAlive /\ RunsAreBounded /\ OneAdapter
<1> SUFFICES ASSUME SvInvariant PROVE AcceptedIsArranged /\ RunningIsAlive /\ RunsAreBounded /\ OneAdapter
  OBVIOUS
<1>1. ASSUME NEW r \in SvRequests
      PROVE  /\ svAt[r] \in SvPlaces /\ RequestHolds(svAt[r], svStore[r], svRec[r], svCancel[r])
             /\ svRec[r] \in SvRecords
  BY RequestTyped
<1>2. NoRecord.status = "none" /\ NoRecord.runs = 0
  BY DEF NoRecord
<1>3. AcceptedIsArranged
  BY <1>1, <1>2 DEF AcceptedIsArranged, SvInvariant, PendingHolds, RequestHolds, StatusHolds, SvPlaces, SvWaiting
<1>4. RunningIsAlive
  BY <1>1, <1>2 DEF RunningIsAlive, RequestHolds, StatusHolds, SvPlaces, SvWaiting
<1>5. RunsAreBounded
  <2> SUFFICES ASSUME NEW r \in SvRequests PROVE svRec[r].runs <= SvMaxAttempts + SvCeiling - 1
    BY DEF RunsAreBounded
  <2>1. CASE svAt[r] \in {"absent", "new", "creating"} \cup SvOver
    BY <1>1, <1>2, <2>1, SvBounds DEF RequestHolds, RunsHold
  <2>2. CASE svAt[r] \in SvWaiting \cup SvLive
    <3>1. svRec[r].runs <= Allowed(svRec[r]) /\ svRec[r].attempts <= SvMaxAttempts
          /\ svRec[r].guardrail <= SvCeiling - 1
      BY <1>1, <2>2, CountsTyped DEF RequestHolds, RunsHold, Allowed
    <3> QED
      BY <1>1, <3>1, CountsTyped, SvBounds DEF Allowed
  <2> QED
    BY <1>1, <2>1, <2>2 DEF SvPlaces, SvWaiting
<1>6. OneAdapter
  BY DEF OneAdapter, SvInvariant, SvTypes
<1> QED
  BY <1>3, <1>4, <1>5, <1>6

(* The runs of a request grow only where its adapter starts. *)
LEMMA RunsGrow ==
  ASSUME SvInvariant, SvNext, NEW r \in SvRequests
  PROVE  \/ svRec'[r].runs = svRec[r].runs
         \/ AdapterStarts(r) /\ StillAuthorized(svRec[r])
         \/ svAt[r] = "new" /\ svRec'[r].runs = 0
<1>1. svRec[r] \in SvRecords /\ svStore[r] \in SvRecords /\ svRec \in [SvRequests -> SvRecords]
  BY RequestTyped DEF SvInvariant, SvTypes
<1>2. ASSUME NEW q \in SvRequests, NEW mode \in {"immediate", "queued"}, SvSubmit(q, mode)
      PROVE  q = r => (svAt[r] = "new" /\ svRec'[r].runs = 0)
  BY <1>1, <1>2 DEF SvSubmit, Hold, NoRecord
<1>3. ASSUME NEW q \in SvRequests, NEW record, Hold(q, record), record.runs = svRec[q].runs
      PROVE  svRec'[r].runs = svRec[r].runs
  BY <1>1, <1>3 DEF Hold
<1>5. ASSUME NEW q \in SvRequests, CreateRecord(q) \/ RunNext(q) \/ Revalidate(q) \/ Execute(q)
      PROVE  svRec'[r].runs = svRec[r].runs
  <2>1. svRec[q] \in SvRecords /\ svStore[q] \in SvRecords
    BY DEF SvInvariant, SvTypes
  <2>2. CASE CreateRecord(q)
    <3>1. PICK decision : Hold(q, [svRec[q] EXCEPT !.status = StatusFor(decision, "accepted"), !.decision = decision])
      BY <2>2 DEF CreateRecord
    <3>2. [svRec[q] EXCEPT !.status = StatusFor(decision, "accepted"), !.decision = decision].runs = svRec[q].runs
      BY <2>1 DEF SvRecords
    <3> QED
      BY <1>3, <3>1, <3>2
  <2>3. CASE RunNext(q)
    <3>1. [svStore[q] EXCEPT !.runs = svRec[q].runs, !.bound = svRec[q].bound].runs = svRec[q].runs
      BY <2>1 DEF SvRecords
    <3> QED
      BY <1>3, <2>3, <3>1 DEF RunNext
  <2>4. CASE Revalidate(q)
    <3>1. [svRec[q] EXCEPT !.status = "rejected"].runs = svRec[q].runs
      BY <2>1 DEF SvRecords
    <3>2. svRec' = svRec \/ Hold(q, [svRec[q] EXCEPT !.status = "rejected"])
      BY <2>4 DEF Revalidate
    <3> QED
      BY <1>3, <3>1, <3>2
  <2>5. CASE Execute(q)
    <3>1. [svRec[q] EXCEPT !.status = "running", !.attempts = @ + 1, !.aborted = FALSE].runs = svRec[q].runs
      BY <2>1 DEF SvRecords
    <3> QED
      BY <1>3, <2>5, <3>1 DEF Execute
  <2> QED
    BY <1>5, <2>2, <2>3, <2>4, <2>5
<1>6. ASSUME NEW q \in SvRequests, Failed(q, svRec[q]) PROVE svRec'[r].runs = svRec[r].runs
  <2> DEFINE retry == svRec[q].mode = "queued" /\ svRec[q].attempts < SvMaxAttempts
             status == IF retry THEN "accepted" ELSE IF svRec[q].mode = "queued" THEN "dead-lettered" ELSE "failed"
  <2>1. Hold(q, [svRec[q] EXCEPT !.status = status])
    BY <1>6 DEF Failed
  <2> HIDE DEF status
  <2>2. [svRec[q] EXCEPT !.status = status].runs = svRec[q].runs
    BY DEF SvInvariant, SvTypes, SvRecords
  <2> QED
    BY <1>3, <2>1, <2>2
<1>7. ASSUME NEW q \in SvRequests, Requeue(q) \/ Materialize(q) \/ Adapted(q) \/ AdapterThrows(q) \/ AdapterAnswers(q)
                                   \/ InvokeReturns(q) \/ InputRefused(q)
      PROVE  svRec'[r].runs = svRec[r].runs
  <2>1. CASE svRec' = svRec
    BY <2>1
  <2>2. CASE Failed(q, svRec[q])
    BY <1>6, <2>2
  <2>3. CASE Hold(q, [svRec[q] EXCEPT !.bound = TRUE])
    <3>1. [svRec[q] EXCEPT !.bound = TRUE].runs = svRec[q].runs
      BY DEF SvInvariant, SvTypes, SvRecords
    <3> QED
      BY <1>3, <2>3, <3>1
  <2> QED
    BY <1>7, <2>1, <2>2, <2>3 DEF Requeue, Materialize, Adapted, AdapterThrows, AdapterAnswers, InvokeReturns, InputRefused
<1>8. ASSUME NEW q \in SvRequests, Authorize(q) PROVE svRec'[r].runs = svRec[r].runs
  <2>1. PICK decision :
            Hold(q, [[svRec[q] EXCEPT !.status = StatusFor(decision, "running"), !.decision = decision] EXCEPT !.aborted = FALSE])
    BY <1>8 DEF Authorize
  <2>2. [[svRec[q] EXCEPT !.status = StatusFor(decision, "running"), !.decision = decision] EXCEPT !.aborted = FALSE].runs
            = svRec[q].runs
    BY DEF SvInvariant, SvTypes, SvRecords
  <2> QED
    BY <1>3, <2>1, <2>2
<1>9. ASSUME NEW q \in SvRequests, AdapterStarts(q)
      PROVE  svRec'[r].runs = svRec[r].runs \/ (q = r /\ StillAuthorized(svRec[r]))
  <2>1. CASE StillAuthorized(svRec[q])
    BY <1>1, <1>9, <2>1 DEF AdapterStarts, Hold
  <2>2. CASE ~StillAuthorized(svRec[q])
    <3>1. [svRec[q] EXCEPT !.status = "rejected"].runs = svRec[q].runs
      BY DEF SvInvariant, SvTypes, SvRecords
    <3> QED
      BY <1>3, <1>9, <2>2, <3>1 DEF AdapterStarts
  <2> QED
    BY <2>1, <2>2
<1>10. ASSUME NEW q \in SvRequests, ResponseValid(q) \/ ResponseViolates(q) PROVE svRec'[r].runs = svRec[r].runs
  <2>1. /\ [svRec[q] EXCEPT !.status = "completed"].runs = svRec[q].runs
        /\ [svRec[q] EXCEPT !.guardrail = @ + 1].runs = svRec[q].runs
        /\ [svRec[q] EXCEPT !.status = "failed", !.guardrail = svRec[q].guardrail + 1].runs = svRec[q].runs
    BY DEF SvInvariant, SvTypes, SvRecords
  <2>2. \/ Hold(q, [svRec[q] EXCEPT !.status = "completed"])
        \/ Hold(q, [svRec[q] EXCEPT !.guardrail = @ + 1])
        \/ Hold(q, [svRec[q] EXCEPT !.status = "failed", !.guardrail = svRec[q].guardrail + 1])
    BY <1>10 DEF ResponseValid, ResponseViolates, CountViolation
  <2> QED
    BY <1>3, <2>1, <2>2
<1>11. ASSUME NEW q \in SvRequests, CancelReads(q) \/ CancelWrites(q) \/ ToolCalled(q) \/ ToolDecided(q)
       PROVE  svRec'[r].runs = svRec[r].runs
  <2>1. [svRec[q] EXCEPT !.aborted = @ \/ svAt[q] \in {"attempt", "running"}].runs = svRec[q].runs
    BY DEF SvInvariant, SvTypes, SvRecords
  <2>2. svRec' = svRec \/ Hold(q, [svRec[q] EXCEPT !.aborted = @ \/ svAt[q] \in {"attempt", "running"}])
    BY <1>11 DEF CancelReads, CancelWrites, ToolCalled, ToolDecided
  <2> QED
    BY <1>3, <2>1, <2>2
<1>12. ASSUME AdapterBuilt \/ KillSwitchThrown \/ DeadlinesPass PROVE svRec'[r].runs = svRec[r].runs
  BY <1>12 DEF AdapterBuilt, KillSwitchThrown, DeadlinesPass
<1>13. ASSUME NEW q \in SvRequests, NEW mode \in {"immediate", "queued"}, SvSubmit(q, mode), q # r
       PROVE  svRec'[r].runs = svRec[r].runs
  BY <1>1, <1>13 DEF SvSubmit, Hold
<1> QED
  BY <1>2, <1>5, <1>7, <1>8, <1>9, <1>10, <1>11, <1>12, <1>13 DEF SvNext, SvProgress

(* What the call of another request does to the store and the place of one. *)
LEMMA OthersStay ==
  ASSUME SvInvariant, NEW r \in SvRequests, NEW q \in SvRequests \ {r},
         \/ SvProgress(q) \/ InputRefused(q) \/ \E mode \in {"immediate", "queued"} : SvSubmit(q, mode)
         \/ CancelReads(q) \/ CancelWrites(q) \/ ToolCalled(q) \/ ToolDecided(q)
  PROVE  svStore'[r] = svStore[r] /\ svAt'[r] = svAt[r]
<1>1. svStore' = svStore \/ \E record : Put(q, record)
  BY DEF SvProgress, SvSubmit, InputRefused, CreateRecord, RunNext, Revalidate, Execute, Requeue, Materialize, Adapted,
     Authorize, AdapterStarts, AdapterThrows, AdapterAnswers, ResponseValid, ResponseViolates, InvokeReturns, Failed,
     ToolCalled, ToolDecided, CancelReads, CancelWrites
<1>2. svAt' = svAt \/ \E label : Goto(q, label)
  BY DEF SvProgress, SvSubmit, InputRefused, CreateRecord, RunNext, Revalidate, Execute, Requeue, Materialize, Adapted,
     Authorize, AdapterStarts, AdapterThrows, AdapterAnswers, ResponseValid, ResponseViolates, InvokeReturns, Failed,
     ToolCalled, ToolDecided, CancelReads, CancelWrites
<1> QED
  BY <1>1, <1>2 DEF Put, Goto, SvInvariant, SvTypes

\* Adapters start authorized, final requests never run, tools end with their attempt, and a cancel stands.
LEMMA SvSteps ==
  ASSUME SvInvariant, SvNext
  PROVE  StartsAuthorized /\ FinalNeverRuns /\ ToolsEndWithTheirAttempt /\ CancelStands
<1>1. \A r \in SvRequests : svRec[r].runs \in Nat
  BY RequestTyped, CountsTyped
<1>2. StartsAuthorized
  <2> SUFFICES ASSUME NEW r \in SvRequests, svRec'[r].runs > svRec[r].runs
               PROVE  /\ ~svWorld.killed
                      /\ svWorld.late => svRec[r].snapshot # "expiring" /\ (svHost.policy => svRec[r].decision.until = "none")
    BY DEF StartsAuthorized
  <2>1. StillAuthorized(svRec[r])
    <3>1. svRec[r].runs \in Nat
      BY <1>1
    <3>2. svRec'[r].runs # svRec[r].runs /\ ~(svRec'[r].runs = 0)
      BY <3>1
    <3> QED
      BY <3>2, RunsGrow
  <2>2. svRec[r].decision.until \in {"none", "soon", "unparseable"}
    BY RequestTyped DEF SvRecords
  <2> QED
    BY <2>1, <2>2 DEF StillAuthorized, RefusedAtOnce, CheckSnapshot, Stale
<1>3. FinalNeverRuns
  <2> SUFFICES ASSUME NEW r \in SvRequests, svStore[r].status \in FinalStatus \ {"cancelled"}
               PROVE  svRec'[r].runs = svRec[r].runs
    BY DEF FinalNeverRuns
  <2>1. RequestHolds(svAt[r], svStore[r], svRec[r], svCancel[r])
    BY RequestTyped
  <2>2. svAt[r] # "new" /\ svAt[r] # "attempt"
    BY <2>1 DEF RequestHolds, StatusHolds, NoRecord, FinalStatus, SvLive
  <2> QED
    BY <2>2, RunsGrow DEF AdapterStarts
<1>4. ToolsEndWithTheirAttempt
  <2> SUFFICES ASSUME NEW r \in SvRequests, svTool[r].state # "handled", svTool'[r].state = "handled"
               PROVE  svAt[r] = "running" /\ svTool[r].attempt = svRec[r].runs /\ ~svRec[r].aborted
    BY DEF ToolsEndWithTheirAttempt
  <2>1. PICK q \in SvRequests : ToolCalled(q) \/ ToolDecided(q)
    BY ZenonT(30) DEF SvNext, SvProgress, SvSubmit, InputRefused, CreateRecord, RunNext, Revalidate, Execute, Requeue, Materialize, Adapted,
       Authorize, AdapterStarts, AdapterThrows, AdapterAnswers, ResponseValid, ResponseViolates, InvokeReturns,
       CancelReads, CancelWrites, AdapterBuilt, KillSwitchThrown, DeadlinesPass
  <2>2. svTool \in [SvRequests -> SvTools]
    BY DEF SvInvariant, SvTypes
  <2>3. ~ToolCalled(q)
    <3> SUFFICES ASSUME ToolCalled(q) PROVE FALSE
      OBVIOUS
    <3>1. PICK attempt \in 1..svRec[q].runs : \E state \in {"refused", "asking"} :
              svTool' = [svTool EXCEPT ![q] = [attempt |-> attempt, state |-> state]]
      BY DEF ToolCalled
    <3> QED
      BY <2>2, <3>1
  <2>4. PICK decision \in Decisions :
            svTool' = [svTool EXCEPT ![q].state = IF HandlerRuns(q, decision) THEN "handled" ELSE "refused"]
    BY <2>1, <2>3 DEF ToolDecided
  <2>5. q = r /\ HandlerRuns(q, decision)
    BY <2>2, <2>4 DEF SvTools
  <2> QED
    BY <2>5 DEF HandlerRuns, InvocationActive
<1>5. CancelStands
  <2> SUFFICES ASSUME NEW r \in SvRequests, svStore[r].status = "cancelled", svAt[r] \in {"queued"} \cup SvOver
               PROVE  svStore'[r].status = "cancelled" /\ svAt'[r] \in {"queued"} \cup SvOver
    BY DEF CancelStands
  <2> DEFINE Acts(q) == \/ SvProgress(q) \/ InputRefused(q) \/ \E mode \in {"immediate", "queued"} : SvSubmit(q, mode)
                        \/ CancelReads(q) \/ CancelWrites(q) \/ ToolCalled(q) \/ ToolDecided(q)
  <2>0. svAt \in [SvRequests -> SvPlaces] /\ svStore \in [SvRequests -> SvRecords]
    BY DEF SvInvariant, SvTypes
  <2>1. CASE AdapterBuilt \/ KillSwitchThrown \/ DeadlinesPass
    BY <2>1 DEF AdapterBuilt, KillSwitchThrown, DeadlinesPass
  <2>2. CASE \E q \in SvRequests \ {r} : Acts(q)
    BY <2>2, OthersStay
  <2>3. CASE RunNext(r)
    BY <2>0, <2>3 DEF RunNext, Goto, SvOver
  <2>4. CASE InvokeReturns(r)
    BY <2>0, <2>4 DEF InvokeReturns, Returned, Goto, SvOver
  <2>5. CASE CancelReads(r) \/ CancelWrites(r) \/ ToolCalled(r) \/ ToolDecided(r)
    <3>1. svAt' = svAt /\ (svStore' = svStore \/ svStore' = [svStore EXCEPT ![r] = [svStore[r] EXCEPT !.status = "cancelled"]])
      BY <2>5 DEF CancelReads, CancelWrites, ToolCalled, ToolDecided, Put
    <3> QED
      BY <2>0, <3>1 DEF SvRecords
  <2>6. CASE Acts(r) /\ ~(RunNext(r) \/ InvokeReturns(r) \/ CancelReads(r) \/ CancelWrites(r) \/ ToolCalled(r) \/ ToolDecided(r))
    <3>1. svAt[r] \in {"new", "creating", "picked", "executing", "requeue"} \cup SvLive
      BY <2>6 DEF SvProgress, SvSubmit, InputRefused, CreateRecord, Revalidate, Execute, Requeue, Materialize, Adapted,
         Authorize, AdapterStarts, AdapterThrows, AdapterAnswers, ResponseValid, ResponseViolates, SvLive
    <3> QED
      BY <3>1 DEF SvLive, SvOver
  <2>7. AdapterBuilt \/ KillSwitchThrown \/ DeadlinesPass \/ \E q \in SvRequests : Acts(q)
    BY DEF SvNext
  <2> HIDE DEF Acts
  <2> QED
    BY <2>1, <2>2, <2>3, <2>4, <2>5, <2>6, <2>7
<1> QED
  BY <1>2, <1>3, <1>4, <1>5

-----------------------------------------------------------------------------
(***************************************************************************)
(* Proposals (ProposalHost).  The invariant follows every copy of a        *)
(* receipt: in the store, in the journal and in the hands of a call.       *)
(***************************************************************************)
PhStatuses == {"received", "authorized", "admitted", "applying"} \cup FinalStatuses
PhContent == PhContents \cup {0}
Receipts == [content : PhContent, actor : {"unknown", "agent"}, audit : Seq(PhStatuses) \ {<<>>},
             fields : SUBSET {"authorization", "admission", "application", "failure", "automatic"}]
PhOps == {"receive", "actor", "authorize", "admit", "apply", "reject"}
PhIds == 1..phUsed.ids
PhCalls == [op : PhOps \cup {"none"}, at : {"idle", "list", "get", "put", "engine", "authority"}, chain : BOOLEAN,
            id : 0..phUsed.ids, receipt : Receipts]

PhEntries == [id : PhIds, receipt : Receipts]

PhTypes ==
    /\ phUsed \in [scenario : PhScenarios, ids : 0..MaxReceipts, calls : Nat, troubles : Nat]
    /\ DOMAIN phStore \subseteq PhIds /\ phStore \in [DOMAIN phStore -> Receipts]
    /\ phJournal \in Seq(PhEntries)
    /\ phCall \in [PhCallers -> PhCalls]
    /\ DOMAIN phApplied \subseteq PhIds

(* Which operation stands where, and with what. *)
PlaceHolds(call) ==
    /\ call.op = "none" <=> call.at = "idle"
    /\ call.at = "list" => call.op = "receive" /\ Status(call.receipt) = "received"
    /\ call.at = "get" => call.op \in PhOps \ {"receive", "actor"}
    /\ call.at \in {"get", "put", "engine", "authority"} => call.id # 0
    /\ call.at = "authority" => call.op = "apply" /\ Status(call.receipt) = "applying"
    /\ TellsOneCourse(call.receipt)

(* Whoever has a receipt in hand or wrote it down: it tells one course, says what was
   proposed, and what it calls applied is done. *)
CopyHolds(contents, applied, id, receipt) ==
    /\ TellsOneCourse(receipt) /\ receipt.content = contents[id]
    /\ Status(receipt) = "applied" => id \in applied
InHand(call) == call.at \in {"put", "engine", "authority"}
CopiesHold(contents) ==
    /\ \A id \in DOMAIN phStore : CopyHolds(contents, DOMAIN phApplied, id, phStore[id])
    /\ \A i \in DOMAIN phJournal : CopyHolds(contents, DOMAIN phApplied, phJournal[i].id, phJournal[i].receipt)
    /\ \A c \in PhCallers : InHand(phCall[c]) => CopyHolds(contents, DOMAIN phApplied, phCall[c].id, phCall[c].receipt)
    /\ \A id \in DOMAIN phApplied : phApplied[id] = contents[id]

(* Callers that wait: one call at a time, whose write is the only one under way
   and goes on from what the store has. *)
GoesOnFrom(id, receipt) ==
    IF id \in DOMAIN phStore THEN IsPrefix(phStore[id].audit, receipt.audit) ELSE DOMAIN phStore = {}
PatientCall(call) ==
    /\ call.at \in {"list", "get", "put", "authority"} => phJournal = <<>>
    /\ call.at = "put" => GoesOnFrom(call.id, call.receipt)
    /\ call.at = "engine" => \/ phJournal = <<>> /\ call.id \in DOMAIN phStore /\ phStore[call.id] = call.receipt
                             \/ phJournal = <<[id |-> call.id, receipt |-> call.receipt]>>
    /\ call.at = "authority" => call.id \in DOMAIN phStore /\ phStore[call.id] = call.receipt
PatientHolds ==
    phUsed.scenario.patient =>
        /\ \A c, d \in PhCallers : phCall[c].op # "none" /\ phCall[d].op # "none" => c = d
        /\ \A c \in PhCallers : PatientCall(phCall[c])
        /\ \A i, j \in DOMAIN phJournal : i = j
        /\ \A i \in DOMAIN phJournal : GoesOnFrom(phJournal[i].id, phJournal[i].receipt)
        /\ \A i, j \in DOMAIN phStore : i = j
        /\ \A id \in DOMAIN phApplied : id \in DOMAIN phStore /\ Contains(phStore[id].audit, "applying")

PhInvariant ==
    /\ PhTypes /\ PatientHolds
    /\ \A c \in PhCallers : PlaceHolds(phCall[c])
    /\ \E contents \in [1..MaxReceipts -> PhContent] : CopiesHold(contents)

-----------------------------------------------------------------------------
(* Prefixes, point by point. *)
LEMMA PrefixIs ==
  ASSUME NEW S, NEW s \in Seq(S), NEW t \in Seq(S)
  PROVE  IsPrefix(s, t) <=> (Len(s) <= Len(t) /\ \A i \in 1..Len(s) : s[i] = t[i])
<1>1. ASSUME Len(s) <= Len(t)
      PROVE  /\ SubSeq(s, 1, Len(s)) \in Seq(S) /\ SubSeq(t, 1, Len(s)) \in Seq(S)
             /\ Len(SubSeq(s, 1, Len(s))) = Len(s) /\ Len(SubSeq(t, 1, Len(s))) = Len(s)
             /\ \A i \in 1..Len(s) : SubSeq(s, 1, Len(s))[i] = s[i] /\ SubSeq(t, 1, Len(s))[i] = t[i]
  BY <1>1
<1>2. ASSUME Len(s) <= Len(t), \A i \in 1..Len(s) : s[i] = t[i]
      PROVE  SubSeq(s, 1, Len(s)) = SubSeq(t, 1, Len(s))
  <2> DEFINE a == SubSeq(s, 1, Len(s))
             b == SubSeq(t, 1, Len(s))
  <2>1. a \in Seq(S) /\ b \in Seq(S) /\ Len(a) = Len(b) /\ \A i \in 1..Len(a) : a[i] = b[i]
    BY <1>1, <1>2
  <2> HIDE DEF a, b
  <2> QED
    BY <2>1, SeqEqual DEF a, b
<1> QED
  BY <1>1, <1>2 DEF IsPrefix

\* A sequence is a prefix of itself and of what it grows to.
LEMMA PrefixGrows ==
  ASSUME NEW S, NEW s \in Seq(S), NEW x \in S
  PROVE  IsPrefix(s, s) /\ IsPrefix(s, Append(s, x))
<1>1. Append(s, x) \in Seq(S) /\ Len(Append(s, x)) = Len(s) + 1 /\ Len(s) \in Nat
      /\ \A i \in 1..Len(s) : Append(s, x)[i] = s[i]
  BY AppendProperties
<1> DEFINE t == Append(s, x)
<1>2. IsPrefix(s, s) <=> (Len(s) <= Len(s) /\ \A i \in 1..Len(s) : s[i] = s[i])
  BY PrefixIs
<1> HIDE DEF t
<1>3. IsPrefix(s, t) <=> (Len(s) <= Len(t) /\ \A i \in 1..Len(s) : s[i] = t[i])
  BY <1>1, PrefixIs DEF t
<1> QED
  BY <1>1, <1>2, <1>3 DEF t

(* A transition goes on with the course of a receipt. *)
LEMMA TransitionGoesOn ==
  ASSUME NEW receipt \in Receipts, TellsOneCourse(receipt), NEW status \in PhStatuses,
         NEW fields \in SUBSET {"authorization", "admission", "application", "failure", "automatic"},
         Follows(Status(receipt), status),
         "authorization" \in fields <=> status = "authorized",
         "admission" \in fields <=> status = "admitted",
         "application" \in fields <=> status = "applied"
  PROVE  LET after == Transition(receipt, status, fields)
         IN  /\ after \in Receipts /\ TellsOneCourse(after) /\ Status(after) = status
             /\ after.content = receipt.content /\ IsPrefix(receipt.audit, after.audit)
<1> DEFINE audit == receipt.audit
           grown == Append(audit, status)
           has == receipt.fields \cup fields
           after == Transition(receipt, status, fields)
<1>1. audit \in Seq(PhStatuses) /\ audit # <<>> /\ Len(audit) \in Nat /\ Len(audit) # 0
  BY DEF Receipts
<1>2. /\ grown \in Seq(PhStatuses) /\ grown # <<>> /\ Len(grown) = Len(audit) + 1
      /\ \A i \in 1..Len(audit) : grown[i] = audit[i]
      /\ grown[Len(audit) + 1] = status
  BY <1>1, AppendProperties
<1>3. /\ after.audit = grown /\ after.fields = has /\ after.content = receipt.content /\ after \in Receipts
  <2>1. has \in SUBSET {"authorization", "admission", "application", "failure", "automatic"}
    BY DEF Receipts
  <2>2. after = [receipt EXCEPT !.audit = grown, !.fields = has]
    BY DEF Transition, Receipts
  <2> HIDE DEF has, grown, after
  <2> QED
    BY <1>2, <2>1, <2>2 DEF Receipts
<1>4. Last(audit) = audit[Len(audit)] /\ Last(grown) = status
  BY <1>2 DEF Last
<1>5. \A x : Contains(grown, x) <=> (Contains(audit, x) \/ x = status)
  <2> HIDE DEF audit, grown
  <2> QED
    BY <1>1, <1>2 DEF Contains
<1>6. TellsOneCourse(after)
  <2>1. grown[1] = "received"
    BY <1>1, <1>2 DEF TellsOneCourse
  <2>2. ASSUME NEW i \in 1..(Len(grown) - 1) PROVE Follows(grown[i], grown[i + 1])
    <3>1. CASE i = Len(audit)
      BY <1>1, <1>2, <1>4, <3>1 DEF Status
    <3>2. CASE i # Len(audit)
      <4>1. i \in 1..(Len(audit) - 1) /\ grown[i] = audit[i] /\ grown[i + 1] = audit[i + 1]
        BY <1>1, <1>2, <3>2
      <4> QED
        BY <4>1 DEF TellsOneCourse
    <3> QED
      BY <3>1, <3>2
  <2>3. /\ "authorization" \in has <=> Contains(grown, "authorized")
        /\ "admission" \in has <=> Contains(grown, "admitted")
        /\ "application" \in has <=> Contains(grown, "applied")
    BY <1>5 DEF TellsOneCourse
  <2> HIDE DEF has, grown, after
  <2> QED
    BY <1>3, <2>1, <2>2, <2>3 DEF TellsOneCourse
<1> HIDE DEF after
<1> QED
  BY <1>1, <1>3, <1>4, <1>6, PrefixGrows DEF after, Status

(* Naming the actor leaves the course as it is. *)
LEMMA NamedTellsOneCourse ==
  ASSUME NEW receipt \in Receipts, TellsOneCourse(receipt)
  PROVE  LET after == [receipt EXCEPT !.actor = "agent"]
         IN  after \in Receipts /\ TellsOneCourse(after) /\ after.audit = receipt.audit /\ after.content = receipt.content
BY DEF Receipts, TellsOneCourse

\* A new receipt says what was proposed and that it was received.
LEMMA NewTellsOneCourse ==
  ASSUME NEW content \in PhContent
  PROVE  LET new == NewReceipt(content)
         IN  new \in Receipts /\ TellsOneCourse(new) /\ Status(new) = "received" /\ new.content = content
<1> DEFINE audit == <<"received">>
<1>1. audit \in Seq(PhStatuses) /\ audit # <<>> /\ Len(audit) = 1 /\ audit[1] = "received"
  BY DEF PhStatuses
<1>2. NewReceipt(content) \in Receipts
  <2> HIDE DEF audit
  <2>1. NewReceipt(content) = [content |-> content, actor |-> "unknown", audit |-> audit, fields |-> {}]
    BY DEF NewReceipt, audit
  <2> QED
    BY <1>1, <2>1 DEF Receipts
<1>3. TellsOneCourse(NewReceipt(content))
  BY <1>1 DEF TellsOneCourse, NewReceipt, Contains
<1> QED
  BY <1>1, <1>2, <1>3 DEF NewReceipt, Status, Last

\* A caller without a call is one.
LEMMA IdleTyped == PhTypes => PhIdle \in PhCalls /\ PlaceHolds(PhIdle)
<1> SUFFICES ASSUME PhTypes PROVE PhIdle \in PhCalls /\ PlaceHolds(PhIdle)
  OBVIOUS
<1>1. NewReceipt(0) \in Receipts /\ TellsOneCourse(NewReceipt(0)) /\ phUsed.ids \in Nat
  BY NewTellsOneCourse, PhAssumption DEF PhContent, PhTypes
<1> HIDE DEF NewReceipt
<1> QED
  BY <1>1 DEF PhIdle, PhCalls, PlaceHolds, PhOps

-----------------------------------------------------------------------------
(* A call that goes on with a receipt: it has ended, asks again, or is about to
   write what follows in the receipt's course or to ask the authority. *)
Carries(call, id, receipt) ==
    /\ call \in PhCalls /\ PlaceHolds(call)
    /\ call.at \in {"idle", "get", "put", "authority"}
    /\ call.at \in {"put", "authority"} => call.id = id
    /\ call.at = "put" => /\ call.receipt.content = receipt.content
                          /\ IsPrefix(receipt.audit, call.receipt.audit)
                          /\ Status(call.receipt) = "applied" => Status(receipt) = "applied"
    /\ call.at = "authority" => call.receipt = receipt

\* The audit of a receipt.
LEMMA AuditTyped ==
  ASSUME NEW receipt \in Receipts
  PROVE  receipt.audit \in Seq(PhStatuses) /\ IsPrefix(receipt.audit, receipt.audit)
<1>1. receipt.audit \in Seq(PhStatuses)
  BY DEF Receipts
<1> QED
  BY <1>1, PrefixGrows DEF PhStatuses

\* A call that is over carries nothing on.
LEMMA IdleCarries == ASSUME PhTypes, NEW id, NEW receipt PROVE Carries(PhIdle, id, receipt)
BY IdleTyped DEF Carries, PhIdle

\* A call that asks for the receipt again carries nothing on.
LEMMA AsksCarries ==
  ASSUME PhTypes, NEW call \in PhCalls, TellsOneCourse(call.receipt), NEW op \in PhOps \ {"receive", "actor"}, call.id # 0,
         NEW id, NEW receipt
  PROVE  Carries([call EXCEPT !.op = op, !.at = "get"], id, receipt)
<1> DEFINE asks == [call EXCEPT !.op = op, !.at = "get"]
<1>1. asks \in PhCalls /\ asks.op = op /\ asks.at = "get" /\ asks.id = call.id /\ asks.receipt = call.receipt
  BY DEF PhCalls
<1> HIDE DEF asks
<1>2. PlaceHolds(asks)
  BY <1>1 DEF PlaceHolds, PhOps
<1> QED
  BY <1>1, <1>2 DEF Carries, asks

\* A call that writes carries on the receipt it read: same content, longer audit, and applied only if it was.
LEMMA WritesCarries ==
  ASSUME PhTypes, NEW call \in PhCalls, NEW after \in Receipts, TellsOneCourse(after), NEW receipt,
         call.op # "none", call.id # 0, after.content = receipt.content, IsPrefix(receipt.audit, after.audit),
         Status(after) = "applied" => Status(receipt) = "applied"
  PROVE  Carries(Writes(call, after), call.id, receipt)
<1> DEFINE writes == Writes(call, after)
<1>1. writes \in PhCalls /\ writes.op = call.op /\ writes.at = "put" /\ writes.id = call.id /\ writes.receipt = after
  BY DEF PhCalls, Writes
<1> HIDE DEF writes
<1>2. PlaceHolds(writes)
  BY <1>1 DEF PlaceHolds, PhOps
<1> QED
  BY <1>1, <1>2 DEF Carries, writes

\* A call that applies carries on the receipt it read.
LEMMA AppliesCarries ==
  ASSUME PhTypes, NEW call \in PhCalls, NEW receipt \in Receipts, TellsOneCourse(receipt), call.op = "apply", call.id # 0,
         Status(receipt) = "applying"
  PROVE  Carries([call EXCEPT !.at = "authority", !.receipt = receipt], call.id, receipt)
<1> DEFINE applies == [call EXCEPT !.at = "authority", !.receipt = receipt]
<1>1. applies \in PhCalls /\ applies.op = "apply" /\ applies.at = "authority" /\ applies.id = call.id
      /\ applies.receipt = receipt
  BY DEF PhCalls
<1> HIDE DEF applies
<1>2. PlaceHolds(applies)
  BY <1>1 DEF PlaceHolds, PhOps
<1> QED
  BY <1>1, <1>2 DEF Carries, applies

\* What follows a receive carries on the receipt that was received.
LEMMA AfterReceiveCarries ==
  ASSUME PhTypes, NEW c \in PhCallers, PlaceHolds(phCall[c]), NEW id \in PhIds, NEW receipt \in Receipts, TellsOneCourse(receipt)
  PROVE  Carries(AfterReceive(c, id, receipt), id, receipt)
<1> DEFINE call == [phCall[c] EXCEPT !.id = id, !.receipt = receipt]
<1>0. phUsed.ids \in Nat
  BY PhAssumption DEF PhTypes
<1>1. id # 0 /\ id \in 0..phUsed.ids
  BY <1>0 DEF PhIds
<1>2. call \in PhCalls /\ call.id = id /\ call.receipt = receipt
  BY <1>1 DEF PhTypes, PhCalls
<1>3. CASE ~call.chain
  BY <1>3, IdleCarries DEF AfterReceive
<1>4. CASE call.chain /\ receipt.actor = "unknown"
  <2> DEFINE named == [receipt EXCEPT !.actor = "agent"]
             naming == [call EXCEPT !.op = "actor"]
  <2>1. AfterReceive(c, id, receipt) = Writes(naming, named)
    BY <1>4 DEF AfterReceive
  <2>2. named \in Receipts /\ TellsOneCourse(named) /\ named.content = receipt.content /\ Status(named) = Status(receipt)
        /\ IsPrefix(receipt.audit, named.audit)
    BY NamedTellsOneCourse, AuditTyped DEF Status
  <2> HIDE DEF call
  <2>3. naming \in PhCalls /\ naming.op # "none" /\ naming.id = id
    BY <1>2 DEF PhCalls, PhOps
  <2> HIDE DEF named, naming
  <2> QED
    BY <1>1, <2>1, <2>2, <2>3, WritesCarries
<1>5. CASE call.chain /\ receipt.actor # "unknown"
  <2>1. AfterReceive(c, id, receipt) = [call EXCEPT !.op = "authorize", !.at = "get"]
    BY <1>5 DEF AfterReceive
  <2>2. "authorize" \in PhOps \ {"receive", "actor"} /\ TellsOneCourse(call.receipt) /\ call.id # 0
    BY <1>1, <1>2 DEF PhOps
  <2> HIDE DEF call
  <2>3. Carries([call EXCEPT !.op = "authorize", !.at = "get"], id, receipt)
    BY <1>2, <2>2, AsksCarries
  <2> QED
    BY <2>1, <2>3
<1> QED
  BY <1>3, <1>4, <1>5

\* What follows an authorization or an admission carries on the receipt that was read.
LEMMA LookedAtCarries ==
  ASSUME PhTypes, NEW c \in PhCallers, PlaceHolds(phCall[c]), phCall[c].id # 0, NEW id, NEW receipt
  PROVE  Carries(AfterAuthorize(c, receipt), id, receipt) /\ Carries(AfterAdmit(c, receipt), id, receipt)
<1>1. phCall[c] \in PhCalls /\ TellsOneCourse(phCall[c].receipt)
  BY DEF PhTypes, PlaceHolds
<1>2. Carries(Reads(c, "admit"), id, receipt) /\ Carries(Reads(c, "apply"), id, receipt)
  BY <1>1, AsksCarries DEF Reads, PhOps
<1> QED
  BY <1>2, IdleCarries DEF AfterAuthorize, AfterAdmit

\* A transition that is written carries on the receipt that was read.
LEMMA CourseCarries ==
  ASSUME PhTypes, NEW c \in PhCallers, PlaceHolds(phCall[c]), phCall[c].id # 0, phCall[c].op # "none",
         NEW receipt \in Receipts, TellsOneCourse(receipt), NEW status \in PhStatuses \ {"applied"},
         NEW fields \in SUBSET {"authorization", "admission", "application", "failure", "automatic"},
         Follows(Status(receipt), status),
         "authorization" \in fields <=> status = "authorized",
         "admission" \in fields <=> status = "admitted",
         "application" \notin fields
  PROVE  Carries(Writes(phCall[c], Transition(receipt, status, fields)), phCall[c].id, receipt)
<1> DEFINE after == Transition(receipt, status, fields)
<1>1. /\ after \in Receipts /\ TellsOneCourse(after) /\ Status(after) = status
      /\ after.content = receipt.content /\ IsPrefix(receipt.audit, after.audit)
  BY TransitionGoesOn
<1>2. phCall[c] \in PhCalls
  BY DEF PhTypes
<1> HIDE DEF after
<1>3. Carries(Writes(phCall[c], after), phCall[c].id, receipt)
  BY <1>1, <1>2, WritesCarries
<1> QED
  BY <1>3 DEF after

\* Whatever the operation makes of the receipt it got carries it on.
LEMMA GetCarries ==
  ASSUME PhTypes, NEW c \in PhCallers, PlaceHolds(phCall[c]), phCall[c].at = "get",
         NEW receipt \in Receipts, TellsOneCourse(receipt),
         NEW call \in CASE phCall[c].op = "authorize" -> Authorization(c, receipt)
                       [] phCall[c].op = "admit" -> Admit(c, receipt)
                       [] phCall[c].op = "apply" -> Apply(c, receipt)
                       [] phCall[c].op = "reject" -> Reject(c, receipt)
  PROVE  Carries(call, phCall[c].id, receipt)
<1>1. phCall[c].id # 0 /\ phCall[c] \in PhCalls /\ phCall[c].op \in {"authorize", "admit", "apply", "reject"}
      /\ phCall[c].op # "none"
  BY DEF PlaceHolds, PhTypes, PhOps
<1>2. Status(receipt) \in PhStatuses
  <2>1. receipt.audit \in Seq(PhStatuses) /\ receipt.audit # <<>>
    BY DEF Receipts
  <2>2. Len(receipt.audit) \in 1..Len(receipt.audit)
    BY <2>1
  <2> QED
    BY <2>1, <2>2 DEF Status, Last
<1>3. Carries(PhIdle, phCall[c].id, receipt)
  BY IdleCarries
<1> DEFINE Course(status, fields) == Writes(phCall[c], Transition(receipt, status, fields))
<1>4. Status(receipt) \notin FinalStatuses => Carries(Course("rejected", {"failure"}), phCall[c].id, receipt)
  BY <1>1, <1>2, CourseCarries DEF Follows, StatusModel, PhStatuses, FinalStatuses
<1>5. CASE call \in Authorization(c, receipt) /\ phCall[c].op = "authorize"
  <2>1. Status(receipt) = "received" => Carries(Course("authorized", {"authorization"}), phCall[c].id, receipt)
    BY <1>1, CourseCarries DEF Follows, StatusModel, PhStatuses
  <2>2. Carries(AfterAuthorize(c, receipt), phCall[c].id, receipt)
    BY <1>1, LookedAtCarries
  <2> QED
    BY <1>3, <1>4, <1>5, <2>1, <2>2 DEF Authorization, FinalStatuses
<1>6. CASE call \in Admit(c, receipt) /\ phCall[c].op = "admit"
  <2>1. ASSUME Status(receipt) = "authorized", NEW disposition \in {{"automatic"}, {}}
        PROVE  Carries(Course("admitted", {"admission"} \cup disposition), phCall[c].id, receipt)
    <3> DEFINE fields == {"admission"} \cup disposition
    <3>1. /\ fields \in SUBSET {"authorization", "admission", "application", "failure", "automatic"}
          /\ "authorization" \notin fields /\ "admission" \in fields /\ "application" \notin fields
      OBVIOUS
    <3> HIDE DEF fields
    <3>2. Carries(Course("admitted", fields), phCall[c].id, receipt)
      BY <1>1, <2>1, <3>1, CourseCarries DEF Follows, StatusModel, PhStatuses
    <3> QED
      BY <3>2 DEF fields
  <2>2. Carries(AfterAdmit(c, receipt), phCall[c].id, receipt)
    BY <1>1, LookedAtCarries
  <2> QED
    BY <1>3, <1>4, <1>6, <2>1, <2>2 DEF Admit, FinalStatuses
<1>7. CASE call \in Apply(c, receipt) /\ phCall[c].op = "apply"
  <2>1. Status(receipt) = "admitted" => Carries(Course("applying", {}), phCall[c].id, receipt)
    BY <1>1, CourseCarries DEF Follows, StatusModel, PhStatuses
  <2>2. Status(receipt) = "applying" =>
            Carries([phCall[c] EXCEPT !.at = "authority", !.receipt = receipt], phCall[c].id, receipt)
    BY <1>1, <1>7, AppliesCarries
  <2> QED
    BY <1>3, <1>7, <2>1, <2>2 DEF Apply
<1>8. CASE call \in Reject(c, receipt) /\ phCall[c].op = "reject"
  BY <1>3, <1>4, <1>8 DEF Reject
<1> QED
  BY <1>1, <1>5, <1>6, <1>7, <1>8

\* Going on after a write carries on the receipt that was written.
LEMMA WrittenCarries ==
  ASSUME PhTypes, NEW c \in PhCallers, PlaceHolds(phCall[c]), phCall[c].at \in {"put", "engine"}
  PROVE  Carries(Written(c), phCall[c].id, phCall[c].receipt)
<1> DEFINE call == phCall[c]
<1>1. call \in PhCalls /\ call.id # 0 /\ call.receipt \in Receipts /\ TellsOneCourse(call.receipt) /\ call.id \in PhIds
      /\ call.op \in PhOps
  BY PhAssumption DEF PlaceHolds, PhTypes, PhCalls, PhIds
<1>2. Carries(PhIdle, call.id, call.receipt)
  BY IdleCarries
<1>3. CASE call.op = "receive"
  BY <1>1, <1>3, AfterReceiveCarries DEF Written
<1>4. CASE call.op = "actor"
  <2>1. Written(c) = Reads(c, "authorize")
    BY <1>4 DEF Written
  <2>2. "authorize" \in PhOps \ {"receive", "actor"}
    BY DEF PhOps
  <2>3. Carries([call EXCEPT !.op = "authorize", !.at = "get"], call.id, call.receipt)
    BY <1>1, <2>2, AsksCarries
  <2> QED
    BY <2>1, <2>3 DEF Reads
<1>5. CASE call.op = "authorize"
  BY <1>1, <1>5, LookedAtCarries DEF Written
<1>6. CASE call.op = "admit"
  BY <1>1, <1>6, LookedAtCarries DEF Written
<1>7. CASE call.op = "apply"
  <2>1. Written(c) = IF Status(call.receipt) = "applying" THEN [call EXCEPT !.at = "authority"] ELSE PhIdle
    BY <1>7 DEF Written
  <2>2. [call EXCEPT !.at = "authority"] = [call EXCEPT !.at = "authority", !.receipt = call.receipt]
    BY <1>1 DEF PhCalls
  <2>3. Status(call.receipt) = "applying" =>
            Carries([call EXCEPT !.at = "authority", !.receipt = call.receipt], call.id, call.receipt)
    BY <1>1, <1>7, AppliesCarries
  <2> QED
    BY <1>2, <2>1, <2>2, <2>3
<1>8. CASE call.op = "reject"
  BY <1>2, <1>8 DEF Written
<1> QED
  BY <1>1, <1>3, <1>4, <1>5, <1>6, <1>7, <1>8 DEF PhOps

-----------------------------------------------------------------------------
NatLess == {ss \in Nat \X Nat : ss[1] < ss[2]}
\* No natural number has numbers below it for ever.
LEMMA NatLessWF == IsWellFoundedOn(NatLess, Nat)
  BY NatLessThanWellFounded DEF OpToRel, NatLess
\* A set of natural numbers has a least one.
LEMMA LeastOf == ASSUME NEW T \in SUBSET Nat, T # {} PROVE \E x \in T : \A y \in T : x <= y
<1>1. PICK x \in T : \A y \in T : ~(<<y, x>> \in NatLess)
  BY NatLessWF, WFMin
<1>2. ASSUME NEW y \in T PROVE x <= y
  <2>1. y < x => <<y, x>> \in NatLess
    BY <1>2 DEF NatLess
  <2>2. x \in Nat /\ y \in Nat
    OBVIOUS
  <2> QED
    BY <1>1, <2>1, <2>2
<1> QED BY <1>2
\* A bounded set of natural numbers has a greatest one.
LEMMA GreatestOf == ASSUME NEW n \in Nat, NEW T \in SUBSET (1..n), T # {} PROVE \E x \in T : \A y \in T : x >= y
<1> DEFINE U == {k \in Nat : \E x \in T : k = n - x}
<1>1. U \in SUBSET Nat 
  OBVIOUS
<1>3. \A x \in T : x \in Int /\ n - x \in U
  OBVIOUS
<1>4. U # {}
  BY <1>3
<1>2. PICK u \in U : \A y \in U : u <= y
  <2> HIDE DEF U
  <2> QED
  BY <1>1, <1>4, LeastOf
<1>5. PICK x \in T : u = n - x
  OBVIOUS
<1>6. \A y \in T : x >= y
  BY <1>2, <1>3, <1>5
<1> QED BY <1>6
\* Max is the greatest one.
LEMMA MaxOf == ASSUME NEW n \in Nat, NEW T \in SUBSET (1..n), T # {} PROVE Max(T) \in T /\ \A y \in T : Max(T) >= y
BY GreatestOf DEF Max

(* What the engine commits. *)
LEMMA CommittedIs ==
  ASSUME PhTypes, NEW n \in 0..Len(phJournal)
  PROVE  /\ DOMAIN Committed(n) = DOMAIN phStore \cup {phJournal[i].id : i \in 1..n}
         /\ Committed(n) = [id \in DOMAIN Committed(n) |-> Committed(n)[id]]
         /\ \A id \in DOMAIN Committed(n) :
              \/ /\ id \in DOMAIN phStore /\ Committed(n)[id] = phStore[id]
                 /\ \A i \in 1..n : phJournal[i].id # id
              \/ \E i \in 1..n : phJournal[i].id = id /\ Committed(n)[id] = phJournal[i].receipt
<1> DEFINE of(id) == {i \in 1..n : phJournal[i].id = id}
           ids == DOMAIN phStore \cup {phJournal[i].id : i \in 1..n}
<1>0. n \in Nat
  BY LenProperties DEF PhTypes
<1>1. Committed(n) = [id \in ids |-> IF of(id) = {} THEN phStore[id] ELSE phJournal[Max(of(id))].receipt]
  BY DEF Committed
<1>2. ASSUME NEW id \in ids, of(id) # {} PROVE Max(of(id)) \in of(id)
  <2> DEFINE T == of(id)
  <2>1. T \in SUBSET (1..n)
    OBVIOUS
  <2>2. T # {}
    BY <1>2
  <2> HIDE DEF T
  <2> QED
    BY <1>0, <2>1, <2>2, MaxOf DEF T
<1>3. ASSUME NEW id \in ids, of(id) = {} PROVE id \in DOMAIN phStore /\ \A i \in 1..n : phJournal[i].id # id
  BY <1>3
<1> HIDE DEF of
<1>4. ASSUME NEW id \in ids
      PROVE  \/ of(id) = {} /\ Committed(n)[id] = phStore[id]
             \/ of(id) # {} /\ Committed(n)[id] = phJournal[Max(of(id))].receipt
  BY <1>1
<1>5. \A id \in ids : of(id) # {} => Max(of(id)) \in 1..n /\ phJournal[Max(of(id))].id = id
  BY <1>2 DEF of
<1>6. DOMAIN Committed(n) = ids /\ Committed(n) = [id \in ids |-> Committed(n)[id]]
  BY <1>1
<1> HIDE DEF ids
<1> QED
  BY <1>3, <1>4, <1>5, <1>6, SMTT(30) DEF ids

\* What committing the first entries of the journal does to the store and the journal.
LEMMA EntryCommitKeeps ==
  ASSUME PhTypes, NEW n \in 0..Len(phJournal), Commits(n), phUsed' = phUsed, phApplied' = phApplied
  PROVE  /\ DOMAIN phStore' \subseteq PhIds /\ phStore' \in [DOMAIN phStore' -> Receipts]
         /\ phJournal' \in Seq(PhEntries)
         /\ Len(phJournal') = Len(phJournal) - n
         /\ \A i \in DOMAIN phJournal' : i + n \in DOMAIN phJournal /\ phJournal'[i] = phJournal[i + n]
         /\ DOMAIN phStore' = DOMAIN phStore \cup {phJournal[i].id : i \in 1..n}
         /\ \A id \in DOMAIN phStore' :
              \/ id \in DOMAIN phStore /\ phStore'[id] = phStore[id] /\ \A i \in 1..n : phJournal[i].id # id
              \/ \E i \in DOMAIN phJournal : /\ i <= n /\ phJournal[i].id = id
                                             /\ phStore'[id] = phJournal[i].receipt
<1>1. phJournal \in Seq(PhEntries) /\ Len(phJournal) \in Nat /\ DOMAIN phJournal = 1..Len(phJournal) /\ n \in Nat
      /\ n <= Len(phJournal)
  BY DEF PhTypes
<1>2. phStore' = Committed(n) /\ phJournal' = SubSeq(phJournal, n + 1, Len(phJournal))
  BY DEF Commits
<1>11. \A i \in DOMAIN phJournal : phJournal[i] \in PhEntries
  BY <1>1
<1>3. \A i \in DOMAIN phJournal : phJournal[i].id \in PhIds /\ phJournal[i].receipt \in Receipts
  BY <1>11 DEF PhEntries
<1>4. /\ DOMAIN phStore' = DOMAIN phStore \cup {phJournal[i].id : i \in 1..n}
      /\ phStore' = [id \in DOMAIN phStore' |-> phStore'[id]]
      /\ \A id \in DOMAIN phStore' :
           \/ id \in DOMAIN phStore /\ phStore'[id] = phStore[id] /\ \A i \in 1..n : phJournal[i].id # id
           \/ \E i \in 1..n : phJournal[i].id = id /\ phStore'[id] = phJournal[i].receipt
  BY <1>2, CommittedIs
<1>5. \A i \in 1..n : i \in DOMAIN phJournal /\ i <= n
  BY <1>1
<1>6. /\ phJournal' \in Seq(PhEntries) /\ Len(phJournal') = Len(phJournal) - n
      /\ \A i \in 1..Len(phJournal') : phJournal'[i] = phJournal[i + n]
  <2>1. \A i \in (n + 1)..Len(phJournal) : phJournal[i] \in PhEntries
    BY <1>1, <1>11
  <2>2. /\ SubSeq(phJournal, n + 1, Len(phJournal)) \in Seq(PhEntries)
        /\ Len(SubSeq(phJournal, n + 1, Len(phJournal))) = Len(phJournal) - n
        /\ \A i \in 1..(Len(phJournal) - n) : SubSeq(phJournal, n + 1, Len(phJournal))[i] = phJournal[i + n]
    <3> DEFINE m == n + 1
               l == Len(phJournal)
    <3>1. m \in Int /\ l \in Int /\ l - m + 1 = Len(phJournal) - n /\ \A i \in m..l : phJournal[i] \in PhEntries
      BY <1>1, <2>1
    <3>2. /\ m <= l => l - m + 1 = Len(phJournal) - n
          /\ ~(m <= l) => Len(phJournal) - n = 0
          /\ \A i \in Int : m + i - 1 = i + n
      <4>1. \A i \in Int : n + 1 + i - 1 = i + n
        BY <1>1
      <4>2. n + 1 <= Len(phJournal) \/ Len(phJournal) - n = 0
        <5>1. n \in Nat /\ Len(phJournal) \in Nat /\ n <= Len(phJournal)
          BY <1>1
        <5> QED
          BY <5>1
      <4>3. Len(phJournal) - (n + 1) + 1 = Len(phJournal) - n
        BY <1>1
      <4> QED
        BY <4>1, <4>2, <4>3
    <3> HIDE DEF m, l
    <3>3. /\ SubSeq(phJournal, m, l) \in Seq(PhEntries)
          /\ Len(SubSeq(phJournal, m, l)) = IF m <= l THEN l - m + 1 ELSE 0
          /\ \A i \in 1..(l - m + 1) : SubSeq(phJournal, m, l)[i] = phJournal[m + i - 1]
      BY <3>1, SubSeqProperties
    <3>4. Len(SubSeq(phJournal, m, l)) = Len(phJournal) - n
      BY <3>2, <3>3
    <3>5. \A i \in 1..(Len(phJournal) - n) : SubSeq(phJournal, m, l)[i] = phJournal[i + n]
      <4> SUFFICES ASSUME NEW i \in 1..(Len(phJournal) - n)
                   PROVE  SubSeq(phJournal, m, l)[i] = phJournal[i + n]
        OBVIOUS
      <4>1. i \in 1..(l - m + 1) /\ i \in Int
        BY <3>1
      <4>2. m + i - 1 = i + n
        BY <3>2, <4>1
      <4> QED
        BY <3>3, <4>1, <4>2
    <3> QED
      BY <3>3, <3>4, <3>5 DEF m, l
  <2> QED
    BY <1>2, <2>2
<1>7. \A i \in DOMAIN phJournal' : i + n \in DOMAIN phJournal /\ phJournal'[i] = phJournal[i + n]
  <2>1. DOMAIN phJournal' = 1..Len(phJournal')
    BY <1>6
  <2> QED
    BY <1>1, <1>6, <2>1
<1>8. DOMAIN phStore' \subseteq PhIds
  BY <1>3, <1>4, <1>5 DEF PhTypes
<1>9. \A id \in DOMAIN phStore' : phStore'[id] \in Receipts
  BY <1>3, <1>4, <1>5 DEF PhTypes
<1>10. phStore' \in [DOMAIN phStore' -> Receipts]
  BY <1>4, <1>9
<1> QED
  BY <1>4, <1>5, <1>6, <1>7, <1>8, <1>10

-----------------------------------------------------------------------------
PhPlaces == \A c \in PhCallers : PlaceHolds(phCall[c])
PhCopies == \E contents \in [1..MaxReceipts -> PhContent] : CopiesHold(contents)

\* Nothing was proposed.
LEMMA PhInitial == PhInit => PhInvariant
<1> SUFFICES ASSUME PhInit PROVE PhInvariant
  OBVIOUS
<1>1. /\ phUsed \in [scenario : PhScenarios, ids : {0}, calls : {0}, troubles : {0}]
      /\ phStore = <<>> /\ phJournal = <<>> /\ phApplied = <<>>
      /\ phCall = [c \in PhCallers |-> PhIdle]
  BY DEF PhInit
<1>2. phUsed \in [scenario : PhScenarios, ids : 0..MaxReceipts, calls : Nat, troubles : Nat] /\ phUsed.ids = 0
  BY <1>1, PhAssumption
<1>3. PhIdle \in PhCalls /\ PlaceHolds(PhIdle) /\ PhIdle.op = "none" /\ PhIdle.at = "idle"
  <2>1. NewReceipt(0) \in Receipts /\ TellsOneCourse(NewReceipt(0))
    BY NewTellsOneCourse DEF PhContent
  <2> HIDE DEF NewReceipt
  <2> QED
    BY <1>2, <2>1 DEF PhIdle, PhCalls, PlaceHolds
<1>4. PhTypes
  <2>1. phStore \in [DOMAIN phStore -> Receipts] /\ DOMAIN phStore = {} /\ DOMAIN phApplied = {}
    BY <1>1
  <2>2. phJournal \in Seq(PhEntries)
    BY <1>1
  <2> QED
    BY <1>1, <1>2, <1>3, <2>1, <2>2 DEF PhTypes
<1>5. PhPlaces
  BY <1>1, <1>3 DEF PhPlaces
<1>6. PhCopies
  <2> DEFINE contents == [id \in 1..MaxReceipts |-> 0]
  <2>1. contents \in [1..MaxReceipts -> PhContent]
    BY DEF PhContent
  <2> HIDE DEF contents
  <2>2. CopiesHold(contents)
    BY <1>1, <1>3 DEF CopiesHold, InHand
  <2> QED
    BY <2>1, <2>2 DEF PhCopies
<1>7. PatientHolds
  BY <1>1, <1>3 DEF PatientHolds, PatientCall
<1> QED
  BY <1>4, <1>5, <1>6, <1>7 DEF PhInvariant, PhPlaces, PhCopies

\* What the invariant says of one call.
LEMMA CallTyped ==
  ASSUME PhTypes, PhPlaces, NEW c \in PhCallers
  PROVE  /\ phCall[c] \in PhCalls /\ PlaceHolds(phCall[c]) /\ phCall[c].receipt \in Receipts /\ TellsOneCourse(phCall[c].receipt)
         /\ phCall[c].at \in {"get", "put", "engine", "authority"} =>
                phCall[c].id \in PhIds /\ phCall[c].op \in PhOps
         /\ phUsed.ids \in Nat /\ phUsed.ids <= MaxReceipts
BY PhAssumption DEF PhTypes, PhPlaces, PhCalls, PhIds, PlaceHolds, PhOps

\* The entries of the journal.
LEMMA JournalTyped ==
  ASSUME PhTypes
  PROVE  /\ DOMAIN phJournal = 1..Len(phJournal) /\ Len(phJournal) \in Nat
         /\ \A i \in DOMAIN phJournal : phJournal[i].id \in PhIds /\ phJournal[i].receipt \in Receipts
<1>1. phJournal \in Seq(PhEntries)
  BY DEF PhTypes
<1>2. DOMAIN phJournal = 1..Len(phJournal) /\ Len(phJournal) \in Nat /\ \A i \in DOMAIN phJournal : phJournal[i] \in PhEntries
  BY <1>1
<1> QED
  BY <1>2 DEF PhEntries

\* A sequence over a set is one over any wider set.
LEMMA SeqWider == ASSUME NEW S, NEW T, S \subseteq T, NEW q \in Seq(S) PROVE q \in Seq(T)
OBVIOUS

\* Calls stay calls when one of them moves.
LEMMA CallsKeep ==
  ASSUME PhTypes, PhPlaces, NEW c \in PhCallers, NEW call \in PhCalls, PlaceHolds(call),
         phCall' = [phCall EXCEPT ![c] = call]
  PROVE  phCall' \in [PhCallers -> PhCalls] /\ PhPlaces'
<1>1. \A d \in PhCallers : phCall'[d] = IF d = c THEN call ELSE phCall[d]
  BY DEF PhTypes
<1>2. PhPlaces'
  <2>1. \A d \in PhCallers : PlaceHolds(phCall'[d])
    BY <1>1 DEF PhPlaces
  <2> QED
    BY <2>1 DEF PhPlaces
<1> QED
  BY <1>2 DEF PhTypes

(* The copies after a step of one call. *)
LEMMA CopiesKeep ==
  ASSUME PhTypes, NEW contents, CopiesHold(contents), NEW c \in PhCallers, NEW call,
         phCall' = [phCall EXCEPT ![c] = call],
         InHand(call) => CopyHolds(contents, DOMAIN phApplied', call.id, call.receipt),
         DOMAIN phApplied \subseteq DOMAIN phApplied',
         \A id \in DOMAIN phApplied' : phApplied'[id] = contents[id],
         \A id \in DOMAIN phStore' : CopyHolds(contents, DOMAIN phApplied', id, phStore'[id]),
         \A i \in DOMAIN phJournal' : CopyHolds(contents, DOMAIN phApplied', phJournal'[i].id, phJournal'[i].receipt)
  PROVE  CopiesHold(contents)'
<1>1. ASSUME NEW d \in PhCallers, InHand(phCall'[d])
      PROVE  CopyHolds(contents, DOMAIN phApplied', phCall'[d].id, phCall'[d].receipt)
  <2>1. CASE d = c
    BY <1>1, <2>1 DEF PhTypes
  <2>2. CASE d # c
    BY <1>1, <2>2 DEF PhTypes, CopiesHold, CopyHolds
  <2> QED
    BY <2>1, <2>2
<1> QED
  BY <1>1 DEF CopiesHold, InHand, CopyHolds

\* What is carried on is a copy of the same receipt.
LEMMA CarriedCopy ==
  ASSUME NEW call, NEW id, NEW receipt, Carries(call, id, receipt), NEW contents, NEW applied,
         CopyHolds(contents, applied, id, receipt)
  PROVE  InHand(call) => CopyHolds(contents, applied, call.id, call.receipt)
BY DEF Carries, InHand, CopyHolds, PlaceHolds

(* One patient call is under way at a time. *)
LEMMA OneCall ==
  ASSUME PhTypes, PhPlaces, PatientHolds, phUsed.scenario.patient, NEW c \in PhCallers, phCall[c].op # "none"
  PROVE  \A d \in PhCallers \ {c} : phCall[d].op = "none" /\ phCall[d].at = "idle"
BY DEF PatientHolds, PhPlaces, PlaceHolds

\* Patient callers stay patient when the only call under way moves.
LEMMA PatientKeeps ==
  ASSUME PhTypes, NEW c \in PhCallers, NEW call, phCall' = [phCall EXCEPT ![c] = call],
         phUsed'.scenario = phUsed.scenario,
         phUsed.scenario.patient =>
           /\ \A d \in PhCallers \ {c} : phCall[d].op = "none" /\ phCall[d].at = "idle"
           /\ PatientCall(call)'
           /\ \A i, j \in DOMAIN phJournal' : i = j
           /\ \A i \in DOMAIN phJournal' : GoesOnFrom(phJournal[i].id, phJournal[i].receipt)'
           /\ \A i, j \in DOMAIN phStore' : i = j
           /\ \A id \in DOMAIN phApplied' : id \in DOMAIN phStore' /\ Contains(phStore'[id].audit, "applying")
  PROVE  PatientHolds'
<1> SUFFICES ASSUME phUsed.scenario.patient
             PROVE  /\ \A e, d \in PhCallers : phCall'[e].op # "none" /\ phCall'[d].op # "none" => e = d
                    /\ \A d \in PhCallers : PatientCall(phCall[d])'
  BY DEF PatientHolds
<1>1. \A d \in PhCallers : phCall'[d] = IF d = c THEN call ELSE phCall[d]
  BY DEF PhTypes
<1>2. ASSUME NEW d \in PhCallers PROVE PatientCall(phCall[d])'
  <2>1. CASE d = c
    BY <1>1, <2>1 DEF PatientCall, GoesOnFrom
  <2>2. CASE d # c
    BY <1>1, <2>2 DEF PatientCall
  <2> QED
    BY <2>1, <2>2
<1> QED
  BY <1>1, <1>2

\* Beginning a call keeps the invariant.
LEMMA BeginHolds ==
  ASSUME PhInvariant, NEW c \in PhCallers,
         (\E chain \in BOOLEAN : Submitted(c, chain)) \/ (\E op \in {"authorize", "admit", "apply", "reject"} : Called(c, op))
  PROVE  PhInvariant'
<1>1. PhTypes /\ PhPlaces /\ PhCopies /\ PatientHolds
  BY DEF PhInvariant, PhPlaces, PhCopies
<1>2. /\ Begins(c) /\ UNCHANGED <<phStore, phJournal, phApplied>>
      /\ phUsed' = [phUsed EXCEPT !.calls = @ + 1] /\ phCall[c].op = "none"
  BY DEF Submitted, Called, Begins
<1>3. phUsed' \in [scenario : PhScenarios, ids : 0..MaxReceipts, calls : Nat, troubles : Nat]
      /\ phUsed'.ids = phUsed.ids /\ phUsed'.scenario = phUsed.scenario
  BY <1>1, <1>2 DEF PhTypes
<1>4. \E call \in PhCalls : /\ PlaceHolds(call) /\ call.at \in {"list", "get"}
                            /\ phCall' = [phCall EXCEPT ![c] = call]
  <2>1. PhIdle \in PhCalls
    BY <1>1, IdleTyped
  <2>2. ASSUME NEW chain \in BOOLEAN, NEW content \in PhContents
        PROVE  LET call == [PhIdle EXCEPT !.op = "receive", !.at = "list", !.chain = chain, !.receipt = NewReceipt(content)]
               IN  call \in PhCalls /\ PlaceHolds(call) /\ call.at = "list"
    <3> DEFINE new == NewReceipt(content)
               call == [PhIdle EXCEPT !.op = "receive", !.at = "list", !.chain = chain, !.receipt = new]
    <3>1. new \in Receipts /\ TellsOneCourse(new) /\ Status(new) = "received"
      BY NewTellsOneCourse DEF PhContent
    <3> HIDE DEF new
    <3>2. call \in PhCalls /\ call.at = "list" /\ call.op = "receive" /\ call.receipt = new
      BY <2>1, <3>1 DEF PhCalls, PhOps
    <3> HIDE DEF call
    <3>3. PlaceHolds(call)
      BY <3>1, <3>2 DEF PlaceHolds
    <3> QED
      BY <3>2, <3>3 DEF call, new
  <2>3. ASSUME NEW op \in {"authorize", "admit", "apply", "reject"}, NEW id \in PhIds
        PROVE  LET call == [PhIdle EXCEPT !.op = op, !.at = "get", !.id = id]
               IN  call \in PhCalls /\ PlaceHolds(call) /\ call.at = "get"
    <3> DEFINE call == [PhIdle EXCEPT !.op = op, !.at = "get", !.id = id]
    <3>0. id # 0 /\ id \in 0..phUsed.ids
      BY <1>1, PhAssumption DEF PhIds, PhTypes
    <3>1. call \in PhCalls /\ call.at = "get" /\ call.op = op /\ call.id = id /\ call.receipt = PhIdle.receipt
      BY <2>1, <3>0 DEF PhCalls, PhOps
    <3>2. TellsOneCourse(PhIdle.receipt)
      BY <1>1, IdleTyped DEF PlaceHolds
    <3> HIDE DEF call
    <3>3. PlaceHolds(call)
      BY <3>0, <3>1, <3>2 DEF PlaceHolds, PhOps
    <3> QED
      BY <3>1, <3>3 DEF call
  <2>4. CASE \E chain \in BOOLEAN : Submitted(c, chain)
    BY <2>2, <2>4 DEF Submitted, PhGoto
  <2>5. CASE \E op \in {"authorize", "admit", "apply", "reject"} : Called(c, op)
    BY <2>3, <2>5 DEF Called, PhGoto, PhIds
  <2> QED
    BY <2>4, <2>5
<1>5. PICK call \in PhCalls : /\ PlaceHolds(call) /\ call.at \in {"list", "get"}
                              /\ phCall' = [phCall EXCEPT ![c] = call]
  BY <1>4
<1>6. phCall' \in [PhCallers -> PhCalls] /\ PhPlaces'
  BY <1>1, <1>5, CallsKeep
<1>7. PhTypes'
  BY <1>1, <1>2, <1>3, <1>6 DEF PhTypes, PhEntries, PhIds, PhCalls
<1>8. PhCopies'
  <2>1. PICK contents \in [1..MaxReceipts -> PhContent] : CopiesHold(contents)
    BY <1>1 DEF PhCopies
  <2>2. CopiesHold(contents)'
    BY <1>1, <1>2, <1>5, <2>1, CopiesKeep DEF CopiesHold, InHand
  <2> QED
    BY <2>2 DEF PhCopies
<1>9. PatientHolds'
  <2>1. ASSUME phUsed.scenario.patient
        PROVE  /\ \A d \in PhCallers \ {c} : phCall[d].op = "none" /\ phCall[d].at = "idle"
               /\ PatientCall(call)'
               /\ phJournal' = <<>>
               /\ \A i, j \in DOMAIN phStore' : i = j
               /\ \A id \in DOMAIN phApplied' : id \in DOMAIN phStore' /\ Contains(phStore'[id].audit, "applying")
    <3>1. phJournal = <<>> /\ \A d \in PhCallers : phCall[d].op = "none"
      BY <1>2, <2>1 DEF Begins
    <3>2. \A d \in PhCallers : phCall[d].at = "idle"
      BY <1>1, <3>1 DEF PhPlaces, PlaceHolds
    <3>3. PatientCall(call)'
      BY <1>2, <1>5, <3>1 DEF PatientCall
    <3> QED
      BY <1>1, <1>2, <2>1, <3>1, <3>2, <3>3 DEF PatientHolds
  <2>2. phUsed.scenario.patient => phJournal' = <<>>
    BY <2>1
  <2>3. phUsed.scenario.patient =>
           /\ \A i, j \in DOMAIN phJournal' : i = j
           /\ \A i \in DOMAIN phJournal' : GoesOnFrom(phJournal[i].id, phJournal[i].receipt)'
    BY <2>2
  <2> QED
    BY <1>1, <1>3, <1>5, <2>1, <2>3, PatientKeeps
<1> QED
  BY <1>6, <1>7, <1>8, <1>9 DEF PhInvariant, PhPlaces, PhCopies

(* A call goes on with a receipt the store has, and writes nothing yet. *)
LEMMA LookHolds ==
  ASSUME PhInvariant, NEW c \in PhCallers, NEW call, NEW id \in DOMAIN phStore, Carries(call, id, phStore[id]),
         phCall' = [phCall EXCEPT ![c] = call], phCall[c].at \in {"list", "get"},
         UNCHANGED <<phStore, phJournal, phApplied, phUsed>>
  PROVE  PhInvariant'
<1>1. PhTypes /\ PhPlaces /\ PhCopies /\ PatientHolds
  BY DEF PhInvariant, PhPlaces, PhCopies
<1>2. call \in PhCalls /\ PlaceHolds(call)
  BY DEF Carries
<1>3. phCall' \in [PhCallers -> PhCalls] /\ PhPlaces'
  BY <1>1, <1>2, CallsKeep
<1>4. PhTypes'
  BY <1>1, <1>3 DEF PhTypes, PhEntries, PhIds, PhCalls
<1>5. PhCopies'
  <2>1. PICK contents \in [1..MaxReceipts -> PhContent] : CopiesHold(contents)
    BY <1>1 DEF PhCopies
  <2>2. CopyHolds(contents, DOMAIN phApplied, id, phStore[id])
    BY <2>1 DEF CopiesHold
  <2>3. InHand(call) => CopyHolds(contents, DOMAIN phApplied, call.id, call.receipt)
    BY <2>2, CarriedCopy
  <2>4. CopiesHold(contents)'
    BY <1>1, <2>1, <2>3, CopiesKeep DEF CopiesHold
  <2> QED
    BY <2>4 DEF PhCopies
<1>6. PatientHolds'
  <2>1. phCall[c].op # "none"
    BY <1>1 DEF PhPlaces, PlaceHolds
  <2>2. ASSUME phUsed.scenario.patient
        PROVE  /\ \A d \in PhCallers \ {c} : phCall[d].op = "none" /\ phCall[d].at = "idle"
               /\ PatientCall(call)'
    <3>1. phJournal = <<>>
      BY <1>1, <2>2 DEF PatientHolds, PatientCall
    <3>2. PatientCall(call)'
      BY <3>1 DEF PatientCall, GoesOnFrom, Carries
    <3> QED
      BY <1>1, <2>1, <2>2, <3>2, OneCall
  <2>3. phUsed.scenario.patient =>
           /\ \A i, j \in DOMAIN phJournal' : i = j
           /\ \A i \in DOMAIN phJournal' : GoesOnFrom(phJournal[i].id, phJournal[i].receipt)'
           /\ \A i, j \in DOMAIN phStore' : i = j
           /\ \A applied \in DOMAIN phApplied' : applied \in DOMAIN phStore' /\ Contains(phStore'[applied].audit, "applying")
    BY <1>1 DEF PatientHolds, GoesOnFrom
  <2> QED
    BY <1>1, <2>2, <2>3, PatientKeeps
<1> QED
  BY <1>3, <1>4, <1>5, <1>6 DEF PhInvariant, PhPlaces, PhCopies

(* A call ends, and leaves everything else as it is. *)
LEMMA EndHolds ==
  ASSUME PhInvariant, NEW c \in PhCallers, PhReturn(c), phUsed' \in [scenario : PhScenarios, ids : 0..MaxReceipts, calls : Nat, troubles : Nat],
         phUsed'.scenario = phUsed.scenario, phUsed'.ids = phUsed.ids, phCall[c].op # "none",
         UNCHANGED <<phStore, phJournal, phApplied>>
  PROVE  PhInvariant'
<1>1. PhTypes /\ PhPlaces /\ PhCopies /\ PatientHolds
  BY DEF PhInvariant, PhPlaces, PhCopies
<1>2. PhIdle \in PhCalls /\ PlaceHolds(PhIdle) /\ PhIdle.at = "idle" /\ phCall' = [phCall EXCEPT ![c] = PhIdle]
  BY <1>1, IdleTyped DEF PhReturn, PhGoto, PhIdle
<1>3. phCall' \in [PhCallers -> PhCalls] /\ PhPlaces'
  BY <1>1, <1>2, CallsKeep
<1>4. PhTypes'
  BY <1>1, <1>3 DEF PhTypes, PhEntries, PhIds, PhCalls
<1>5. PhCopies'
  <2>1. PICK contents \in [1..MaxReceipts -> PhContent] : CopiesHold(contents)
    BY <1>1 DEF PhCopies
  <2>2. CopiesHold(contents)'
    BY <1>1, <1>2, <2>1, CopiesKeep DEF CopiesHold, InHand
  <2> QED
    BY <2>2 DEF PhCopies
<1>6. PatientHolds'
  <2>1. phUsed.scenario.patient =>
           /\ \A d \in PhCallers \ {c} : phCall[d].op = "none" /\ phCall[d].at = "idle"
           /\ PatientCall(PhIdle)'
    BY <1>1, <1>2, OneCall DEF PatientCall
  <2>3. phUsed.scenario.patient =>
           /\ \A i, j \in DOMAIN phJournal' : i = j
           /\ \A i \in DOMAIN phJournal' : GoesOnFrom(phJournal[i].id, phJournal[i].receipt)'
           /\ \A i, j \in DOMAIN phStore' : i = j
           /\ \A applied \in DOMAIN phApplied' : applied \in DOMAIN phStore' /\ Contains(phStore'[applied].audit, "applying")
    BY <1>1 DEF PatientHolds, GoesOnFrom
  <2> QED
    BY <1>1, <1>2, <2>1, <2>3, PatientKeeps
<1> QED
  BY <1>3, <1>4, <1>5, <1>6 DEF PhInvariant, PhPlaces, PhCopies

\* Receiving keeps the invariant: a duplicate is answered with the receipt there is.
LEMMA ReceiveHolds ==
  ASSUME PhInvariant, NEW c \in PhCallers, Receive(c)
  PROVE  PhInvariant'
<1>1. PhTypes /\ PhPlaces /\ PhCopies /\ PatientHolds
  BY DEF PhInvariant, PhPlaces, PhCopies
<1>2. phCall[c].at = "list" /\ UNCHANGED <<phStore, phJournal, phApplied>> /\ phCall[c].op = "receive"
  BY <1>1 DEF Receive, PhPlaces, PlaceHolds
<1>3. CASE DOMAIN phStore # {}
  <2>1. PICK id \in DOMAIN phStore :
            PhGoto(c, IF phStore[id].content = phCall[c].receipt.content THEN AfterReceive(c, id, phStore[id]) ELSE PhIdle)
    BY <1>3 DEF Receive
  <2>2. phUsed' = phUsed
    BY <1>3 DEF Receive
  <2> DEFINE call == IF phStore[id].content = phCall[c].receipt.content THEN AfterReceive(c, id, phStore[id]) ELSE PhIdle
  <2>3. phStore[id] \in Receipts /\ TellsOneCourse(phStore[id]) /\ id \in PhIds
    BY <1>1 DEF PhTypes, PhCopies, CopiesHold, CopyHolds
  <2>4. Carries(AfterReceive(c, id, phStore[id]), id, phStore[id]) /\ Carries(PhIdle, id, phStore[id])
    BY <1>1, <2>3, CallTyped, AfterReceiveCarries, IdleCarries
  <2>5. Carries(call, id, phStore[id]) /\ phCall' = [phCall EXCEPT ![c] = call]
    BY <2>1, <2>4 DEF PhGoto
  <2> HIDE DEF call
  <2> QED
    BY <1>2, <2>2, <2>5, LookHolds
<1>4. CASE DOMAIN phStore = {}
  <2> DEFINE id == phUsed.ids + 1
             receipt == phCall[c].receipt
  <2>0. PICK call : call = Writes([phCall[c] EXCEPT !.id = id], receipt)
    OBVIOUS
  <2>1. phUsed.ids < MaxReceipts /\ phUsed' = [phUsed EXCEPT !.ids = @ + 1] /\ phCall' = [phCall EXCEPT ![c] = call]
    BY <1>4, <2>0 DEF Receive, PhGoto
  <2>2. phUsed.ids \in Nat /\ MaxReceipts \in Nat /\ receipt \in Receipts /\ TellsOneCourse(receipt) /\ phCall[c] \in PhCalls
    BY <1>1, PhAssumption, CallTyped DEF PhTypes
  <2>3. /\ phUsed' \in [scenario : PhScenarios, ids : 0..MaxReceipts, calls : Nat, troubles : Nat]
        /\ phUsed'.ids = id /\ phUsed'.scenario = phUsed.scenario /\ id \in 1..MaxReceipts
    BY <1>1, <2>1, <2>2 DEF PhTypes
  <2>4. PhIds \subseteq PhIds' /\ id \in PhIds' /\ id # 0 /\ id \notin PhIds
    BY <2>2, <2>3 DEF PhIds
  <2>5. PhCalls \subseteq PhCalls'
    BY <2>2, <2>3 DEF PhCalls
  <2>6. call \in PhCalls' /\ call.at = "put" /\ call.op = "receive" /\ call.id = id /\ call.receipt = receipt
    <3>1. id \in 0..phUsed'.ids
      BY <2>2, <2>3
    <3> HIDE DEF id
    <3> QED
      BY <1>2, <2>0, <2>2, <2>5, <3>1 DEF PhCalls, Writes
  <2>7. PlaceHolds(call)
    <3>1. Status(receipt) = "received"
      BY <1>1, <1>2 DEF PhPlaces, PlaceHolds
    <3> QED
      BY <2>2, <2>4, <2>6, <3>1 DEF PlaceHolds
  <2>8. \A d \in PhCallers : phCall'[d] = IF d = c THEN call ELSE phCall[d]
    BY <1>1, <2>1 DEF PhTypes
  <2>9. phCall' \in [PhCallers -> PhCalls'] /\ PhPlaces'
    <3>1. phCall' \in [PhCallers -> PhCalls']
      BY <1>1, <2>1, <2>5, <2>6 DEF PhTypes
    <3>2. \A d \in PhCallers : PlaceHolds(phCall'[d])
      BY <1>1, <2>7, <2>8 DEF PhPlaces
    <3> QED
      BY <3>1, <3>2 DEF PhPlaces
  <2>10. PhTypes'
    <3>1. phJournal' \in Seq(PhEntries')
      <4>1. PhEntries \subseteq PhEntries'
        BY <2>4 DEF PhEntries
      <4> QED
        BY <1>1, <1>2, <4>1, SeqWider DEF PhTypes
    <3> QED
      BY <1>1, <1>2, <2>3, <2>4, <2>9, <3>1 DEF PhTypes
  <2>11. PhCopies'
    <3>1. PICK contents \in [1..MaxReceipts -> PhContent] : CopiesHold(contents)
      BY <1>1 DEF PhCopies
    <3>0. PICK now : now = [contents EXCEPT ![id] = receipt.content]
      OBVIOUS
    <3>2. now \in [1..MaxReceipts -> PhContent] /\ now[id] = receipt.content
          /\ \A i \in PhIds : now[i] = contents[i]
      <4>1. receipt.content \in PhContent
        BY <2>2 DEF Receipts
      <4>2. PhIds \subseteq 1..MaxReceipts
        BY <2>1, <2>2 DEF PhIds
      <4> QED
        BY <2>3, <2>4, <3>0, <4>1, <4>2
    <3>3. ASSUME NEW i \in PhIds, NEW r, CopyHolds(contents, DOMAIN phApplied, i, r)
          PROVE  CopyHolds(now, DOMAIN phApplied, i, r)
      BY <3>2, <3>3 DEF CopyHolds
    <3>4. \A i \in DOMAIN phStore : CopyHolds(now, DOMAIN phApplied, i, phStore[i])
      BY <1>4
    <3>5. \A i \in DOMAIN phJournal : CopyHolds(now, DOMAIN phApplied, phJournal[i].id, phJournal[i].receipt)
      <4>1. \A i \in DOMAIN phJournal : phJournal[i].id \in PhIds
        BY <1>1, JournalTyped
      <4> QED
        BY <3>1, <3>3, <4>1 DEF CopiesHold
    <3>6. ASSUME NEW d \in PhCallers, InHand(phCall'[d])
          PROVE  CopyHolds(now, DOMAIN phApplied, phCall'[d].id, phCall'[d].receipt)
      <4>1. CASE d = c
        <5>1. Status(receipt) = "received"
          BY <1>1, <1>2 DEF PhPlaces, PlaceHolds
        <5> QED
          BY <2>2, <2>6, <2>8, <3>2, <4>1, <5>1 DEF CopyHolds
      <4>2. CASE d # c
        <5>1. phCall'[d] = phCall[d] /\ phCall[d].id \in PhIds
          BY <1>1, <2>8, <3>6, <4>2, CallTyped DEF InHand
        <5> QED
          BY <3>1, <3>3, <3>6, <5>1 DEF CopiesHold
      <4> QED
        BY <4>1, <4>2
    <3>7. \A i \in DOMAIN phApplied : phApplied[i] = now[i]
      BY <1>1, <3>1, <3>2 DEF PhTypes, CopiesHold
    <3>8. CopiesHold(now)'
      BY <1>2, <3>4, <3>5, <3>6, <3>7 DEF CopiesHold, InHand, CopyHolds
    <3> QED
      BY <3>2, <3>8 DEF PhCopies
  <2>12. PatientHolds'
    <3>1. ASSUME phUsed.scenario.patient
          PROVE  /\ \A d \in PhCallers \ {c} : phCall[d].op = "none" /\ phCall[d].at = "idle"
                 /\ PatientCall(call)'
      <4>1. phJournal = <<>>
        BY <1>1, <1>2, <3>1 DEF PatientHolds, PatientCall
      <4>2. PatientCall(call)'
        BY <1>2, <1>4, <2>6, <4>1 DEF PatientCall, GoesOnFrom
      <4> QED
        BY <1>1, <1>2, <3>1, <4>2, OneCall
    <3>2. phUsed.scenario.patient =>
           /\ \A i, j \in DOMAIN phJournal' : i = j
           /\ \A i \in DOMAIN phJournal' : GoesOnFrom(phJournal[i].id, phJournal[i].receipt)'
           /\ \A i, j \in DOMAIN phStore' : i = j
           /\ \A applied \in DOMAIN phApplied' : applied \in DOMAIN phStore' /\ Contains(phStore'[applied].audit, "applying")
      BY <1>1, <1>2 DEF PatientHolds, GoesOnFrom
    <3> QED
      BY <1>1, <2>1, <2>3, <3>1, <3>2, PatientKeeps
  <2> QED
    BY <2>9, <2>10, <2>11, <2>12 DEF PhInvariant, PhPlaces, PhCopies
<1> QED
  BY <1>3, <1>4

\* Reading the receipt keeps the invariant.
LEMMA GetHolds ==
  ASSUME PhInvariant, NEW c \in PhCallers, PhGet(c)
  PROVE  PhInvariant'
<1>1. PhTypes /\ PhPlaces /\ PhCopies
  BY DEF PhInvariant, PhPlaces, PhCopies
<1>2. phCall[c].at = "get" /\ UNCHANGED <<phStore, phJournal, phApplied, phUsed>>
  BY DEF PhGet
<1>3. CASE phCall[c].id \notin DOMAIN phStore
  <2>1. PhReturn(c) /\ phCall[c].op # "none"
    BY <1>1, <1>2, <1>3 DEF PhGet, PhPlaces, PlaceHolds
  <2> QED
    BY <1>1, <1>2, <2>1, EndHolds DEF PhTypes
<1>4. CASE phCall[c].id \in DOMAIN phStore
  <2> DEFINE receipt == phStore[phCall[c].id]
             next == CASE phCall[c].op = "authorize" -> Authorization(c, receipt)
                          [] phCall[c].op = "admit" -> Admit(c, receipt)
                          [] phCall[c].op = "apply" -> Apply(c, receipt)
                          [] phCall[c].op = "reject" -> Reject(c, receipt)
  <2>1. PICK call \in next : phCall' = [phCall EXCEPT ![c] = call]
    BY <1>4 DEF PhGet, PhGoto
  <2>2. receipt \in Receipts /\ TellsOneCourse(receipt) /\ PlaceHolds(phCall[c])
    BY <1>1, <1>4 DEF PhTypes, PhCopies, CopiesHold, CopyHolds, PhPlaces
  <2>3. Carries(call, phCall[c].id, receipt)
    BY <1>1, <1>2, <2>2, GetCarries
  <2> QED
    BY <1>2, <1>4, <2>1, <2>3, LookHolds
<1> QED
  BY <1>3, <1>4

-----------------------------------------------------------------------------
\* What a prefix contains, the whole contains.
LEMMA ContainsGrows ==
  ASSUME NEW S, NEW s \in Seq(S), NEW t \in Seq(S), IsPrefix(s, t), NEW x, Contains(s, x)
  PROVE  Contains(t, x)
<1>1. Len(s) \in Nat /\ Len(t) \in Nat /\ Len(s) <= Len(t) /\ \A i \in 1..Len(s) : s[i] = t[i]
  BY PrefixIs
<1> QED
  BY <1>1 DEF Contains

(* What the store of patient callers has once a receipt that goes on from it
   is put there. *)
LEMMA StoreGoesOn ==
  ASSUME PhTypes, PatientHolds, phUsed.scenario.patient, NEW id, NEW receipt \in Receipts, GoesOnFrom(id, receipt),
         DOMAIN phStore' = DOMAIN phStore \cup {id}, phStore'[id] = receipt, phApplied' = phApplied,
         \A i \in DOMAIN phStore : i # id => phStore'[i] = phStore[i]
  PROVE  /\ \A i, j \in DOMAIN phStore' : i = j
         /\ \A i \in DOMAIN phStore : IsPrefix(phStore[i].audit, phStore'[i].audit)
         /\ \A i \in DOMAIN phApplied' : i \in DOMAIN phStore' /\ Contains(phStore'[i].audit, "applying")
<1>1. \A i, j \in DOMAIN phStore : i = j
  BY DEF PatientHolds
<1>2. \A i \in DOMAIN phStore : i = id /\ IsPrefix(phStore[i].audit, receipt.audit) /\ phStore'[i] = receipt
  BY <1>1 DEF GoesOnFrom
<1>3. ASSUME NEW i \in DOMAIN phApplied PROVE i \in DOMAIN phStore' /\ Contains(phStore'[i].audit, "applying")
  <2>1. i \in DOMAIN phStore /\ Contains(phStore[i].audit, "applying")
    BY DEF PatientHolds
  <2>2. phStore[i].audit \in Seq(PhStatuses) /\ receipt.audit \in Seq(PhStatuses)
    BY <2>1, AuditTyped DEF PhTypes
  <2> QED
    BY <1>2, <2>1, <2>2, ContainsGrows
<1> QED
  BY <1>1, <1>2, <1>3

\* A commit of everything the patient callers wrote empties the journal and only lengthens audits.
LEMMA CommitGoesOn ==
  ASSUME PhTypes, PatientHolds, phUsed.scenario.patient, NEW n \in 0..Len(phJournal), n = Len(phJournal) \/ n >= 1,
         Commits(n), phUsed' = phUsed, phApplied' = phApplied
  PROVE  /\ phJournal' = <<>>
         /\ \A i, j \in DOMAIN phStore' : i = j
         /\ \A i \in DOMAIN phStore : IsPrefix(phStore[i].audit, phStore'[i].audit)
         /\ \A i \in DOMAIN phApplied' : i \in DOMAIN phStore' /\ Contains(phStore'[i].audit, "applying")
         /\ \A i \in DOMAIN phJournal : /\ phJournal[i].id \in DOMAIN phStore'
                                        /\ phStore'[phJournal[i].id] = phJournal[i].receipt
         /\ phJournal = <<>> => \A i \in DOMAIN phStore : i \in DOMAIN phStore' /\ phStore'[i] = phStore[i]
<1>0. PICK l \in Nat : l = Len(phJournal)
  BY JournalTyped
<1>1. DOMAIN phJournal = 1..l /\ \A i, j \in DOMAIN phJournal : i = j
  BY <1>0, JournalTyped DEF PatientHolds
<1>7. n \in Nat /\ n <= l /\ (n = l \/ n >= 1)
  BY <1>0
<1>8. l < 2
  <2>1. ASSUME l >= 2 PROVE FALSE
    <3>1. 1 \in 1..l /\ 2 \in 1..l
      BY <2>1
    <3> QED
      BY <1>1, <3>1, SMTT(30)
  <2> QED
    BY <2>1
<1>2. n = l /\ n \in {0, 1} /\ n = Len(phJournal)
  BY <1>0, <1>7, <1>8
<1>3. /\ phJournal' \in Seq(PhEntries) /\ Len(phJournal') = 0
      /\ DOMAIN phStore' = DOMAIN phStore \cup {phJournal[i].id : i \in 1..n}
      /\ \A id \in DOMAIN phStore' :
              \/ id \in DOMAIN phStore /\ phStore'[id] = phStore[id] /\ \A i \in 1..n : phJournal[i].id # id
              \/ \E i \in DOMAIN phJournal : /\ i <= n /\ phJournal[i].id = id
                                             /\ phStore'[id] = phJournal[i].receipt
  <2>1. Len(phJournal') = Len(phJournal) - n
    BY EntryCommitKeeps
  <2>2. Len(phJournal') = 0
    BY <1>2, <2>1
  <2> QED
    BY <2>2, EntryCommitKeeps
<1>4. phJournal' = <<>>
  BY <1>3, EmptySeq
<1>5. CASE n = 0
  <2>1. DOMAIN phJournal = {} /\ DOMAIN phStore' = DOMAIN phStore /\ \A i \in DOMAIN phStore : phStore'[i] = phStore[i]
    <3>1. 1..n = {}
      BY <1>5
    <3>2. DOMAIN phJournal = {}
      BY <1>1, <1>2, <1>5
    <3>3. DOMAIN phStore' = DOMAIN phStore
      BY <1>3, <3>1
    <3>4. \A i \in DOMAIN phStore : phStore'[i] = phStore[i]
      BY <1>3, <3>2, <3>3
    <3> QED
      BY <3>2, <3>3, <3>4
  <2>2. \A i \in DOMAIN phStore : IsPrefix(phStore[i].audit, phStore'[i].audit)
    BY <2>1, AuditTyped DEF PhTypes
  <2> QED
    BY <1>4, <2>1, <2>2 DEF PatientHolds
<1>6. CASE n = 1
  <2> DEFINE id == phJournal[1].id
             receipt == phJournal[1].receipt
  <2>1. DOMAIN phJournal = {1} /\ receipt \in Receipts /\ GoesOnFrom(id, receipt) /\ phJournal # <<>>
    BY <1>1, <1>2, <1>6, JournalTyped DEF PatientHolds
  <2>2. DOMAIN phStore' = DOMAIN phStore \cup {id}
    BY <1>3, <1>6
  <2>3. \A i \in DOMAIN phStore' : IF i = id THEN phStore'[i] = receipt ELSE i \in DOMAIN phStore /\ phStore'[i] = phStore[i]
    BY <1>3, <1>6, <2>1
  <2>4. id \in DOMAIN phStore' /\ phStore'[id] = receipt /\ \A i \in DOMAIN phStore : i # id => phStore'[i] = phStore[i]
    BY <2>2, <2>3
  <2> HIDE DEF id, receipt
  <2>5. /\ \A i, j \in DOMAIN phStore' : i = j
        /\ \A i \in DOMAIN phStore : IsPrefix(phStore[i].audit, phStore'[i].audit)
        /\ \A i \in DOMAIN phApplied' : i \in DOMAIN phStore' /\ Contains(phStore'[i].audit, "applying")
    BY <2>1, <2>2, <2>4, StoreGoesOn
  <2> QED
    BY <1>4, <2>1, <2>4, <2>5 DEF id, receipt
<1> QED
  BY <1>2, <1>5, <1>6

\* Patient callers go on from what the store has.
LEMMA CarriedPatient ==
  ASSUME NEW call, NEW id, NEW receipt, Carries(call, id, receipt), phJournal' = <<>>, id \in DOMAIN phStore',
         phStore'[id] = receipt
  PROVE  PatientCall(call)'
BY DEF Carries, PatientCall, GoesOnFrom

\* Writing a receipt keeps the invariant, to a durable journal or to memory.
LEMMA PutHolds ==
  ASSUME PhInvariant, NEW c \in PhCallers, PhPut(c)
  PROVE  PhInvariant'
<1>1. PhTypes /\ PhPlaces /\ PhCopies /\ PatientHolds
  BY DEF PhInvariant, PhPlaces, PhCopies
<1>2. phCall[c].at = "put" /\ UNCHANGED <<phApplied, phUsed>>
  BY DEF PhPut
<1> DEFINE id == phCall[c].id
           receipt == phCall[c].receipt
<1>3. phCall[c] \in PhCalls /\ PlaceHolds(phCall[c]) /\ receipt \in Receipts /\ id \in PhIds /\ phCall[c].op # "none"
  BY <1>1, <1>2, CallTyped DEF PlaceHolds
<1>4. PICK contents \in [1..MaxReceipts -> PhContent] : CopiesHold(contents)
  BY <1>1 DEF PhCopies
<1>5. CopyHolds(contents, DOMAIN phApplied, id, receipt)
  BY <1>2, <1>4 DEF CopiesHold, InHand
<1>6. phUsed.scenario.patient => phJournal = <<>> /\ GoesOnFrom(id, receipt)
  BY <1>1, <1>2 DEF PatientHolds, PatientCall
<1>7. CASE phUsed.scenario.durable
  <2>0. PICK entry : entry = [id |-> id, receipt |-> receipt]
    OBVIOUS
  <2>1. PICK call : call = [phCall[c] EXCEPT !.at = "engine"]
    OBVIOUS
  <2>2. phJournal' = Append(phJournal, entry) /\ phCall' = [phCall EXCEPT ![c] = call] /\ phStore' = phStore
    BY <1>7, <2>0, <2>1 DEF PhPut, PhGoto
  <2>3. /\ call \in PhCalls /\ call.at = "engine" /\ call.op = phCall[c].op /\ call.id = id /\ call.receipt = receipt
        /\ entry \in PhEntries /\ entry.id = id /\ entry.receipt = receipt
    BY <1>3, <2>0, <2>1 DEF PhCalls, PhEntries
  <2>4. PlaceHolds(call)
    BY <1>2, <1>3, <2>3 DEF PlaceHolds
  <2>5. phCall' \in [PhCallers -> PhCalls] /\ PhPlaces'
    BY <1>1, <2>2, <2>3, <2>4, CallsKeep
  <2>6. /\ phJournal' \in Seq(PhEntries) /\ DOMAIN phJournal' = DOMAIN phJournal \cup {Len(phJournal) + 1}
        /\ \A i \in DOMAIN phJournal : phJournal'[i] = phJournal[i]
        /\ phJournal'[Len(phJournal) + 1] = entry
    <3>1. phJournal \in Seq(PhEntries)
      BY <1>1 DEF PhTypes
    <3>2. /\ phJournal' \in Seq(PhEntries) /\ Len(phJournal') = Len(phJournal) + 1 /\ Len(phJournal) \in Nat
          /\ \A i \in 1..Len(phJournal) : phJournal'[i] = phJournal[i]
          /\ phJournal'[Len(phJournal) + 1] = entry
          /\ DOMAIN phJournal = 1..Len(phJournal) /\ DOMAIN phJournal' = 1..Len(phJournal')
      BY <2>2, <2>3, <3>1, AppendProperties
    <3> QED
      BY <3>2
  <2>7. PhTypes'
    BY <1>1, <1>2, <2>2, <2>5, <2>6 DEF PhTypes, PhEntries, PhIds, PhCalls
  <2>8. CopiesHold(contents)'
    <3>1. \A i \in DOMAIN phJournal' : CopyHolds(contents, DOMAIN phApplied, phJournal'[i].id, phJournal'[i].receipt)
      BY <1>4, <1>5, <2>3, <2>6 DEF CopiesHold
    <3> QED
      BY <1>1, <1>2, <1>4, <1>5, <2>2, <2>3, <3>1, CopiesKeep DEF CopiesHold
  <2>9. PatientHolds'
    <3>1. ASSUME phUsed.scenario.patient
          PROVE  /\ \A d \in PhCallers \ {c} : phCall[d].op = "none" /\ phCall[d].at = "idle"
                 /\ PatientCall(call)'
                 /\ \A i, j \in DOMAIN phJournal' : i = j
                 /\ \A i \in DOMAIN phJournal' : GoesOnFrom(phJournal[i].id, phJournal[i].receipt)'
      <4>1. phJournal = <<>> /\ phJournal' = <<entry>> /\ GoesOnFrom(id, receipt)
        BY <1>6, <2>2, <3>1
      <4>2. PatientCall(call)'
        BY <2>0, <2>3, <4>1 DEF PatientCall
      <4>3. \A i \in DOMAIN phJournal' : i = 1 /\ phJournal'[i].id = id /\ phJournal'[i].receipt = receipt
        BY <2>3, <4>1
      <4>4. \A i \in DOMAIN phJournal' : GoesOnFrom(phJournal[i].id, phJournal[i].receipt)'
        BY <2>2, <4>1, <4>3 DEF GoesOnFrom
      <4> QED
        BY <1>1, <1>3, <3>1, <4>2, <4>3, <4>4, OneCall
    <3>2. phUsed.scenario.patient =>
           /\ \A i, j \in DOMAIN phStore' : i = j
           /\ \A applied \in DOMAIN phApplied' : applied \in DOMAIN phStore' /\ Contains(phStore'[applied].audit, "applying")
      BY <1>1, <1>2, <2>2 DEF PatientHolds
    <3> QED
      BY <1>1, <1>2, <2>2, <3>1, <3>2, PatientKeeps
  <2> QED
    BY <2>5, <2>7, <2>8, <2>9 DEF PhInvariant, PhPlaces
<1>8. CASE ~phUsed.scenario.durable
  <2>1. PICK call : call = Written(c)
    OBVIOUS
  <2>2. phStore' = Stored(id, receipt, phStore) /\ phCall' = [phCall EXCEPT ![c] = call] /\ phJournal' = phJournal
    BY <1>8, <2>1 DEF PhPut, PhGoto
  <2>3. Carries(call, id, receipt)
    BY <1>1, <1>2, <1>3, <2>1, WrittenCarries
  <2>4. call \in PhCalls /\ PlaceHolds(call)
    BY <2>3 DEF Carries
  <2>5. phCall' \in [PhCallers -> PhCalls] /\ PhPlaces'
    BY <1>1, <2>2, <2>4, CallsKeep
  <2>6. /\ DOMAIN phStore' = DOMAIN phStore \cup {id} /\ phStore'[id] = receipt
        /\ \A i \in DOMAIN phStore : i # id => phStore'[i] = phStore[i]
        /\ phStore' \in [DOMAIN phStore' -> Receipts]
    BY <1>1, <1>3, <2>2 DEF Stored, PhTypes
  <2>7. PhTypes'
    BY <1>1, <1>2, <1>3, <2>2, <2>5, <2>6 DEF PhTypes, PhEntries, PhIds, PhCalls
  <2>8. CopiesHold(contents)'
    <3>1. InHand(call) => CopyHolds(contents, DOMAIN phApplied, call.id, call.receipt)
      BY <1>5, <2>3, CarriedCopy
    <3>2. \A i \in DOMAIN phStore' : CopyHolds(contents, DOMAIN phApplied, i, phStore'[i])
      BY <1>4, <1>5, <2>6 DEF CopiesHold
    <3> QED
      BY <1>1, <1>2, <1>4, <2>2, <3>1, <3>2, CopiesKeep DEF CopiesHold
  <2>9. PatientHolds'
    <3>1. ASSUME phUsed.scenario.patient
          PROVE  /\ \A d \in PhCallers \ {c} : phCall[d].op = "none" /\ phCall[d].at = "idle"
                 /\ PatientCall(call)' /\ phJournal' = <<>>
                 /\ \A i, j \in DOMAIN phStore' : i = j
                 /\ \A applied \in DOMAIN phApplied' : applied \in DOMAIN phStore' /\ Contains(phStore'[applied].audit, "applying")
      <4>1. phJournal' = <<>> /\ GoesOnFrom(id, receipt)
        BY <1>6, <2>2, <3>1
      <4>2. PatientCall(call)'
        BY <2>3, <2>6, <4>1, CarriedPatient
      <4> QED
        BY <1>1, <1>2, <1>3, <2>6, <3>1, <4>1, <4>2, OneCall, StoreGoesOn
    <3>2. phUsed.scenario.patient => phJournal' = <<>>
      BY <3>1
    <3>3. phUsed.scenario.patient =>
             /\ \A i, j \in DOMAIN phJournal' : i = j
             /\ \A i \in DOMAIN phJournal' : GoesOnFrom(phJournal[i].id, phJournal[i].receipt)'
      BY <3>2
    <3> QED
      BY <1>1, <1>2, <2>2, <3>1, <3>3, PatientKeeps
  <2> QED
    BY <2>5, <2>7, <2>8, <2>9 DEF PhInvariant, PhPlaces
<1> QED
  BY <1>7, <1>8

(* The store and the journal once the engine committed. *)
LEMMA CommitCopies ==
  ASSUME PhTypes, NEW contents, CopiesHold(contents), NEW n \in 0..Len(phJournal), Commits(n),
         phUsed' = phUsed, phApplied' = phApplied
  PROVE  /\ \A id \in DOMAIN phStore' : CopyHolds(contents, DOMAIN phApplied, id, phStore'[id])
         /\ \A i \in DOMAIN phJournal' : CopyHolds(contents, DOMAIN phApplied, phJournal'[i].id, phJournal'[i].receipt)
<1>1. \A id \in DOMAIN phStore' :
              \/ id \in DOMAIN phStore /\ phStore'[id] = phStore[id]
              \/ \E i \in DOMAIN phJournal : phJournal[i].id = id /\ phStore'[id] = phJournal[i].receipt
  BY EntryCommitKeeps
<1>2. \A i \in DOMAIN phJournal' : i + n \in DOMAIN phJournal /\ phJournal'[i] = phJournal[i + n]
  BY EntryCommitKeeps
<1> QED
  BY <1>1, <1>2 DEF CopiesHold

\* The caller's engine commits, and keeps the invariant.
LEMMA EngineHolds ==
  ASSUME PhInvariant, NEW c \in PhCallers, EngineRuns(c)
  PROVE  PhInvariant'
<1>1. PhTypes /\ PhPlaces /\ PhCopies /\ PatientHolds
  BY DEF PhInvariant, PhPlaces, PhCopies
<1>2. phCall[c].at = "engine" /\ UNCHANGED <<phApplied, phUsed>>
  BY DEF EngineRuns
<1> DEFINE id == phCall[c].id
           receipt == phCall[c].receipt
<1>3. PICK call : call = Written(c)
  OBVIOUS
<1>4. PICK n \in 0..Len(phJournal) : n = Len(phJournal)
  <2>1. Len(phJournal) \in Nat
    BY <1>1, JournalTyped
  <2>2. Len(phJournal) \in 0..Len(phJournal)
    BY <2>1
  <2> QED
    BY <2>2
<1>5. Commits(n) /\ phCall' = [phCall EXCEPT ![c] = call]
  BY <1>3, <1>4 DEF EngineRuns, PhGoto
<1>6. phCall[c].op # "none" /\ Carries(call, id, receipt)
  BY <1>1, <1>2, <1>3, CallTyped, WrittenCarries DEF PlaceHolds
<1>7. phCall' \in [PhCallers -> PhCalls] /\ PhPlaces'
  BY <1>1, <1>5, <1>6, CallsKeep DEF Carries
<1>8. DOMAIN phStore' \subseteq PhIds /\ phStore' \in [DOMAIN phStore' -> Receipts] /\ phJournal' \in Seq(PhEntries)
  BY <1>1, <1>2, <1>5, EntryCommitKeeps
<1>9. PhTypes'
  BY <1>1, <1>2, <1>7, <1>8 DEF PhTypes, PhEntries, PhIds, PhCalls
<1>10. PhCopies'
  <2>1. PICK contents \in [1..MaxReceipts -> PhContent] : CopiesHold(contents)
    BY <1>1 DEF PhCopies
  <2>2. CopyHolds(contents, DOMAIN phApplied, id, receipt)
    BY <1>2, <2>1 DEF CopiesHold, InHand
  <2>3. InHand(call) => CopyHolds(contents, DOMAIN phApplied, call.id, call.receipt)
    BY <1>6, <2>2, CarriedCopy
  <2>4. /\ \A i \in DOMAIN phStore' : CopyHolds(contents, DOMAIN phApplied, i, phStore'[i])
        /\ \A i \in DOMAIN phJournal' : CopyHolds(contents, DOMAIN phApplied, phJournal'[i].id, phJournal'[i].receipt)
    BY <1>1, <1>2, <1>5, <2>1, CommitCopies
  <2>5. CopiesHold(contents)'
    BY <1>1, <1>2, <1>5, <2>1, <2>3, <2>4, CopiesKeep DEF CopiesHold
  <2> QED
    BY <2>5 DEF PhCopies
<1>11. PatientHolds'
  <2>1. ASSUME phUsed.scenario.patient
        PROVE  /\ \A d \in PhCallers \ {c} : phCall[d].op = "none" /\ phCall[d].at = "idle"
               /\ PatientCall(call)' /\ phJournal' = <<>>
               /\ \A i, j \in DOMAIN phStore' : i = j
               /\ \A i \in DOMAIN phApplied' : i \in DOMAIN phStore' /\ Contains(phStore'[i].audit, "applying")
    <3>1. /\ phJournal' = <<>>
          /\ \A i, j \in DOMAIN phStore' : i = j
          /\ \A i \in DOMAIN phApplied' : i \in DOMAIN phStore' /\ Contains(phStore'[i].audit, "applying")
          /\ \A i \in DOMAIN phJournal : /\ phJournal[i].id \in DOMAIN phStore'
                                         /\ phStore'[phJournal[i].id] = phJournal[i].receipt
          /\ phJournal = <<>> => \A i \in DOMAIN phStore : i \in DOMAIN phStore' /\ phStore'[i] = phStore[i]
      BY <1>1, <1>2, <1>4, <1>5, <2>1, CommitGoesOn
    <3>2. id \in DOMAIN phStore' /\ phStore'[id] = receipt
      <4>1. \/ phJournal = <<>> /\ id \in DOMAIN phStore /\ phStore[id] = receipt
            \/ phJournal = <<[id |-> id, receipt |-> receipt]>>
        BY <1>1, <1>2, <2>1 DEF PatientHolds, PatientCall
      <4>2. CASE phJournal = <<[id |-> id, receipt |-> receipt]>>
        <5>1. 1 \in DOMAIN phJournal /\ phJournal[1].id = id /\ phJournal[1].receipt = receipt
          BY <4>2
        <5> QED
          BY <3>1, <5>1
      <4> QED
        BY <3>1, <4>1, <4>2
    <3>3. PatientCall(call)'
      BY <1>6, <3>1, <3>2, CarriedPatient
    <3> QED
      BY <1>1, <1>6, <2>1, <3>1, <3>3, OneCall
  <2>2. phUsed.scenario.patient => phJournal' = <<>>
    BY <2>1
  <2>3. phUsed.scenario.patient =>
           /\ \A i, j \in DOMAIN phJournal' : i = j
           /\ \A i \in DOMAIN phJournal' : GoesOnFrom(phJournal[i].id, phJournal[i].receipt)'
    BY <2>2
  <2> QED
    BY <1>1, <1>2, <1>5, <2>1, <2>3, PatientKeeps
<1> QED
  BY <1>7, <1>9, <1>10, <1>11 DEF PhInvariant, PhPlaces, PhCopies

\* An engine of somebody else commits, and keeps the invariant.
LEMMA OtherEngineHolds ==
  ASSUME PhInvariant, OtherEngine
  PROVE  PhInvariant'
<1>1. PhTypes /\ PhPlaces /\ PhCopies /\ PatientHolds
  BY DEF PhInvariant, PhPlaces, PhCopies
<1>2. phJournal # <<>> /\ UNCHANGED <<phCall, phApplied, phUsed>>
  BY DEF OtherEngine
<1>3. PICK n \in 0..Len(phJournal) : n >= 1 /\ Commits(n)
  BY <1>1, JournalTyped DEF OtherEngine
<1>4. PhTypes'
  <2>1. DOMAIN phStore' \subseteq PhIds /\ phStore' \in [DOMAIN phStore' -> Receipts] /\ phJournal' \in Seq(PhEntries)
    BY <1>1, <1>2, <1>3, EntryCommitKeeps
  <2> QED
    BY <1>1, <1>2, <2>1 DEF PhTypes, PhEntries, PhIds, PhCalls
<1>5. PhPlaces'
  BY <1>1, <1>2 DEF PhPlaces
<1>6. PhCopies'
  <2>1. PICK contents \in [1..MaxReceipts -> PhContent] : CopiesHold(contents)
    BY <1>1 DEF PhCopies
  <2>2. /\ \A i \in DOMAIN phStore' : CopyHolds(contents, DOMAIN phApplied, i, phStore'[i])
        /\ \A i \in DOMAIN phJournal' : CopyHolds(contents, DOMAIN phApplied, phJournal'[i].id, phJournal'[i].receipt)
    BY <1>1, <1>2, <1>3, <2>1, CommitCopies
  <2>3. CopiesHold(contents)'
    BY <1>2, <2>1, <2>2 DEF CopiesHold, InHand, CopyHolds
  <2> QED
    BY <2>3 DEF PhCopies
<1>7. PatientHolds'
  <2> SUFFICES ASSUME phUsed.scenario.patient PROVE PatientHolds'
    BY <1>2 DEF PatientHolds
  <2>1. /\ phJournal' = <<>>
        /\ \A i, j \in DOMAIN phStore' : i = j
        /\ \A i \in DOMAIN phApplied' : i \in DOMAIN phStore' /\ Contains(phStore'[i].audit, "applying")
        /\ \A i \in DOMAIN phJournal : /\ phJournal[i].id \in DOMAIN phStore'
                                       /\ phStore'[phJournal[i].id] = phJournal[i].receipt
    BY <1>1, <1>2, <1>3, CommitGoesOn
  <2>2. ASSUME NEW d \in PhCallers PROVE PatientCall(phCall[d])'
    <3>1. PatientCall(phCall[d])
      BY <1>1 DEF PatientHolds
    <3>2. phCall[d].at \notin {"list", "get", "put", "authority"}
      BY <1>2, <3>1 DEF PatientCall
    <3>3. phCall[d].at = "engine" => phCall[d].id \in DOMAIN phStore' /\ phStore'[phCall[d].id] = phCall[d].receipt
      <4> SUFFICES ASSUME phCall[d].at = "engine"
                   PROVE  phCall[d].id \in DOMAIN phStore' /\ phStore'[phCall[d].id] = phCall[d].receipt
        OBVIOUS
      <4>1. phJournal = <<[id |-> phCall[d].id, receipt |-> phCall[d].receipt]>>
        BY <1>2, <3>1 DEF PatientCall
      <4>2. 1 \in DOMAIN phJournal /\ phJournal[1].id = phCall[d].id /\ phJournal[1].receipt = phCall[d].receipt
        BY <4>1
      <4> QED
        BY <2>1, <4>2
    <3> QED
      BY <1>2, <2>1, <3>2, <3>3 DEF PatientCall
  <2>3. /\ \A i, j \in DOMAIN phJournal' : i = j
        /\ \A i \in DOMAIN phJournal' : GoesOnFrom(phJournal[i].id, phJournal[i].receipt)'
    BY <2>1
  <2> QED
    BY <1>1, <1>2, <2>1, <2>2, <2>3 DEF PatientHolds
<1> QED
  BY <1>4, <1>5, <1>6, <1>7 DEF PhInvariant, PhPlaces, PhCopies

\* The authority applies, and keeps the invariant: what it applied is what the receipt says.
LEMMA AuthorityHolds ==
  ASSUME PhInvariant, NEW c \in PhCallers, AuthorityApplies(c)
  PROVE  PhInvariant'
<1>1. PhTypes /\ PhPlaces /\ PhCopies /\ PatientHolds
  BY DEF PhInvariant, PhPlaces, PhCopies
<1>2. phCall[c].at = "authority" /\ UNCHANGED <<phStore, phJournal, phUsed>>
  BY DEF AuthorityApplies
<1> DEFINE id == phCall[c].id
           receipt == phCall[c].receipt
<1>3. /\ phCall[c] \in PhCalls /\ receipt \in Receipts /\ TellsOneCourse(receipt) /\ id \in PhIds /\ phCall[c].op = "apply"
      /\ Status(receipt) = "applying" /\ id # 0
  BY <1>1, <1>2, CallTyped DEF PlaceHolds
<1>4. PICK status \in {"applied", "failed"}, done \in BOOLEAN :
          /\ status = "applied" => done
          /\ phApplied' = IF done THEN Stored(phCall[c].id, phCall[c].receipt.content, phApplied) ELSE phApplied
          /\ PhGoto(c, Writes(phCall[c], Transition(phCall[c].receipt, status,
                                                    IF status = "applied" THEN {"application"} ELSE {"failure"})))
  BY DEF AuthorityApplies
<1> DEFINE fields == IF status = "applied" THEN {"application"} ELSE {"failure"}
<1>5. PICK after : after = Transition(receipt, status, fields)
  OBVIOUS
<1>6. after \in Receipts /\ TellsOneCourse(after) /\ Status(after) = status
      /\ after.content = receipt.content /\ IsPrefix(receipt.audit, after.audit)
  <2>1. /\ fields \in SUBSET {"authorization", "admission", "application", "failure", "automatic"}
        /\ "authorization" \notin fields /\ "admission" \notin fields /\ ("application" \in fields <=> status = "applied")
    OBVIOUS
  <2>2. status \in PhStatuses /\ Follows(Status(receipt), status)
    BY <1>3 DEF PhStatuses, FinalStatuses, Follows, StatusModel
  <2> HIDE DEF fields
  <2> QED
    BY <1>3, <1>5, <2>1, <2>2, TransitionGoesOn
<1>7. PICK call : call = Writes(phCall[c], after)
  OBVIOUS
<1>8. phCall' = [phCall EXCEPT ![c] = call]
  BY <1>4, <1>5, <1>7 DEF PhGoto
<1>9. call \in PhCalls /\ call.at = "put" /\ call.op = "apply" /\ call.id = id /\ call.receipt = after
  BY <1>3, <1>6, <1>7 DEF Writes, PhCalls
<1>10. PlaceHolds(call)
  BY <1>3, <1>6, <1>9 DEF PlaceHolds
<1>11. phCall' \in [PhCallers -> PhCalls] /\ PhPlaces'
  BY <1>1, <1>8, <1>9, <1>10, CallsKeep
<1>12. /\ DOMAIN phApplied \subseteq DOMAIN phApplied' /\ DOMAIN phApplied' \subseteq DOMAIN phApplied \cup {id}
       /\ status = "applied" => id \in DOMAIN phApplied'
       /\ \A i \in DOMAIN phApplied' : IF i = id /\ done THEN phApplied'[i] = receipt.content
                                       ELSE i \in DOMAIN phApplied /\ phApplied'[i] = phApplied[i]
  BY <1>4 DEF Stored
<1>13. PhTypes'
  BY <1>1, <1>2, <1>3, <1>11, <1>12 DEF PhTypes, PhEntries, PhIds, PhCalls
<1>14. PhCopies'
  <2>1. PICK contents \in [1..MaxReceipts -> PhContent] : CopiesHold(contents)
    BY <1>1 DEF PhCopies
  <2>2. CopyHolds(contents, DOMAIN phApplied, id, receipt)
    BY <1>2, <2>1 DEF CopiesHold, InHand
  <2>3. InHand(call) => CopyHolds(contents, DOMAIN phApplied', call.id, call.receipt)
    BY <1>6, <1>9, <1>12, <2>2 DEF CopyHolds
  <2>4. \A i \in DOMAIN phApplied' : phApplied'[i] = contents[i]
    BY <1>12, <2>1, <2>2 DEF CopiesHold, CopyHolds
  <2>5. \A i, r : CopyHolds(contents, DOMAIN phApplied, i, r) => CopyHolds(contents, DOMAIN phApplied', i, r)
    BY <1>12 DEF CopyHolds
  <2>6. CopiesHold(contents)'
    BY <1>1, <1>2, <1>8, <1>12, <2>1, <2>3, <2>4, <2>5, CopiesKeep DEF CopiesHold
  <2> QED
    BY <2>6 DEF PhCopies
<1>15. PatientHolds'
  <2>1. ASSUME phUsed.scenario.patient
        PROVE  /\ \A d \in PhCallers \ {c} : phCall[d].op = "none" /\ phCall[d].at = "idle"
               /\ PatientCall(call)'
               /\ phJournal' = <<>>
               /\ \A i \in DOMAIN phApplied' : i \in DOMAIN phStore' /\ Contains(phStore'[i].audit, "applying")
    <3>1. phJournal = <<>> /\ id \in DOMAIN phStore /\ phStore[id] = receipt
      BY <1>1, <1>2, <2>1 DEF PatientHolds, PatientCall
    <3>2. PatientCall(call)'
      BY <1>2, <1>6, <1>9, <3>1 DEF PatientCall, GoesOnFrom
    <3>3. Contains(receipt.audit, "applying")
      <4>1. receipt.audit \in Seq(PhStatuses) /\ receipt.audit # <<>> /\ receipt.audit[Len(receipt.audit)] = "applying"
        BY <1>3 DEF Receipts, Status, Last
      <4>2. Len(receipt.audit) \in 1..Len(receipt.audit)
        BY <4>1
      <4> QED
        BY <4>1, <4>2 DEF Contains
    <3>4. \A i \in DOMAIN phApplied' : i \in DOMAIN phStore' /\ Contains(phStore'[i].audit, "applying")
      BY <1>1, <1>2, <1>12, <2>1, <3>1, <3>3 DEF PatientHolds
    <3> QED
      BY <1>1, <1>2, <1>3, <2>1, <3>1, <3>2, <3>4, OneCall
  <2>2. phUsed.scenario.patient => phJournal' = <<>>
    BY <2>1
  <2>3. phUsed.scenario.patient =>
           /\ \A i, j \in DOMAIN phJournal' : i = j
           /\ \A i \in DOMAIN phJournal' : GoesOnFrom(phJournal[i].id, phJournal[i].receipt)'
           /\ \A i, j \in DOMAIN phStore' : i = j
    BY <1>1, <1>2, <2>2 DEF PatientHolds
  <2> QED
    BY <1>1, <1>2, <1>8, <2>1, <2>3, PatientKeeps
<1> QED
  BY <1>11, <1>13, <1>14, <1>15 DEF PhInvariant, PhPlaces, PhCopies

\* No caller, engine, authority or interruption breaks the invariant.
LEMMA PhKept == ASSUME PhInvariant, PhNext PROVE PhInvariant'
<1>1. ASSUME NEW c \in PhCallers, Interrupted(c) PROVE PhInvariant'
  <2>1. /\ phUsed' \in [scenario : PhScenarios, ids : 0..MaxReceipts, calls : Nat, troubles : Nat]
        /\ phUsed'.scenario = phUsed.scenario /\ phUsed'.ids = phUsed.ids
    BY <1>1 DEF Interrupted, PhInvariant, PhTypes
  <2> QED
    BY <1>1, <2>1, EndHolds DEF Interrupted
<1> QED
  BY <1>1, BeginHolds, ReceiveHolds, GetHolds, PutHolds, EngineHolds, AuthorityHolds, OtherEngineHolds DEF PhNext

\* A receipt tells one course, what it calls applied was done, and patient callers leave nothing unrecorded.
LEMMA PhPromises == PhInvariant => ProposalsSafe
<1> SUFFICES ASSUME PhInvariant PROVE ProposalsSafe
  OBVIOUS
<1>1. PICK contents \in [1..MaxReceipts -> PhContent] : CopiesHold(contents)
  BY DEF PhInvariant
<1>2. ReceiptsTellOneCourse
  BY <1>1 DEF ReceiptsTellOneCourse, CopiesHold, CopyHolds
<1>3. AppliedIsDone
  BY <1>1 DEF AppliedIsDone, CopiesHold, CopyHolds
<1>4. NothingUnrecorded
  <2> SUFFICES ASSUME phUsed.scenario.patient
               PROVE  /\ Cardinality(DOMAIN phStore) <= 1
                      /\ \A id \in DOMAIN phApplied : Contains(phStore[id].audit, "applying")
    BY DEF NothingUnrecorded
  <2>1. /\ \A i, j \in DOMAIN phStore : i = j
        /\ \A id \in DOMAIN phApplied : Contains(phStore[id].audit, "applying")
    BY DEF PhInvariant, PatientHolds
  <2>2. CASE DOMAIN phStore = {}
    <3>1. Cardinality(DOMAIN phStore) = 0
      BY <2>2, FS_EmptySet
    <3> QED
      BY <2>1, <3>1
  <2>3. CASE DOMAIN phStore # {}
    <3>1. PICK id : id \in DOMAIN phStore
      BY <2>3
    <3>2. DOMAIN phStore = {id}
      BY <2>1, <3>1
    <3>3. Cardinality(DOMAIN phStore) = 1
      BY <3>2, FS_Singleton
    <3> QED
      BY <2>1, <3>3
  <2> QED
    BY <2>2, <2>3
<1> QED
  BY <1>2, <1>3, <1>4 DEF ProposalsSafe

\* Nothing is applied without an admission, and between patient callers audits only grow.
LEMMA PhSteps == ASSUME PhInvariant, PhNext PROVE HistoryKept
<1>1. PhTypes /\ PhPlaces /\ PhCopies /\ PatientHolds
  BY DEF PhInvariant, PhPlaces, PhCopies
<1>2. ASSUME DOMAIN phApplied' # DOMAIN phApplied
      PROVE  \E c \in PhCallers : phCall[c].at = "authority" /\ "admission" \in phCall[c].receipt.fields
  <2>1. PICK c \in PhCallers : AuthorityApplies(c)
    BY <1>2 DEF PhNext, Submitted, Called, Receive, PhGet, PhPut, EngineRuns, Interrupted, OtherEngine
  <2>2. phCall[c].at = "authority" /\ Status(phCall[c].receipt) = "applying"
        /\ TellsOneCourse(phCall[c].receipt) /\ phCall[c].receipt \in Receipts
    BY <1>1, <2>1, CallTyped DEF AuthorityApplies, PlaceHolds
  <2> DEFINE audit == phCall[c].receipt.audit
  <2>3. audit \in Seq(PhStatuses) /\ audit # <<>> /\ audit[Len(audit)] = "applying" /\ audit[1] = "received"
    BY <2>2 DEF Receipts, Status, Last, TellsOneCourse
  <2>4. PICK l \in Nat : l = Len(audit) /\ l # 0 /\ l # 1
    BY <2>3
  <2>5. l - 1 \in 1..(Len(audit) - 1) /\ l - 1 \in 1..Len(audit) /\ audit[l - 1 + 1] = "applying"
    BY <2>3, <2>4
  <2>6. Follows(audit[l - 1], "applying")
    BY <2>2, <2>5 DEF TellsOneCourse
  <2>7. audit[l - 1] = "admitted"
    BY <2>6 DEF Follows, StatusModel
  <2>8. Contains(audit, "admitted")
    BY <2>5, <2>7 DEF Contains
  <2> QED
    BY <2>2, <2>8 DEF TellsOneCourse
<1>3. ASSUME phUsed.scenario.patient, NEW id \in DOMAIN phStore
      PROVE  IsPrefix(phStore[id].audit, phStore'[id].audit)
  <2>1. CASE phStore' = phStore
    BY <1>1, <2>1, AuditTyped DEF PhTypes
  <2>2. ASSUME NEW c \in PhCallers, PhPut(c), phStore' # phStore PROVE IsPrefix(phStore[id].audit, phStore'[id].audit)
    <3>1. phCall[c].at = "put" /\ phStore' = Stored(phCall[c].id, phCall[c].receipt, phStore) /\ phApplied' = phApplied
      BY <2>2 DEF PhPut
    <3>2. phCall[c].receipt \in Receipts /\ GoesOnFrom(phCall[c].id, phCall[c].receipt)
      BY <1>1, <1>3, <3>1, CallTyped DEF PatientHolds, PatientCall
    <3>3. /\ DOMAIN phStore' = DOMAIN phStore \cup {phCall[c].id} /\ phStore'[phCall[c].id] = phCall[c].receipt
          /\ \A i \in DOMAIN phStore : i # phCall[c].id => phStore'[i] = phStore[i]
      BY <3>1 DEF Stored
    <3> QED
      BY <1>1, <1>3, <3>1, <3>2, <3>3, StoreGoesOn
  <2>3. ASSUME NEW n \in 0..Len(phJournal), n = Len(phJournal) \/ n >= 1, Commits(n), UNCHANGED <<phUsed, phApplied>>
        PROVE  IsPrefix(phStore[id].audit, phStore'[id].audit)
    BY <1>1, <1>3, <2>3, CommitGoesOn
  <2>4. ASSUME NEW c \in PhCallers, EngineRuns(c) PROVE IsPrefix(phStore[id].audit, phStore'[id].audit)
    <3>1. Len(phJournal) \in 0..Len(phJournal)
      <4>1. Len(phJournal) \in Nat
        BY <1>1, JournalTyped
      <4> QED
        BY <4>1
    <3> QED
      BY <2>3, <2>4, <3>1 DEF EngineRuns
  <2>5. ASSUME OtherEngine PROVE IsPrefix(phStore[id].audit, phStore'[id].audit)
    <3>1. Len(phJournal) \in Nat
      BY <1>1, JournalTyped
    <3>2. PICK n \in 1..Len(phJournal) : Commits(n)
      BY <2>5 DEF OtherEngine
    <3>3. n \in 0..Len(phJournal) /\ n >= 1
      BY <3>1
    <3> QED
      BY <2>3, <2>5, <3>2, <3>3 DEF OtherEngine
  <2>6. phStore' = phStore \/ (\E c \in PhCallers : PhPut(c) \/ EngineRuns(c)) \/ OtherEngine
    BY DEF PhNext, Submitted, Called, Receive, PhGet, AuthorityApplies, Interrupted
  <2> QED
    BY <2>1, <2>2, <2>4, <2>5, <2>6
<1> QED
  BY <1>2, <1>3 DEF HistoryKept
-----------------------------------------------------------------------------
(***************************************************************************)
(* The parts together: one of them goes on, and the others rest.           *)
(***************************************************************************)
PartsInvariant == SaInvariant /\ RrInvariant /\ FdInvariant /\ SvInvariant /\ PhInvariant

\* Locks that rest.
LEMMA SaRests == ASSUME SaInvariant, UNCHANGED saVars PROVE SaInvariant'
BY DEF saVars, SaInvariant, SaTypes, HoldersAreApart, Holding, MemoryIsOfLocks, TokensAreOfLocks, LocksCanBeReleased

\* Appends and subscriptions that rest.
LEMMA RrRests == ASSUME RrInvariant, UNCHANGED rrVars PROVE RrInvariant'
BY DEF rrVars, rrAppends, RrInvariant, RrTypes, EntriesAreArranged, Arranged, ConnectionIsOfPlace

\* A kernel that rests.
LEMMA FdRests == ASSUME FdInvariant, UNCHANGED fdVars PROVE FdInvariant'
<1>1. fdKernel' = fdKernel /\ fdController' = fdController /\ fdDriver' = fdDriver /\ fdFace' = fdFace /\ fdLeft' = fdLeft
  BY DEF fdVars
<1>2. FdTypes' /\ ControllerBusy' /\ NotesAreKnown' /\ ListenerHas'
  BY <1>1 DEF FdInvariant, FdTypes, ControllerBusy, NotesAreKnown, ListenerHas
<1>3. Reconfiguring' = Reconfiguring
  BY <1>1 DEF Reconfiguring
<1>4. QueueHolds'
  BY <1>1, <1>3 DEF FdInvariant, QueueHolds, JobHolds
<1>5. ProgramHolds'
  BY <1>1, <1>3 DEF FdInvariant, ProgramHolds, CallHolds, ProgramIsLowered
<1>6. AnswersHold'
  BY <1>1 DEF FdInvariant, AnswersHold
<1> QED
  BY <1>2, <1>4, <1>5, <1>6 DEF FdInvariant

\* A service host that rests.
LEMMA SvRests == ASSUME SvInvariant, UNCHANGED svVars PROVE SvInvariant'
<1>1. UNCHANGED <<svHost, svStore, svPending, svRec, svAt, svCancel, svAdapter, svTool, svWorld>>
  BY DEF svVars
<1>2. SvTypes' /\ PendingHolds' /\ AdapterHolds'
  BY <1>1 DEF SvInvariant, SvTypes, PendingHolds, AdapterHolds
<1>3. RequestsHold'
  BY <1>1 DEF SvInvariant, RequestsHold, RequestHolds, StatusHolds, RunsHold
<1> QED
  BY <1>2, <1>3 DEF SvInvariant

\* A host of proposals that rests.
LEMMA PhRests == ASSUME PhInvariant, UNCHANGED phVars PROVE PhInvariant'
<1>1. UNCHANGED <<phStore, phJournal, phCall, phApplied, phUsed>>
  BY DEF phVars
<1>2. PhTypes'
  BY <1>1 DEF PhInvariant, PhTypes, PhIds, PhCalls, PhEntries
<1>3. PatientHolds'
  BY <1>1 DEF PhInvariant, PatientHolds, PatientCall, GoesOnFrom
<1>4. \A c \in PhCallers : PlaceHolds(phCall[c])'
  BY <1>1 DEF PhInvariant, PlaceHolds
<1>5. PICK contents \in [1..MaxReceipts -> PhContent] : CopiesHold(contents)
  BY DEF PhInvariant
<1>6. CopiesHold(contents)'
  BY <1>1, <1>5 DEF CopiesHold
<1> QED
  BY <1>2, <1>3, <1>4, <1>6 DEF PhInvariant

\* What a step of the parts is: that of one of them, while the others rest.
LEMMA OnePartGoesOn ==
  ASSUME [PartsNext]_partsVars
  PROVE  /\ SaNext \/ UNCHANGED saVars
         /\ RrNext \/ UNCHANGED rrVars
         /\ FdNext \/ UNCHANGED fdVars
         /\ SvNext \/ UNCHANGED svVars
         /\ PhNext \/ UNCHANGED phVars
BY DEF PartsNext, Rests, partsVars

\* The invariants of the parts hold from the beginning on.
LEMMA PartsInvariantHolds == PartsSpec => []PartsInvariant
<1>1. PartsInit => PartsInvariant
  BY SaInitial, RrInitial, FdInitial, SvInitial, PhInitial DEF PartsInit, PartsInvariant
<1>2. PartsInvariant /\ [PartsNext]_partsVars => PartsInvariant'
  <2> SUFFICES ASSUME PartsInvariant, [PartsNext]_partsVars PROVE PartsInvariant'
    OBVIOUS
  <2>1. SaInvariant' /\ RrInvariant' /\ FdInvariant'
    BY OnePartGoesOn, SaKept, SaRests, RrKept, RrRests, FdKept, FdRests DEF PartsInvariant
  <2>2. SvInvariant' /\ PhInvariant'
    BY OnePartGoesOn, SvKept, SvRests, PhKept, PhRests DEF PartsInvariant
  <2> QED
    BY <2>1, <2>2 DEF PartsInvariant
<1> QED
  BY <1>1, <1>2, PTL DEF PartsSpec

(***************************************************************************)
(* Locks protect work and are released by their holders only, an answered  *)
(* append is not overlooked, no connection outlives its subscriber, and    *)
(* who drives a kernel and listens to it sees its newest state and the     *)
(* program of its Blueprint (dispatch.ts:195, http.ts:150,                 *)
(* azure-function.ts:99).                                                  *)
(***************************************************************************)
THEOREM AccessStaysSafe == PartsSpec => []AccessSafe
<1>1. PartsInvariant => AccessSafe
  BY SaPromises, RrPromises, FdPromises DEF PartsInvariant, AccessSafe
<1> QED
  BY <1>1, PartsInvariantHolds, PTL

(***************************************************************************)
(* Requests are neither forgotten nor stuck nor run too often, adapters    *)
(* are shared, and a receipt tells what became of its proposal             *)
(* (service-host.ts:691, service-host.ts:785, service-kinds.ts:196,        *)
(* host.ts:54).                                                            *)
(***************************************************************************)
THEOREM ServicesStaySafe == PartsSpec => []ServicesSafe
<1>1. PartsInvariant => ServicesSafe
  BY SvPromises, PhPromises DEF PartsInvariant, ServicesSafe
<1> QED
  BY <1>1, PartsInvariantHolds, PTL

\* A host of requests that rests neither runs, finishes nor forgets anything.
LEMMA SvRestsSteps ==
  ASSUME SvInvariant, UNCHANGED svVars
  PROVE  StartsAuthorized /\ FinalNeverRuns /\ ToolsEndWithTheirAttempt /\ CancelStands
<1>1. svStore' = svStore /\ svRec' = svRec /\ svTool' = svTool /\ svAt' = svAt
  BY DEF svVars
<1>2. \A r \in SvRequests : svRec[r].runs \in Nat
  BY CountsTyped DEF SvInvariant, SvTypes
<1>3. StartsAuthorized
  <2> SUFFICES ASSUME NEW r \in SvRequests, svRec'[r].runs > svRec[r].runs PROVE FALSE
    BY DEF StartsAuthorized
  <2> QED
    BY <1>1, <1>2
<1> QED
  BY <1>1, <1>3 DEF FinalNeverRuns, ToolsEndWithTheirAttempt, CancelStands

\* A host of proposals that rests applies nothing and takes nothing back.
LEMMA PhRestsSteps == ASSUME PhInvariant, UNCHANGED phVars PROVE HistoryKept
<1>1. phApplied' = phApplied /\ phStore' = phStore
  BY DEF phVars
<1>2. \A id \in DOMAIN phStore : IsPrefix(phStore[id].audit, phStore[id].audit)
  BY AuditTyped DEF PhInvariant, PhTypes
<1> QED
  BY <1>1, <1>2 DEF HistoryKept

(***************************************************************************)
(* An adapter starts only while it is authorized, a final request never    *)
(* runs again, a tool ends with its attempt, a cancel stands, and nothing  *)
(* is applied without an admission nor taken back.                         *)
(***************************************************************************)
THEOREM ServicesStepHolds == PartsSpec => ServicesStep
<1>1. PartsInvariant /\ [PartsNext]_partsVars =>
          StartsAuthorized /\ FinalNeverRuns /\ ToolsEndWithTheirAttempt /\ CancelStands /\ HistoryKept
  <2> SUFFICES ASSUME PartsInvariant, [PartsNext]_partsVars
               PROVE  StartsAuthorized /\ FinalNeverRuns /\ ToolsEndWithTheirAttempt /\ CancelStands /\ HistoryKept
    OBVIOUS
  <2> QED
    BY OnePartGoesOn, SvSteps, SvRestsSteps, PhSteps, PhRestsSteps DEF PartsInvariant
<1> QED
  BY <1>1, PartsInvariantHolds, PTL DEF PartsSpec, ServicesStep
===============================================================================
