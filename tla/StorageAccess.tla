----------------------------- MODULE StorageAccess -----------------------------
(***************************************************************************)
(* Storage over HTTP: the remote storage library, the dispatchers that     *)
(* serve the Cosmos and the filesystem library, batches of operations, and *)
(* relay locks that clients hold by a token.                               *)
(*                                                                         *)
(* The first part is about one call: a client turns a method and its       *)
(* arguments into a request, JSON makes null of what is undefined, and the *)
(* dispatcher finds the storage, the method and its arguments again.  The  *)
(* second part is about locks, whose calls and answers may be lost.        *)
(***************************************************************************)
EXTENDS Naturals, FiniteSets, Sequences, SequencesExt, Functions

CONSTANTS
    SaClients,     \* clients of the relay locks
    SaRefs,        \* refs with a relay lock
    SaServers,     \* the dispatchers looked at, of "cosmos" and "filesystem"
    MaxSaTokens,   \* bound: tokens issued
    MaxSaTroubles  \* bound: lost calls, lapses, failed releases, restarts

ASSUME SaBounds == MaxSaTokens \in Nat \ {0} /\ MaxSaTroubles \in Nat

-------------------------------------------------------------------------------
(***************************************************************************)
(* The methods of the storages and the kinds of their parameters: texts,   *)
(* texts that may be left out, texts or null, values, bytes, and options   *)
(* that may be left out.                                                   *)
(***************************************************************************)
KvMethods ==
    [read |-> <<"text">>, write |-> <<"text", "value">>, delete |-> <<"text">>, listKeys |-> <<"maybe">>]

JsonMethods == KvMethods @@
    [get |-> <<"text", "text">>, shallowMerge |-> <<"text", "value">>, deepMerge |-> <<"text", "value">>,
     patch |-> <<"text", "text", "value">>]

BlobMethods ==
    [read |-> <<"text">>, write |-> <<"text", "text">>, exists |-> <<"text">>, remove |-> <<"text">>,
     readBytes |-> <<"text">>, writeBytes |-> <<"text", "bytes">>, listKeys |-> <<"maybe">>, stat |-> <<"text">>,
     renameKey |-> <<"text", "text">>]

JournalMethods ==
    [append |-> <<"value">>, readAll |-> <<>>, readAfter |-> <<"nullable">>, clear |-> <<>>]

QueueMethods ==
    [enqueue |-> <<"value">>, enqueueMany |-> <<"value">>, enqueueIfAbsent |-> <<"value", "text">>,
     lease |-> <<"options">>, ack |-> <<"text", "text">>, nack |-> <<"text", "text", "options">>,
     peekActive |-> <<"maybe">>, peekDeadLetter |-> <<"maybe">>, stage |-> <<"value", "options">>,
     commitStaged |-> <<"text">>, discardStaged |-> <<"text", "maybe">>, peekStaged |-> <<"maybe">>]

ConfigMethods == "config.get" :> <<"text">> @@ "config.set" :> <<"text", "value">>

ScratchMethods == BlobMethods @@ ConfigMethods @@
    [getUniqueKey |-> <<"maybe", "maybe">>, create |-> <<"text", "maybe", "maybe">>]

ArchiveMethods == ConfigMethods @@ [listStreams |-> <<"maybe">>, listBlobs |-> <<"maybe">>]

-------------------------------------------------------------------------------
(***************************************************************************)
(* The remote client.  A request names ref, capability, operation and      *)
(* arguments, and the lane or the resource of an archive.                  *)
(***************************************************************************)
Nothing == "none"
Undefined == [is |-> "undefined", coded |-> FALSE]
Null == [is |-> "null", coded |-> FALSE]
Coded(v) == [v EXCEPT !.coded = TRUE]
Decoded(v) == IF v.coded THEN [v EXCEPT !.coded = FALSE] ELSE [is |-> "garbage", coded |-> FALSE]

\* What a call names: the storage of a ref, a lane of it, or a resource of its archive.
Storage(capability, lane, resource) == [capability |-> capability, lane |-> lane, resource |-> resource]
Resource(kind, name) == [kind |-> kind, name |-> name]
NoResource == Resource(Nothing, Nothing)

RemoteStorage(capability) == Storage(capability, Nothing, NoResource)
RemoteQueueStorage(lane) == Storage("queue", lane, NoResource)
RemoteArchiveStream(name) == Storage("archive", Nothing, Resource("stream", name))
RemoteArchiveBlob(name) == Storage("archive", Nothing, Resource("blob", name))

\* writeBytes sends its bytes in base64; the other arguments go as they are.
RemoteArgument(kind, v) == IF kind = "bytes" THEN Coded(v) ELSE v

RemoteCall(ref, storage, operation, kinds, given) ==
    [ref |-> ref, capability |-> storage.capability, lane |-> storage.lane, resource |-> storage.resource,
     operation |-> operation, args |-> [i \in DOMAIN given |-> RemoteArgument(kinds[i], given[i])]]

\* JSON.stringify of the arguments.
OnTheWire(call) ==
    [call EXCEPT !.args = [i \in DOMAIN @ |-> IF @[i] = Undefined THEN Null ELSE @[i]]]

\* Arguments that are left out at the end of a list that is written by hand.
LeftOut(call) ==
    [call EXCEPT !.args = LET last == {i \in DOMAIN @ : @[i] # Undefined}
                          IN  SubSeq(@, 1, IF last = {} THEN 0 ELSE Max(last))]

\* readBytes decodes what comes back.
RemoteResult(operation, result) ==
    IF operation = "readBytes" /\ result # Null THEN Decoded(result) ELSE result

-------------------------------------------------------------------------------
(***************************************************************************)
(* The dispatchers: for each operation what is made of its arguments by    *)
(* position - String(...), optionalString(...), decoding, or nothing.      *)
(***************************************************************************)
CosmosBlobDispatch ==
    [read |-> <<"String">>, write |-> <<"String", "String">>, exists |-> <<"String">>, remove |-> <<"String">>,
     listKeys |-> <<"optional">>, renameKey |-> <<"String", "String">>, stat |-> <<"String">>,
     readBytes |-> <<"String">>, writeBytes |-> <<"String", "decode">>]

CosmosJournalDispatch ==
    [append |-> <<"as is">>, readAll |-> <<>>, readAfter |-> <<"String or null">>, clear |-> <<>>]

CosmosKvDispatch ==
    [read |-> <<"String">>, write |-> <<"String", "as is">>, delete |-> <<"String">>, listKeys |-> <<"optional">>]

CosmosJsonDispatch ==
    [read |-> <<"String">>, write |-> <<"String", "as is">>, delete |-> <<"String">>, listKeys |-> <<"optional">>,
     get |-> <<"String", "String">>, shallowMerge |-> <<"String", "as is">>, deepMerge |-> <<"String", "as is">>,
     patch |-> <<"String", "String", "as is">>]

CosmosQueueDispatch ==
    [enqueue |-> <<"as is">>, enqueueMany |-> <<"as is">>, enqueueIfAbsent |-> <<"as is", "String">>,
     lease |-> <<"as is">>, ack |-> <<"String", "String">>, nack |-> <<"String", "String", "as is">>,
     peekActive |-> <<"optional">>, peekDeadLetter |-> <<"optional">>, stage |-> <<"as is", "as is">>,
     commitStaged |-> <<"String">>, discardStaged |-> <<"String", "optional">>, peekStaged |-> <<"optional">>]

CosmosScratchDispatch == CosmosBlobDispatch @@
    "config.get" :> <<"String">> @@ "config.set" :> <<"String", "as is">> @@
    [getUniqueKey |-> <<"as is", "as is">>, create |-> <<"String", "as is", "as is">>]

\* The archive's own operations come first, then those of the named resource.
CosmosArchiveDispatch(resource) ==
    "config.get" :> <<"String">> @@ "config.set" :> <<"String", "as is">> @@
    [listStreams |-> <<"optional">>, listBlobs |-> <<"optional">>] @@
    (IF resource.name = Nothing THEN <<>>
     ELSE IF resource.kind = "stream" THEN CosmosJournalDispatch ELSE CosmosBlobDispatch)

CosmosDispatch(call) ==
    CASE call.capability = "kv" -> CosmosKvDispatch
      [] call.capability = "json" -> CosmosJsonDispatch
      [] call.capability = "blob" -> CosmosBlobDispatch
      [] call.capability = "journal" -> CosmosJournalDispatch
      [] call.capability = "queue" -> CosmosQueueDispatch
      [] call.capability = "scratch" -> CosmosScratchDispatch
      [] call.capability = "archive" -> CosmosArchiveDispatch(call.resource)
      [] OTHER -> <<>>

FsBlobDispatch ==
    [read |-> <<"String">>, write |-> <<"String", "String">>, exists |-> <<"String">>, remove |-> <<"String">>,
     listKeys |-> <<"optional">>, renameKey |-> <<"String", "String">>, stat |-> <<"String">>,
     readBytes |-> <<"String">>, writeBytes |-> <<"String", "decode">>]

FsJournalDispatch ==
    [append |-> <<"as is">>, readAll |-> <<>>, readAfter |-> <<"String or null">>, clear |-> <<>>]

FsKvDispatch ==
    [read |-> <<"String">>, write |-> <<"String", "as is">>, delete |-> <<"String">>, listKeys |-> <<"optional">>]

FsJsonDispatch ==
    [read |-> <<"String">>, write |-> <<"String", "as is">>, delete |-> <<"String">>, listKeys |-> <<"optional">>,
     get |-> <<"String", "String">>, shallowMerge |-> <<"String", "as is">>, deepMerge |-> <<"String", "as is">>,
     patch |-> <<"String", "String", "as is">>]

FsQueueDispatch ==
    [enqueue |-> <<"as is">>, enqueueMany |-> <<"as is">>, enqueueIfAbsent |-> <<"as is", "String">>,
     lease |-> <<"as is">>, ack |-> <<"String", "String">>, nack |-> <<"String", "String", "as is">>,
     peekActive |-> <<"optional">>, peekDeadLetter |-> <<"optional">>, stage |-> <<"as is", "as is">>,
     commitStaged |-> <<"String">>, discardStaged |-> <<"String", "optional">>, peekStaged |-> <<"optional">>]

FsScratchDispatch == FsBlobDispatch @@
    "config.get" :> <<"String">> @@ "config.set" :> <<"String", "as is">> @@
    [getUniqueKey |-> <<"optional", "optional">>, create |-> <<"String", "optional", "optional">>]

FsArchiveDispatch(resource) ==
    "config.get" :> <<"String">> @@ "config.set" :> <<"String", "as is">> @@
    [listStreams |-> <<"optional">>, listBlobs |-> <<"optional">>] @@
    (IF resource.name = Nothing THEN <<>>
     ELSE IF resource.kind = "stream" THEN FsJournalDispatch ELSE FsBlobDispatch)

FsDispatch(call) ==
    CASE call.capability = "kv" -> FsKvDispatch
      [] call.capability = "json" -> FsJsonDispatch
      [] call.capability = "blob" -> FsBlobDispatch
      [] call.capability = "journal" -> FsJournalDispatch
      [] call.capability = "queue" -> FsQueueDispatch
      [] call.capability = "scratch" -> FsScratchDispatch
      [] call.capability = "archive" -> FsArchiveDispatch(call.resource)
      [] OTHER -> <<>>

\* What the conversions make of a value; String(null) is a text of its own.
OptionalString(v) == IF v \in {Undefined, Null} THEN Undefined ELSE v
AsString(v) ==
    IF v = Undefined THEN [is |-> "the text undefined", coded |-> FALSE]
    ELSE IF v = Null THEN [is |-> "the text null", coded |-> FALSE] ELSE v
Converted(conversion, v) ==
    CASE conversion = "String" -> AsString(v)
      [] conversion = "optional" -> OptionalString(v)
      [] conversion = "String or null" -> IF v = Null THEN Null ELSE AsString(v)
      [] conversion = "decode" -> Decoded(AsString(v))
      [] conversion = "as is" -> v

\* readBytes answers with base64, or with null; the result of an operation without one is null.
Replied(operation, result) ==
    IF result \in {Undefined, Null} THEN Null
    ELSE IF operation = "readBytes" THEN Coded(result) ELSE result

Tables(server, call) == IF server = "cosmos" THEN CosmosDispatch(call) ELSE FsDispatch(call)
Unsupported == [operation |-> "unsupported", ref |-> Nothing, lane |-> Nothing, resource |-> NoResource, params |-> <<>>]

\* The storage's method with its arguments, undefined where the list is short.
Dispatched(server, call) ==
    LET table == Tables(server, call)
    IN  IF call.operation \notin DOMAIN table THEN Unsupported
        ELSE LET conversions == table[call.operation]
                 given(i) == IF i \in DOMAIN call.args THEN call.args[i] ELSE Undefined
             IN  [operation |-> call.operation, ref |-> call.ref, lane |-> call.lane, resource |-> call.resource,
                  params |-> [i \in DOMAIN conversions |-> Converted(conversions[i], given(i))]]

\* A default of the filesystem library's options stands in for undefined only,
\* the Cosmos library reads options through "?." and lets fallbacks replace null.
Takes(server, kind, v) ==
    IF kind \in {"options", "maybe"} /\ v = Null THEN (IF server = "cosmos" THEN Undefined ELSE Null) ELSE v

\* A call reaches the method of the storage it names, with the arguments given.
CallArrives(server, call, kinds, given) ==
    LET served == Dispatched(server, call)
    IN  /\ <<served.operation, served.ref, served.lane, served.resource>>
            = <<call.operation, call.ref, call.lane, call.resource>>
        /\ DOMAIN served.params = DOMAIN given
        /\ \A i \in DOMAIN given : Takes(server, kinds[i], served.params[i]) = given[i]

\* What the storage returns is what the client hears.
ResultArrives(operation, result) == RemoteResult(operation, Replied(operation, result)) = result

-------------------------------------------------------------------------------
(***************************************************************************)
(* A batch runs its operations in order and each has its own result.  The  *)
(* operations here write or read one key, or do not exist.                 *)
(***************************************************************************)
Outcome(ok, result) == [ok |-> ok, result |-> result]
Performed(kept, operation) ==
    CASE operation.name = "write" -> [kept |-> operation.value, outcome |-> Outcome(TRUE, "null")]
      [] operation.name = "read" -> [kept |-> kept, outcome |-> Outcome(TRUE, kept)]
      [] OTHER -> [kept |-> kept, outcome |-> Outcome(FALSE, "error")]

\* Mutant: the first failure ends the batch.
BatchUntilError(kept, operations) ==
    LET step(sum, operation) ==
            IF sum.results # <<>> /\ ~Last(sum.results).ok THEN sum
            ELSE LET done == Performed(sum.kept, operation)
                 IN  [kept |-> done.kept, results |-> Append(sum.results, done.outcome)]
    IN  FoldLeft(step, [kept |-> kept, results |-> <<>>], operations)

DispatchBatch(kept, operations) ==
    LET step(sum, operation) ==
            LET done == Performed(sum.kept, operation)
            IN  [kept |-> done.kept, results |-> Append(sum.results, done.outcome)]
    IN  FoldLeft(step, [kept |-> kept, results |-> <<>>], operations)

-------------------------------------------------------------------------------
(***************************************************************************)
(* Relay locks.  withAsyncRelayLock acquires, works and releases; the      *)
(* Cosmos library keeps the holder's token in the lock document until its  *)
(* tenure ends, the filesystem dispatcher keeps the tokens it issued in    *)
(* memory, and its lock files are kept fresh while it runs.                *)
(***************************************************************************)
VARIABLES
    saServer,   \* the dispatcher that serves
    saLock,     \* per ref: the token that holds the lock, or 0, and whether its tenure is over
    saTokens,   \* lockTokens of the filesystem dispatcher: token -> ref
    saFreeing,  \* tokens whose release() the filesystem dispatcher awaits
    saCall,     \* per client: what it does, for which ref, with which token, and the answer
    saIssued,   \* tokens issued
    saLate,     \* tokens whose tenure ended, or whose server went away, while they were held
    saTroubles  \* troubles so far

saVars == <<saServer, saLock, saTokens, saFreeing, saCall, saIssued, saLate, saTroubles>>

NoToken == 0
NoSaCall == [at |-> "idle", ref |-> CHOOSE r \in SaRefs : TRUE, token |-> NoToken]
Free == [holder |-> NoToken, over |-> FALSE]

SaInit ==
    /\ saServer \in SaServers
    /\ saLock = [r \in SaRefs |-> Free] /\ saTokens = <<>> /\ saFreeing = {}
    /\ saCall = [c \in SaClients |-> NoSaCall]
    /\ saIssued = 0 /\ saLate = {} /\ saTroubles = 0

SaTrouble == saTroubles < MaxSaTroubles /\ saTroubles' = saTroubles + 1
SaTurn(c, at) == saCall' = [saCall EXCEPT ![c].at = at]
Available(r) == saLock[r].holder = NoToken \/ saLock[r].over

\* tryAcquire() of the remote lock.
SaAsk(c, r) ==
    /\ saCall[c].at = "idle" /\ saIssued < MaxSaTokens
    /\ saCall' = [saCall EXCEPT ![c] = [at |-> "acquiring", ref |-> r, token |-> NoToken]]
    /\ UNCHANGED <<saServer, saLock, saTokens, saFreeing, saIssued, saLate, saTroubles>>

SaAcquires(c) ==
    LET r == saCall[c].ref
        token == saIssued + 1
    IN  /\ saCall[c].at = "acquiring"
        /\ IF Available(r)
           THEN /\ token <= MaxSaTokens /\ saIssued' = token
                /\ saLock' = [saLock EXCEPT ![r] = [holder |-> token, over |-> FALSE]]
                /\ saCall' = [saCall EXCEPT ![c].at = "granted", ![c].token = token]
           ELSE SaTurn(c, "refused") /\ UNCHANGED <<saLock, saIssued>>

\* "acquire" at the two dispatchers.
SaCosmosAcquires(c) ==
    /\ saServer = "cosmos" /\ SaAcquires(c)
    /\ UNCHANGED <<saServer, saTokens, saFreeing, saLate, saTroubles>>

SaFsAcquires(c) ==
    /\ saServer = "filesystem" /\ SaAcquires(c)
    /\ saTokens' = IF saIssued' = saIssued THEN saTokens
                   ELSE [token \in DOMAIN saTokens \cup {saIssued'} |->
                            IF token = saIssued' THEN saCall[c].ref ELSE saTokens[token]]
    /\ UNCHANGED <<saServer, saFreeing, saLate, saTroubles>>

\* The answer arrives: work starts, or there is none.
SaHears(c) ==
    /\ \/ saCall[c].at = "granted" /\ SaTurn(c, "working")
       \/ saCall[c].at \in {"refused", "released"} /\ saCall' = [saCall EXCEPT ![c] = NoSaCall]
    /\ UNCHANGED <<saServer, saLock, saTokens, saFreeing, saIssued, saLate, saTroubles>>

\* A call or its answer is lost: the promise rejects, and nobody has the token.
SaLoses(c) ==
    /\ saCall[c].at \in {"acquiring", "granted", "refused", "releasing", "freeing", "released"} /\ SaTrouble
    /\ saCall' = [saCall EXCEPT ![c] = NoSaCall]
    /\ UNCHANGED <<saServer, saLock, saTokens, saFreeing, saIssued, saLate>>

\* work() is done, well or not, and "finally" releases.
SaWorked(c) ==
    /\ saCall[c].at = "working" /\ SaTurn(c, "releasing")
    /\ UNCHANGED <<saServer, saLock, saTokens, saFreeing, saIssued, saLate, saTroubles>>

\* Mutant: a release frees the lock whoever holds it.
ReleasedByAnyone(c) ==
    /\ saServer = "cosmos" /\ saCall[c].at = "releasing" /\ SaTurn(c, "released")
    /\ saLock' = [saLock EXCEPT ![saCall[c].ref] = Free]
    /\ UNCHANGED <<saServer, saTokens, saFreeing, saIssued, saLate, saTroubles>>

\* releaseToken: the lock of another holder is left alone.
SaCosmosReleases(c) ==
    LET r == saCall[c].ref
    IN  /\ saServer = "cosmos" /\ saCall[c].at = "releasing" /\ SaTurn(c, "released")
        /\ saLock' = IF saLock[r].holder = saCall[c].token THEN [saLock EXCEPT ![r] = Free] ELSE saLock
        /\ UNCHANGED <<saServer, saTokens, saFreeing, saIssued, saLate, saTroubles>>

\* The filesystem dispatcher forgets a token it knows, then awaits release().
SaFsReleases(c) ==
    LET token == saCall[c].token
    IN  /\ saServer = "filesystem" /\ saCall[c].at = "releasing"
        /\ IF token \in DOMAIN saTokens /\ saTokens[token] = saCall[c].ref
           THEN /\ saTokens' = Restrict(saTokens, DOMAIN saTokens \ {token})
                /\ saFreeing' = saFreeing \cup {token} /\ SaTurn(c, "freeing")
           ELSE SaTurn(c, "released") /\ UNCHANGED <<saTokens, saFreeing>>
        /\ UNCHANGED <<saServer, saLock, saIssued, saLate, saTroubles>>

\* release() frees the lock file, or rejects and leaves it to become stale.
SaFrees(token) ==
    LET mine(r) == saLock[r].holder = token
        freed(c) == saCall[c].at = "freeing" /\ saCall[c].token = token
    IN  /\ token \in saFreeing /\ saFreeing' = saFreeing \ {token}
        /\ \/ saLock' = [r \in SaRefs |-> IF mine(r) THEN Free ELSE saLock[r]] /\ UNCHANGED <<saLate, saTroubles>>
           \/ SaTrouble /\ saLate' = saLate \cup {token} /\ UNCHANGED saLock
        /\ saCall' = [c \in SaClients |-> IF freed(c) THEN [saCall[c] EXCEPT !.at = "released"] ELSE saCall[c]]
        /\ UNCHANGED <<saServer, saTokens, saIssued>>

\* The tenure of a Cosmos lock ends; a lock file nobody keeps fresh is stale.
SaLapses(r) ==
    /\ saLock[r].holder # NoToken /\ ~saLock[r].over
    /\ saServer = "cosmos" \/ saLock[r].holder \in saLate
    /\ SaTrouble /\ saLate' = saLate \cup {saLock[r].holder}
    /\ saLock' = [saLock EXCEPT ![r].over = TRUE]
    /\ UNCHANGED <<saServer, saTokens, saFreeing, saCall, saIssued>>

\* The filesystem server restarts: tokens and calls are gone, lock files stay.
SaRestarts ==
    /\ saServer = "filesystem" /\ SaTrouble
    /\ saTokens' = <<>> /\ saFreeing' = {}
    /\ saLate' = saLate \cup DOMAIN saTokens \cup saFreeing
    /\ saCall' = [c \in SaClients |->
                    IF saCall[c].at \in {"idle", "working"} THEN saCall[c] ELSE NoSaCall]
    /\ UNCHANGED <<saServer, saLock, saIssued>>

SaClientStep(c) ==
    \/ \E r \in SaRefs : SaAsk(c, r)
    \/ SaCosmosAcquires(c) \/ SaFsAcquires(c) \/ SaHears(c) \/ SaLoses(c)
    \/ SaWorked(c) \/ SaCosmosReleases(c) \/ SaFsReleases(c)

SaNext ==
    \/ \E c \in SaClients : SaClientStep(c)
    \/ \E token \in 1..MaxSaTokens : SaFrees(token)
    \/ \E r \in SaRefs : SaLapses(r)
    \/ SaRestarts

-------------------------------------------------------------------------------
(***************************************************************************)
(* Who works under a lock whose tenure lasts is its holder, and a token    *)
(* the filesystem dispatcher knows is that of a lock it keeps.             *)
(***************************************************************************)
WorkIsExclusive == \A c \in SaClients :
    (saCall[c].at = "working" /\ saCall[c].token \notin saLate) => saLock[saCall[c].ref].holder = saCall[c].token

TokensAreOfLocks == \A token \in DOMAIN saTokens : saLock[saTokens[token]].holder = token /\ token \notin saLate

\* Every lock file that is kept fresh has a token that releases it.
LocksCanBeReleased == saServer = "filesystem" =>
    \A r \in SaRefs : saLock[r].holder \notin saLate \cup {NoToken} =>
        saLock[r].holder \in DOMAIN saTokens \cup saFreeing
===============================================================================
