------------------------------ MODULE MCProviders ------------------------------
(***************************************************************************)
(* Instances of the shared storage providers for TLC.  A host is           *)
(* configured with one of them, and the variables of the others rest.      *)
(***************************************************************************)
EXTENDS FilesystemRuntime, CosmosRuntime, CosmosLibrary, TLC

CONSTANTS h1, h2, appender, key,
          Providers  \* those this instance looks at

ASSUME KnownProviders == Providers \subseteq {"filesystem", "cosmos", "cosmos library"}

VARIABLE provider

HostSymmetry == Permutations({h1, h2})

ProvidersInit ==
    /\ FsInit /\ CsInit /\ LibInit
    /\ provider \in Providers

ProvidersNext ==
    \/ provider = "filesystem" /\ FsNext /\ UNCHANGED <<csVars, libVars, provider>>
    \/ provider = "cosmos" /\ CsNext /\ UNCHANGED <<fsVars, libVars, provider>>
    \/ provider = "cosmos library" /\ LibNext /\ UNCHANGED <<fsVars, csVars, provider>>

ProvidersSpec == ProvidersInit /\ [][ProvidersNext]_<<fsVars, csVars, libVars, provider>>

(***************************************************************************)
(* Between any two file operations a message is in one place, what was     *)
(* folded is queued once its commit is over, and, unless a commit outlived *)
(* its lease, no effect is queued twice and no wake that was news is lost. *)
(***************************************************************************)
FilesystemSafe == provider = "filesystem" => FsSafe

(***************************************************************************)
(* What durable-runtime.yaml:111 says of a directory, and the code does    *)
(* not do: a request written while the engine runs is kept.                *)
(***************************************************************************)
FilesystemKeepsNewerRequest == provider = "filesystem" => FsNewerRequestKept

(***************************************************************************)
(* What durable-runtime.yaml:704 and 710 say of a directory, and the code  *)
(* does not do: two hosts never commit from one revision.                  *)
(***************************************************************************)
OneCommitPerRevision == provider = "filesystem" => FsOneCommitPerRevision

(***************************************************************************)
(* Between any two requests to a Cosmos partition the checkpoint and the   *)
(* effects agree, and what is not folded yet has a wake or will get one,   *)
(* if its request was news to the runs under way.                          *)
(***************************************************************************)
CosmosSafe == provider = "cosmos" => CsSafe

(***************************************************************************)
(* What durable-runtime.yaml:111 says of a Cosmos partition, and the code  *)
(* does not do: a request written while the engine runs is kept.           *)
(***************************************************************************)
CosmosKeepsNewerRequest == provider = "cosmos" => CsNewerRequestKept

(***************************************************************************)
(* A dedup document stands for exactly one live message, and no two        *)
(* messages share a place in their lane.                                   *)
(***************************************************************************)
LibrarySafe == provider = "cosmos library" => LibSafe

(***************************************************************************)
(* Who holds a lease decides: no settled effect is taken up again, none is *)
(* settled by a host that lost it, no lock changes hands before its tenure *)
(* ends, and the cursor never goes back.                                   *)
(***************************************************************************)
LeasesHonoured ==
    [][CASE provider = "filesystem" -> DoneIsFinal
         [] provider = "cosmos" -> CsCursorForward /\ EffectSettledByHolder
         [] provider = "cosmos library" -> RelayNotStolen
      ]_<<fsVars, csVars, libVars, provider>>
===============================================================================
