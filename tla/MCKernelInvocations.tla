-------------------------- MODULE MCKernelInvocations ---------------------------
(***************************************************************************)
(* The instance of KernelInvocations for TLC: one source with a backlog of *)
(* requests.  (MCKernelParts has the instance with a sibling.)             *)
(***************************************************************************)
EXTENDS KernelInvocations, TLC

CONSTANTS busy, Backlog

MCAlone == {busy}
MCMaxTokenAlone == busy :> Backlog
===============================================================================
