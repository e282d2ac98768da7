------------------------------- MODULE MCPipeline -------------------------------
(***************************************************************************)
(* Small deployments for TLC: backend b1 has kv_cache, b2 has not.         *)
(***************************************************************************)
EXTENDS Pipeline, TLC

CONSTANTS b1, b2

MCBackendOf == <<b1, b2>>

MCRequestSymmetry == Permutations(Requests)

Json(big, candidate) == [stream |-> FALSE, big |-> big, candidate |-> candidate]
Stream(big, candidate) == [stream |-> TRUE, big |-> big, candidate |-> candidate]

\* A small and a restoring big JSON request, and both kinds of streams.
MCWorkload ==
  {Json(FALSE, FALSE), Json(TRUE, TRUE), Stream(FALSE, FALSE), Stream(TRUE, TRUE)}

\* A restoring big JSON request and a small stream: a kind for every path.
MCSmallWorkload == {Json(TRUE, TRUE), Stream(FALSE, FALSE)}
================================================================================
