----------------------------- MODULE MCPipeline -----------------------------
(* Small instances of Pipeline: two tasks for one model, one for another that  *)
(* does not fit beside it, and a raw request.                                  *)
EXTENDS Pipeline, TLC

CONSTANTS warm, brief, cold, raw, m1, m2

MCModelOf == warm :> m1 @@ brief :> m1 @@ cold :> m2 @@ raw :> m2
=============================================================================
