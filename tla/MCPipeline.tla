----------------------------- MODULE MCPipeline -----------------------------
(* One notification on its whole way: a request, two workers that take over *)
(* from one another, an operator.                                           *)
EXTENDS NotificationPipeline
=============================================================================
