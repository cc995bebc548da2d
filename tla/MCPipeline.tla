----------------------------- MODULE MCPipeline -----------------------------
(* Pipeline for TLC: one pipe, and waitpid by PID only. *)
EXTENDS Pipeline

CONSTANT p1

OnePipe == {p1}
=============================================================================
