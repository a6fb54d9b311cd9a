--------------------------- MODULE MCExecutorRuntime ---------------------------
(***************************************************************************)
(* Two processes over one runtime row.  Processes never stop ticking, so    *)
(* the revision of the row has no bound worth naming; nothing an executor   *)
(* does depends on its value, and the view leaves it out.                   *)
(***************************************************************************)
EXTENDS ExecutorRuntime

WithoutRevision == <<now, [row EXCEPT !.revision = 1], exe, reconciled>>

=============================================================================
