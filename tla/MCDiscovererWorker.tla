------------------------- MODULE MCDiscovererWorker -------------------------
(* Model checking of DiscovererWorker: a run chooses the application's calls*)
(* among those whose interplay it looks at.                                 *)
EXTENDS DiscovererWorker

Every == Requests
Removals == {"discover", "remove"}

=============================================================================
