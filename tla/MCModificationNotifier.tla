----------------------- MODULE MCModificationNotifier -----------------------
(* Model checking of ModificationNotifier with one or two entity queues.    *)
EXTENDS ModificationNotifier

OneQueue == <<"media">>
TwoQueues == <<"media", "albums">>

=============================================================================
