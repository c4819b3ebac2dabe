------------------------------- MODULE RWLock -------------------------------
(***************************************************************************)
(* What the database layer relies on when it opens a context on the        *)
(* connection: many readers or one writer, and, as long as some thread     *)
(* owns a priority context, nobody else is let in.  Nothing is said about  *)
(* counters, mutexes or condition variables: SWMRLock implements this.     *)
(***************************************************************************)
CONSTANT Thread

VARIABLES readers,   \* the threads that hold a read context
          writers,   \* the threads that hold a write context
          owners     \* the threads that hold a priority context

vars == <<readers, writers, owners>>

Init == readers = {} /\ writers = {} /\ owners = {}

Inside(t) == t \in readers \cup writers

\* t may be let in as far as priorities are concerned.
HasTurn(t) == owners = {} \/ t \in owners

EnterRead(t) ==
    /\ ~Inside(t) /\ HasTurn(t)
    /\ writers = {}
    /\ readers' = readers \cup {t}
    /\ UNCHANGED <<writers, owners>>

EnterWrite(t) ==
    /\ ~Inside(t) /\ HasTurn(t)
    /\ writers = {} /\ readers = {}
    /\ writers' = {t}
    /\ UNCHANGED <<readers, owners>>

Leave(t) ==
    /\ Inside(t)
    /\ readers' = readers \ {t}
    /\ writers' = writers \ {t}
    /\ UNCHANGED owners

TakePriority(t) ==
    /\ ~Inside(t) /\ t \notin owners
    /\ owners' = owners \cup {t}
    /\ UNCHANGED <<readers, writers>>

GivePriority(t) ==
    /\ ~Inside(t) /\ t \in owners
    /\ owners' = owners \ {t}
    /\ UNCHANGED <<readers, writers>>

Next == \E t \in Thread : \/ EnterRead(t) \/ EnterWrite(t) \/ Leave(t)
                          \/ TakePriority(t) \/ GivePriority(t)

Spec == Init /\ [][Next]_vars

=============================================================================
