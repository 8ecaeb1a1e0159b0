--------------------------- MODULE CardLifecycle ---------------------------
(***************************************************************************)
(* What the board promises about the status of its cards: a card is worked *)
(* on by highlighting it, at most one card of a retro is highlighted, and  *)
(* COMPLETED cards can only be archived.  ARCHIVED is final: a card leaves *)
(* it only when its retro is deleted.                                      *)
(***************************************************************************)
CONSTANTS
    Cards,      \* the cards there may ever be
    Retros,     \* the retros
    Home        \* Home[i]: the retro of card i

VARIABLE status

OfRetro(r) == {i \in Cards : Home[i] = r}

Step(i, from, to) == status[i] = from /\ status' = [status EXCEPT ![i] = to]

LifecycleInit == status = [i \in Cards |-> "absent"]

Create(i) == Step(i, "absent", "CREATED")

Highlight(i) ==
    /\ \A j \in OfRetro(Home[i]) : status[j] # "HIGHLIGHTED"
    /\ Step(i, "CREATED", "HIGHLIGHTED")

Cancel(i) == Step(i, "HIGHLIGHTED", "CREATED")

Complete(i) == Step(i, "HIGHLIGHTED", "COMPLETED")

\* An archive takes cards of one retro off its board, all in one step.
Archive(r, taken) ==
    /\ \A i \in taken : status[i] \in {"CREATED", "HIGHLIGHTED", "COMPLETED"}
    /\ status' = [i \in Cards |-> IF i \in taken THEN "ARCHIVED" ELSE status[i]]

DeleteRetro(r) ==
    status' = [i \in Cards |-> IF i \in OfRetro(r) THEN "deleted" ELSE status[i]]

LifecycleNext ==
    \/ \E i \in Cards : Create(i) \/ Highlight(i) \/ Cancel(i) \/ Complete(i)
    \/ \E r \in Retros : DeleteRetro(r) \/ \E taken \in SUBSET OfRetro(r) : Archive(r, taken)

LifecycleSpec == LifecycleInit /\ [][LifecycleNext]_status
=============================================================================
