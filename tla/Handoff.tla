------------------------------- MODULE Handoff -------------------------------
(***************************************************************************)
(* What the engine and the app promise each other about documents          *)
(* ("a crash on either process replays rather than loses pages"): the      *)
(* engine owes a document until the index holds it or a newer version of   *)
(* the same page, and the index falls back to an older version only while  *)
(* the newer one is still owed.  No sequence numbers, cursors, acks,       *)
(* batches, processes or crashes here: Spool.tla implements this.          *)
(***************************************************************************)
EXTENDS Naturals

CONSTANT Urls

VARIABLES
  owed,      \* documents [url, id] that will still be handed over; id grows with time
  index      \* the version of each page that search shows, 0 for none

vars == <<owed, index>>

Init == owed = {} /\ index = [u \in Urls |-> 0]

Publish ==
  /\ owed \subseteq owed'
  /\ UNCHANGED index

\* A page changes only while a version at least as new as the one it leaves, and as
\* the one it takes, is owed; it may fall back, or go missing, until that one comes.
Index ==
  /\ DOMAIN index' = Urls
  /\ \A u \in Urls :
       \/ index'[u] = index[u]
       \/ \E d \in owed : d.url = u /\ d.id >= index[u] /\ d.id >= index'[u]
  /\ UNCHANGED owed

\* What is no longer owed is in the index, or a newer version is still owed.
Discharge ==
  /\ owed' \subseteq owed
  /\ \A d \in owed \ owed' :
       \/ index[d.url] >= d.id
       \/ \E e \in owed' : e.url = d.url /\ e.id > d.id
  /\ UNCHANGED index

Next == Publish \/ Index \/ Discharge

Spec == Init /\ [][Next]_vars
=============================================================================
