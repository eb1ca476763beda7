------------------------------ MODULE WorkList ------------------------------
(***************************************************************************)
(* What the crawl store promises about the work it is given: a URL that    *)
(* has been accepted stays on the to-do list until a fetch of it has been  *)
(* settled or the user empties the list.  There is no crash, no restart,   *)
(* no lease and no queue here: Frontier.tla implements this specification  *)
(* with u/, q/ and l/ records, and all of those must be invisible.         *)
(***************************************************************************)
CONSTANT Urls                \* every URL of the instance

VARIABLES
  status,                    \* what the seen-set says of a URL
  todo,                      \* the URLs that will be handed out (again)
  dropped                    \* the URLs the user threw off the list

vars == <<status, todo, dropped>>

Status == {"none", "pending", "done", "dead"}
Settled == {"done", "dead"}

Init ==
  /\ status = [u \in Urls |-> "none"]
  /\ todo = {}
  /\ dropped = {}

\* URLs put on the list, and fetches settled, in one atomic write: a URL leaves
\* the list only with its outcome recorded.
Settle(added, finished) ==
  /\ todo' \subseteq todo \union added
  /\ added \subseteq todo'
  /\ todo \ todo' \subseteq finished
  /\ status' \in [Urls -> Status]
  /\ \A u \in Urls :
       \/ u \in finished /\ status'[u] \in Settled
       \/ u \in added /\ status'[u] = "pending"
       \/ status'[u] = status[u] /\ (u \in finished => u \in added)
  /\ dropped' = dropped \ added

\* The user empties (part of) the list: "Clear queue".
Clear ==
  /\ todo' \subseteq todo
  /\ dropped' = dropped \union (todo \ todo')
  /\ UNCHANGED status

\* A URL that was being handed out while the user emptied the list is handed out
\* all the same.
Return(u) ==
  /\ todo' = todo \union {u}
  /\ dropped' = dropped \ {u}
  /\ UNCHANGED status

\* The user forgets what was visited: "Forget crawled URLs".
Forget ==
  /\ status' = [u \in Urls |-> "none"]
  /\ UNCHANGED <<todo, dropped>>

Next ==
  \/ \E added, finished \in SUBSET Urls : Settle(added, finished)
  \/ Clear
  \/ \E u \in Urls : Return(u)
  \/ Forget

Spec == Init /\ [][Next]_vars
=============================================================================
