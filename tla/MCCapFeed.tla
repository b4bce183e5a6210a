------------------------------ MODULE MCCapFeed -----------------------------
(* A small instance of CapFeed for TLC: a document of two alerts, an       *)
(* update of one of them, the deletion of the document, and a re-issue of  *)
(* the updated alert in another document.                                  *)
EXTENDS CapFeed

Alert(key, kind, refs) == [key |-> key, sent |-> 1, kind |-> kind, refs |-> refs]
Note(id, data, pub, alerts) ==
  [id |-> id, data |-> data, pub |-> pub, alerts |-> alerts, deletion |-> alerts = <<>>]

Wind == Alert("wind", "Alert", {})
Snow == Alert("snow", "Alert", {})
Gale == Alert("gale", "Update", {<<"wind", 1>>})

Warnings ==
  {Note("n1", "doc", 1, <<Wind, Snow>>),
   Note("n2", "revision", 2, <<Gale>>),
   Note("n3", "doc", 3, <<>>),
   Note("n4", "reissue", 4, <<Wind>>)}

\* Producers whose alerts in force do not depend on the order of arrival, and
\* whose documents leave an exact index.
ASSUME OrderlyWarnings == Orderly /\ KeepsOwnAlerts
=============================================================================
