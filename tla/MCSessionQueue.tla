---------------------------- MODULE MCSessionQueue ----------------------------
EXTENDS SessionQueue, TLC

Interchangeable == Permutations(Prompt) \cup Permutations(Conversation)

(* What no step and no property reads any more: of a prompt that is gone only *)
(* that it was queued and whether it was lost; the conversation of a closed   *)
(* pane; the announcement of an earlier turn once none can complete; who      *)
(* asked for what once the disk has been full; how stale a stale edit is.     *)
Asked == IF fills = 0 THEN <<asked \cap Ids(queue), again \cap Ids(queue)>> ELSE << >>
Announced ==
  IF pane.active = "none" /\ pane.status # "completed" THEN << >> ELSE <<deferred, told>>
Pane == IF pane.open THEN pane ELSE [pane EXCEPT !.conv = None]
OpenEdit ==
  IF edit = None \/ edit.version = queue.version THEN edit ELSE [edit EXCEPT !.version = 0]
InFlight == IF flight = None \/ fills = 0 THEN flight ELSE [flight EXCEPT !.asked = TRUE]
Home == [m \in Prompt |-> IF home[m] = None \/ m \in Ids(queue) THEN home[m] ELSE TRUE]
Relevant ==
  <<queue, saved, disk, pump, InFlight, Pane, OpenEdit, Announced, Home,
    early \cap Ids(queue), kept \cap Ids(queue), got \cap Ids(queue), kept \ got, Asked,
    opens, restarts>>
================================================================================
