---------------------------- MODULE MCSessionStream ----------------------------
EXTENDS SessionStream, FiniteSets

(* The answer to a request of an earlier epoch is dropped, whatever it says: *)
(* of such requests only the number counts, by what the host still does for  *)
(* them, and epochs are told apart from the present one only.                *)
Stale(s) == {r \in s : ~Current(r)}
Asked(s) == {[r EXCEPT !.epoch = 0] : r \in s \ Stale(s)}
Unread ==
  <<Cardinality(Stale(fetches)), Cardinality({r \in Stale(fetches) : r.at = "page"}),
    Cardinality(Stale(olders)), Cardinality({o \in Stale(olders) : o.answered})>>
Used ==
  <<hostVars, sock, Asked(fetches), Asked(olders), Unread, lines, olderCursor, loadingOlder,
    lastSeq, error, overtaken, faults, refreshes, lossy>>
================================================================================
