----------------------------- MODULE RunHistory -----------------------------
(***************************************************************************)
(* What the runtime ledger promises about runs: each run is a sequence of  *)
(* events that only grows, one event at a time, and that never grows again *)
(* after a terminal event.                                                 *)
(***************************************************************************)
EXTENDS Naturals, Sequences

CONSTANT Terminal(_)  \* is this event terminal?

VARIABLE history     \* the events of every run that has begun

Closed(r) == \E i \in DOMAIN history[r] : Terminal(history[r][i])

BeginRun(r) ==
    /\ r \notin DOMAIN history
    /\ history' = [s \in DOMAIN history \cup {r} |->
                     IF s = r THEN <<>> ELSE history[s]]

AppendEvent(r, e) ==
    /\ ~Closed(r)
    /\ history' = [history EXCEPT ![r] = Append(@, e)]

NewRuns == DOMAIN history' \ DOMAIN history

(* The event a step appends to r, if it appends one.                       *)
NewEvent(r) == history'[r][Len(history'[r])]

Next ==
    \/ \E r \in NewRuns : BeginRun(r)
    \/ \E r \in DOMAIN history :
          Len(history'[r]) > Len(history[r]) /\ AppendEvent(r, NewEvent(r))

Spec == [][Next]_history
=============================================================================
