------------------------------ MODULE JobLedger ------------------------------
(***************************************************************************)
(* What the job queue promises: each tracking has one open job at most, a  *)
(* job opened later is later than every closed one, and a closed job stays *)
(* as it is until its tracking is deleted.                                 *)
(***************************************************************************)
EXTENDS Naturals

CONSTANTS Trackings, Jobs, None

VARIABLES
  open,     \* the open job of each tracking, or None
  closed    \* the closed jobs of each tracking

Init ==
  /\ open = [t \in Trackings |-> None]
  /\ closed = [t \in Trackings |-> {}]

Open(t, j) ==
  /\ open[t] = None
  /\ \A u \in Trackings : j # open[u] /\ j \notin closed[u]
  /\ \A k \in closed[t] : k < j
  /\ open' = [open EXCEPT ![t] = j]
  /\ UNCHANGED closed

Close(t) ==
  /\ open[t] # None
  /\ closed' = [closed EXCEPT ![t] = @ \cup {open[t]}]
  /\ open' = [open EXCEPT ![t] = None]

Drop(t) ==
  /\ open' = [open EXCEPT ![t] = None]
  /\ closed' = [closed EXCEPT ![t] = {}]

Next == \E t \in Trackings : (\E j \in Jobs : Open(t, j)) \/ Close(t) \/ Drop(t)

Spec == Init /\ [][Next]_<<open, closed>>
=============================================================================
