----------------------------- MODULE FairDelivery -----------------------------
(***************************************************************************)
(* TerminalDelivery with the fairness its event loop gives: microtasks,    *)
(* promise continuations, timers and socket events are all run, a sink     *)
(* settles within its deadline, and responsive viewers read and decode.    *)
(* What comes from outside (a viewer's choices, a failed decode, an event  *)
(* of the source) is counted and bounded together, so that every behaviour *)
(* ends; weak fairness of the steps together is then all that is needed,   *)
(* and starvation by endless churn is not modelled.                        *)
(***************************************************************************)
EXTENDS TerminalDelivery

CONSTANT MaxMoves     \* bound: events from outside, of all kinds together

VARIABLE moves

fairVars == <<vars, moves>>

ASSUME MovesAssumption == MaxMoves \in Nat

FairNext ==
  \/ /\ UNCHANGED moves
     /\ DaemonStep \/ \E c \in Clients : ViewerStep(c)
  \/ /\ moves < MaxMoves
     /\ moves' = moves + 1
     /\ SourceEvent \/ \E c \in Clients : ViewerEvent(c) \/ FailDecode(c)

FairStep ==
  /\ UNCHANGED moves
  /\ DaemonStep \/ \E c \in Responsive : ViewerStep(c)

FairSpec == Init /\ moves = 0 /\ [][FairNext]_fairVars /\ WF_fairVars(FairStep)

\* Coalescing, encodings, background cadence, NACKs and a stalled sibling never
\* leave a responsive viewer behind: whatever the source published reaches it,
\* unless the viewer hides the pane, its lane ends or the hub drops the pane.
CatchesUp ==
  \A c \in Responsive : \A v \in 0..MaxRev :
    (IsOpen(c) /\ src.rev >= v) ~>
      (ep[c].applied >= v \/ ep[c].st # "live" \/ hc[c].vis = "hidden"
       \/ pane.st = "none")

\* A faulted connection ends, even when its sink has stalled.
FaultedLaneEnds == \A c \in Clients : FaultQueued(c) ~> ~IsOpen(c)

\* An opening is answered: with a connection, or by the end of its socket.
OpeningSettles ==
  \A c \in Clients : (hc[c].st \notin {"idle", "open"}) ~> (hc[c].st \in {"idle", "open"})

=============================================================================
