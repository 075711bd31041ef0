--------------------------- MODULE TerminalDelivery ---------------------------
(***************************************************************************)
(* The delivery lane end to end: the session runtime's hub, one pane-stream*)
(* socket per viewer in each direction, and the OpenTUI endpoints.  A      *)
(* socket is FIFO and loses nothing until it closes.                       *)
(***************************************************************************)
EXTENDS SessionRuntime, WireEndpoint

CONSTANTS
  Responsive,     \* viewers that keep reading, decoding and returning credit
  MaxRejects      \* bound: decodes that fail

VARIABLES
  ep,        \* ep[c]: the endpoint at the viewer's end of slot c
  up,        \* up[c]: ACKs and NACKs under way to the hub, oldest first
  rejects    \* decodes that failed so far

vars == <<rtVars, ep, up, rejects>>

ASSUME ViewerAssumption == Responsive \subseteq Clients /\ MaxRejects \in Nat

TypeOK ==
  /\ RtTypeOK
  /\ ep \in [Clients -> Endpoints]
  /\ up \in [Clients -> Seq(Acks \cup Nacks)]
  /\ rejects \in 0..MaxRejects

Init ==
  /\ RtInit
  /\ ep = [c \in Clients |-> NoEndpoint]
  /\ up = [c \in Clients |-> <<>>]
  /\ rejects = 0

NoViewerStep == UNCHANGED <<ep, up, rejects>>

\* The socket of slot c is gone, at both ends.
Unplug(c) ==
  /\ ep' = [ep EXCEPT ![c] = NoEndpoint]
  /\ up' = [up EXCEPT ![c] = <<>>]
  /\ UNCHANGED rejects

-----------------------------------------------------------------------------
(* The viewer *)

\* A viewer connects: its endpoint negotiates, the hub starts opening.
Connect(c) ==
  /\ ep[c].st = "none"
  /\ OpenDelivery(c)
  /\ ep' = [ep EXCEPT ![c] = NewEndpoint]
  /\ UNCHANGED <<up, rejects>>

TakeStep(c, s) ==
  /\ ep' = [ep EXCEPT ![c] = s.ep]
  /\ up' = [up EXCEPT ![c] = @ \o s.fb]

Receive(c) ==
  /\ ep[c].st \in {"live", "unavailable"}
  /\ wire[c] # <<>>
  /\ TakeStep(c, Accept(ep[c], Head(wire[c])))
  /\ wire' = [wire EXCEPT ![c] = Tail(@)]
  /\ UNCHANGED <<pane, hc, hubClosed, src, rejects>>

Decode(c) ==
  /\ ep[c].phase = "decoding"
  /\ TakeStep(c, Decoded(ep[c]))
  /\ UNCHANGED <<rtVars, rejects>>

FailDecode(c) ==
  /\ ep[c].phase = "decoding"
  /\ rejects < MaxRejects
  /\ TakeStep(c, DecodeFailed(ep[c]))
  /\ rejects' = rejects + 1
  /\ UNCHANGED rtVars

Flush(c) ==
  /\ ep[c].phase = "pending"
  /\ TakeStep(c, Flushed(ep[c]))
  /\ UNCHANGED <<rtVars, rejects>>

\* The viewer closes its endpoint.
Leave(c) ==
  /\ "leave" \in Scenario
  /\ ep[c].st \in {"live", "unavailable"}
  /\ ep' = [ep EXCEPT ![c] = Fails(@).ep]
  /\ UNCHANGED <<rtVars, up, rejects>>

ViewerStep(c) == Receive(c) \/ Decode(c) \/ Flush(c)

-----------------------------------------------------------------------------
(* The pane stream *)

\* Feedback reaches the hub; for a connection that ended it is moot.
Feedback(c) ==
  /\ up[c] # <<>>
  /\ Uninterrupted /\ Quiet
  /\ LET f == Head(up[c]) IN
       IF ~IsOpen(c) THEN UNCHANGED hubVars
       ELSE IF f.type = "ack" THEN Ack(c, f) ELSE Nack(c, f)
  /\ up' = [up EXCEPT ![c] = Tail(@)]
  /\ UNCHANGED <<src, ep, rejects>>

\* The socket of an endpoint that stopped listening closes.
Disconnect(c) ==
  /\ ep[c].st = "gone"
  /\ Uninterrupted /\ Quiet
  /\ \/ CloseConnection(c)
     \/ hc[c].st = "idle" /\ DiscardWire(c) /\ UNCHANGED <<pane, hc, hubClosed>>
  /\ Unplug(c)
  /\ UNCHANGED src

\* The sink's deadline passes, or the socket rejects: output-backpressure.
SinkFails(c) ==
  /\ "sink-failure" \in Scenario /\ c \notin Responsive
  /\ Uninterrupted /\ Quiet
  /\ SinkFailed(c)
  /\ Unplug(c)
  /\ UNCHANGED src

OpeningFails(c) ==
  /\ Uninterrupted
  /\ OpenRejects(c)
  /\ Unplug(c)
  /\ UNCHANGED src

\* What the daemon does by itself, or because a socket told it to.
DaemonStep ==
  \/ /\ NoViewerStep
     /\ \/ \E c \in Clients : DeliveryStep(c)
        \/ HubStep \/ EncodingStep
        \/ SourceSeeds \/ SourceDisposed \/ StartCancelled \/ HubCloses
  \/ \E c \in Clients :
       \/ Feedback(c) \/ Disconnect(c) \/ SinkFails(c) \/ OpeningFails(c)

\* What happens to the daemon.
SourceEvent ==
  /\ \/ SourceStartFailure \/ SourceEmits \/ SourceCloses
     \/ SourceCaptureFails \/ ControlExits \/ RuntimeDisposes
  /\ NoViewerStep

MaxUnread == 1    \* bound: messages a viewer that changes visibility leaves unread

\* A visibility frame names the incarnation of a delivery the viewer has seen.
ChangeVisibility(c) ==
  /\ ep[c].inc # Null \/ ep[c].env # None
  /\ Len(wire[c]) <= MaxUnread
  /\ VisibilityStep(c)
  /\ NoViewerStep

\* What a viewer chooses to do.
ViewerEvent(c) == Connect(c) \/ Leave(c) \/ ChangeVisibility(c)

Next ==
  \/ DaemonStep \/ SourceEvent
  \/ \E c \in Clients : ViewerStep(c) \/ FailDecode(c) \/ ViewerEvent(c)

Spec == Init /\ [][Next]_vars

-----------------------------------------------------------------------------
(* Safety *)

FaultQueued(c) ==
  \/ hc[c].retire \/ hc[c].oob # None
  \/ \E i \in 1..Len(hc[c].out) : hc[c].out[i].type = "fault"

FaultOnWire(c) == \E i \in 1..Len(wire[c]) : wire[c][i].type = "fault"

\* A lane in service: both ends are connected and neither was faulted.
InService(c) == IsOpen(c) /\ ep[c].st = "live" /\ ~FaultQueued(c) /\ ~FaultOnWire(c)

\* The transactions of lane c that its endpoint has not settled, or whose
\* settlement has not reached the hub.
Unsettled(c) ==
  {wire[c][i].txn : i \in {j \in 1..Len(wire[c]) : wire[c][j].type # "fault"}}
    \cup {up[c][i].txn : i \in 1..Len(up[c])}
    \cup (IF ep[c].env = None THEN {} ELSE {ep[c].env.txn})

\* "A negotiated server owns exactly one flight": at most one envelope or
\* answer is anywhere between the hub and an endpoint in service, and while an
\* answer is under way it is the answer to the hub's flight.
OneFlightPerLane ==
  \A c \in Clients : InService(c) =>
    /\ Cardinality({i \in 1..Len(wire[c]) : wire[c][i].type = "envelope"})
         + Len(up[c]) + (IF ep[c].env = None THEN 0 ELSE 1) <= 1
    /\ \A i \in 1..Len(up[c]) : hc[c].flight # None
                                   /\ up[c][i].txn = hc[c].flight.env.txn

\* When a lane in service is at rest, the hub's idea of what the endpoint
\* applied is what the endpoint applied, and both agree on whether the next
\* delivery has to be a seed.
BaselinesAgree ==
  \A c \in Clients :
    (InService(c) /\ hc[c].flight = None /\ Unsettled(c) = {}) =>
      hc[c].base = ep[c].applied /\ hc[c].reseed = ep[c].reseed

\* A patch under way builds on exactly the state its endpoint has applied, so
\* no delivery in service is ever rejected for a gap: neither one chosen by
\* #deliver nor one chosen again when an encoding has ended.
PatchesFit ==
  \A c \in Clients : InService(c) =>
    \A i \in 1..Len(wire[c]) :
      (wire[c][i].type = "envelope" /\ wire[c][i].frame = "patch") =>
        ~ep[c].reseed /\ wire[c][i].base = ep[c].applied
                      /\ wire[c][i].inc = ep[c].inc

Accused(c, causes) ==
  \/ \E i \in 1..Len(wire[c]) : wire[c][i].type = "fault" /\ wire[c][i].cause \in causes
  \/ \E i \in 1..Len(hc[c].out) : hc[c].out[i].type = "fault"
                                      /\ hc[c].out[i].cause \in causes

\* An endpoint that follows the protocol is never told that it violated it.
HonestAckAccepted == \A c \in Clients : ~Accused(c, {"ack-none", "ack-mismatch"})

\* Nor is its NACK, except that it may cross the end of the source on the way:
\* then the endpoint has been told of that end first.
HonestNackAccepted ==
  \A c \in Clients : Accused(c, {"nack-mismatch"}) =>
                      Accused(c, {"tombstone"}) \/ ep[c].st # "live"

\* A capture failure stays pane-local: nothing that still goes out to the
\* client is a fault that would end its whole connection.
CaptureStaysLocal ==
  \A c \in Clients : (IsOpen(c) /\ hc[c].gone) =>
    \A i \in 1..Len(hc[c].out) :
      hc[c].out[i].type = "fault" => hc[c].out[i].cause = "capture"

\* The three together: no answer that an endpoint owes is held against it, not
\* even one that crosses the loss of its pane's capture.
HonestAnswersAccepted == HonestAckAccepted /\ HonestNackAccepted /\ CaptureStaysLocal

\* Whatever else befalls the daemon, a lane is never accused out of the blue: a
\* step that leaves #ack or #nack blaming an endpoint is taken on a lane that was
\* out of service already, by a fault queued, sent or being sent to it.
HonestNotAccused ==
  [][\A c \in Clients : InService(c) => ~Accused(c, Accusations)']_vars

\* A connection the hub closed says so: the endpoint has a fault to read.
DetachIsReported ==
  \A c \in Clients :
    (hc[c].st = "idle" /\ ep[c].st = "live" /\ ~hubClosed) => FaultOnWire(c)

\* "Terminal source exceeded the pending update budget; reopen for a fresh
\* snapshot": an opening made after that fault starts from the source's present
\* state, not from the one the aborted pane stopped at.
ReopenIsFresh ==
  [][\A c \in Clients :
       (/\ pane.aborted /\ ~pane.tomb /\ src.st = "live"
        /\ hc[c].st = "idle" /\ hc'[c].st = "resuming") => pane.cur = src.rev]_vars

Mirror == INSTANCE LatestMirror WITH
  Viewers <- Clients, head <- src.rev, shown <- [c \in Clients |-> ep[c].applied]

MirrorSpec == Mirror!Spec

=============================================================================
