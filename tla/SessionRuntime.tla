---------------------------- MODULE SessionRuntime ----------------------------
(***************************************************************************)
(* The delivery hub inside its SessionRuntime: the terminal replica owner  *)
(* that feeds it, the restart barrier, and peers that may send any         *)
(* feedback at all.  What holds here is what the hub guarantees against    *)
(* every client.                                                           *)
(***************************************************************************)
EXTENDS DeliveryHub

CONSTANTS
  MaxRev,   \* bound: an update is emitted only below this revision
  MaxInc,   \* bound: incarnations of the source
  MaxTxn,   \* bound: delivery attempts a peer may provoke by NACKs
  PeerAcks, \* the ACKs and NACKs an arbitrary peer chooses from
  PeerNacks

VARIABLE src    \* the pane's replica owner and its clock, which outlives it

rtVars == <<hubVars, src>>

ASSUME SourceBoundsAssumption == MaxRev \in Nat /\ MaxInc \in Nat /\ MaxTxn \in Nat

ASSUME PeerAssumption == PeerAcks \subseteq Acks /\ PeerNacks \subseteq Nacks

Sources == [st : {"absent", "live", "disposing", "shut"}, inc : Nat, rev : Revs]

RtTypeOK == HubTypeOK /\ src \in Sources

RtInit ==
  /\ HubInit
  /\ src = [st |-> "absent", inc |-> 0, rev |-> Null]

Emission(tomb) == [rev |-> src.rev + 1, inc |-> src.inc, tomb |-> tomb]

\* Mutant of SourceSeeds: a new owner restarts the revision clock.
SourceSeedsAnew ==
  /\ Uninterrupted
  /\ IF src.st = "live"
       THEN SubscribeSource([rev |-> src.rev, inc |-> src.inc, tomb |-> FALSE])
              /\ UNCHANGED src
       ELSE /\ src.st = "absent"
            /\ SubscribeSource([rev |-> 0, inc |-> src.inc, tomb |-> FALSE])
            /\ src' = [src EXCEPT !.st = "live", !.rev = 0]

\* ensurePane asks the registry for the owner, which creates one when there is
\* none: its first seed follows the last revision of its predecessor.
SourceSeeds ==
  /\ Uninterrupted
  /\ IF src.st = "live"
       THEN SubscribeSource([rev |-> src.rev, inc |-> src.inc, tomb |-> FALSE])
              /\ UNCHANGED src
       ELSE /\ src.st = "absent"
            /\ SubscribeSource(Emission(FALSE))
            /\ src' = [src EXCEPT !.st = "live", !.rev = @ + 1]

SourceStartFailure ==
  /\ "start-failure" \in Scenario
  /\ Uninterrupted
  /\ \E capture \in BOOLEAN : SourceStartFails(capture)
  /\ UNCHANGED src

\* The owner commits a seed or patch.
SourceEmits ==
  /\ Uninterrupted
  /\ src.st = "live" /\ src.rev < MaxRev
  /\ ObserveCanonical(Emission(FALSE))
  /\ src' = [src EXCEPT !.rev = @ + 1]

\* The owner closes: its tombstone is its last revision.
EndSource ==
  /\ ObserveCanonical(Emission(TRUE))
  /\ src' = [st |-> "absent", inc |-> src.inc + 1, rev |-> src.rev + 1]

SourceCloses ==
  /\ "tombstone" \in Scenario
  /\ Uninterrupted
  /\ src.st = "live" /\ src.inc < MaxInc
  /\ EndSource

\* onFault with a lost capture capability: the viewers are told first, and the
\* owner is disposed behind the restart barrier.
SourceCaptureFails ==
  /\ "capture" \in Scenario
  /\ Uninterrupted
  /\ src.st = "live" /\ src.inc < MaxInc
  /\ FailPaneCapture
  /\ src' = [src EXCEPT !.st = "disposing"]

\* ... after the microtasks that were queued when the capability was lost.
SourceDisposed ==
  /\ Uninterrupted /\ Quiet
  /\ src.st = "disposing"
  /\ EndSource

\* noteControlExit: the hub is reset, then every owner disposed.  Nobody hears
\* their tombstones, but the clock counts them.
ControlExits ==
  /\ "restart" \in Scenario
  /\ Uninterrupted
  /\ src.st \notin {"disposing", "shut"} /\ src.inc < MaxInc
  /\ ResetForSessionRestart
  /\ src' = [st |-> "absent", inc |-> src.inc + 1,
             rev |-> IF src.st = "live" THEN src.rev + 1 ELSE src.rev]
  /\ UNCHANGED <<wire, hubClosed>>

\* Openings wait for the restart barrier, and end with the runtime.  A new
\* connection has a new socket.
OpenDelivery(c) ==
  /\ Uninterrupted /\ Quiet
  /\ wire[c] = <<>>
  /\ src.st \notin {"disposing", "shut"}
  /\ Open(c)
  /\ UNCHANGED src

\* dispose: the owners close first, heard by whoever is still connected ...
RuntimeDisposes ==
  /\ "shutdown" \in Scenario
  /\ Uninterrupted
  /\ src.st # "shut"
  /\ IF src.st = "absent"
       THEN UNCHANGED hubVars /\ src' = [src EXCEPT !.st = "shut"]
       ELSE /\ ObserveCanonical(Emission(TRUE))
            /\ src' = [st |-> "shut", inc |-> src.inc + 1, rev |-> src.rev + 1]

\* ... which fails the start of an owner that has no seed yet ...
StartCancelled ==
  /\ Uninterrupted
  /\ src.st = "shut"
  /\ SourceStartFails(FALSE)
  /\ UNCHANGED src

\* ... then the hub.
HubCloses ==
  /\ Uninterrupted
  /\ src.st = "shut"
  /\ CloseHub
  /\ UNCHANGED src

\* The hub's own steps.
HubStep ==
  /\ \/ DrainStep
     \/ Uninterrupted /\ (FinishReduction \/ ReductionFails \/ SourceReady \/ CloseHubClients)
     \/ Uninterrupted /\ Quiet /\ ReapPane
  /\ UNCHANGED src

EncodingStep ==
  /\ Uninterrupted
  /\ \E v \in PendingJobs, ok \in BOOLEAN : CompleteEncoding(v, ok)
  /\ UNCHANGED src

MicrotaskStep(c) ==
  /\ Uninterrupted
  /\ \/ OpenResume(c) \/ DeliverMicrotask(c)
     \/ SenderMicrotask(c) \/ OutOfBandSent(c)
  /\ UNCHANGED src

CreditStep(c) == Uninterrupted /\ SinkAccepted(c) /\ UNCHANGED src

TimerStep(c) == Uninterrupted /\ Quiet /\ BackgroundTimer(c) /\ UNCHANGED src

DeliveryStep(c) == MicrotaskStep(c) \/ CreditStep(c) \/ TimerStep(c)

VisibilityStep(c) ==
  /\ "visibility" \in Scenario
  /\ Uninterrupted /\ Quiet
  /\ \E v \in {"visible", "background", "hidden"} \ {hc[c].vis} : SetVisibility(c, v)
  /\ UNCHANGED src

\* Steps of the runtime that no peer takes part in.
SourceStep ==
  \/ SourceSeeds \/ SourceStartFailure \/ SourceEmits \/ SourceCloses
  \/ SourceCaptureFails \/ SourceDisposed \/ ControlExits
  \/ RuntimeDisposes \/ StartCancelled \/ HubCloses

-----------------------------------------------------------------------------
(* An arbitrary peer: any feedback, at any moment a socket event may come *)

PeerAnswers(c) ==
  \/ \E a \in PeerAcks : Ack(c, a)
  \/ hc[c].txn < MaxTxn /\ \E n \in PeerNacks : Nack(c, n)

\* The peer reads its socket; what it makes of the messages is its own affair.
PeerReads(c) ==
  /\ wire[c] # <<>>
  /\ DiscardWire(c)
  /\ UNCHANGED <<pane, hc, hubClosed>>

PeerStep(c) ==
  /\ Uninterrupted
  /\ \/ OpenRejects(c) \/ PeerReads(c)
     \/ Quiet /\ (PeerAnswers(c) \/ SinkFailed(c) \/ CloseConnection(c))
  /\ UNCHANGED src

RtNext ==
  \/ SourceStep \/ HubStep \/ EncodingStep
  \/ \E c \in Clients : \/ OpenDelivery(c) \/ DeliveryStep(c)
                        \/ VisibilityStep(c) \/ PeerStep(c)

RtSpec == RtInit /\ [][RtNext]_rtVars

-----------------------------------------------------------------------------
(* Safety, whatever the peers do *)

\* MAX_CLIENTS holds at every await of an opening: slots being opened are
\* counted with the open ones.
CapacityHeld == Cardinality({c \in Clients : hc[c].st # "idle"}) <= MaxClients

\* pruneCanonicalRevisions never drops the baseline of a client that may be
\* sent a patch: what a client in service last acknowledged in this incarnation
\* is there.
BaselineRetained ==
  \A c \in Clients :
    (/\ IsOpen(c) /\ ~hc[c].retire /\ ~hc[c].reseed
     /\ hc[c].lastAck # None /\ pane.cur # Null
     /\ hc[c].lastAck.inc = pane.inc) => hc[c].base \in pane.revs

\* The bound pruneCanonicalRevisions claims: the current revision, and per
\* client a baseline and a revision under way.
RetentionBound == Cardinality(pane.revs) <= 2 * MaxClients + 1

=============================================================================
