----------------------------- MODULE DeliveryHub -----------------------------
(***************************************************************************)
(* SessionRuntimeTerminalDeliveryHub: one pane's canonical terminal state  *)
(* fanned out to its viewers.  Every viewer owns at most one delivery      *)
(* transaction (an envelope and its chunks); updates arriving meanwhile    *)
(* are coalesced into a pointer to the latest revision.                    *)
(*                                                                         *)
(* A client record is the state the hub keeps for a connection; the        *)
(* operators on client records are the hub's private methods, and the      *)
(* actions are its entry points, microtasks and timers.                    *)
(***************************************************************************)
EXTENDS Integers, Sequences, FiniteSets

CONSTANTS
  Clients,          \* connection slots: one lane of one viewer each
  None,             \* the code's null
  MaxClients,       \* MAX_CLIENTS; a client has one lane in the one pane
                    \* modelled, so MAX_CONNECTIONS never binds first
  MaxPending,       \* MAX_CANONICAL_REVISIONS, as the pending update budget
  MaxJobs,          \* the MAX_PANES limit on pending encodings
  ChunkCounts,      \* numbers of chunks a representation may be cut into
  Scenario          \* the environment's events a model allows, by name

VARIABLES
  pane,       \* the PaneState of the modelled pane, NoPane when it has none
  hc,         \* hc[c]: ClientState (or reservation) of slot c
  wire,       \* wire[c]: messages c's socket holds, oldest first; a socket
              \* that closes discards them
  hubClosed   \* #closed

hubVars == <<pane, hc, wire, hubClosed>>

Null == -1    \* a null revision; also the baseline of a client without one

-----------------------------------------------------------------------------
(* Data *)

Revs == Nat \cup {Null}
Frames == {"seed", "patch", "tombstone"}
Reasons == {"state-too-large", "source-closed", "protocol-violation"}

\* The text of a fault, reduced to what caused it.
Causes == {"ack-none", "ack-mismatch", "nack-mismatch", "tombstone",
           "restarted", "capture", "pending-budget", "source-invalid",
           "encodings", "representation", "seed-of-tombstone"}

\* The causes that accuse the client of a wrong ACK or NACK.
Accusations == {"ack-none", "ack-mismatch", "nack-mismatch"}

Updates == [rev : Nat, inc : Nat, tomb : BOOLEAN]
Envelopes == [type : {"envelope"}, txn : Nat, rev : Nat, inc : Nat,
              frame : Frames, base : Revs, chunks : Nat]
Chunks == [type : {"chunk"}, txn : Nat, index : Nat]
FaultMsgs == [type : {"fault"}, reason : Reasons, cause : Causes]
Messages == Envelopes \cup Chunks \cup FaultMsgs
Acks == [type : {"ack"}, txn : Nat, rev : Nat, inc : Nat]
Nacks == [type : {"nack"}, txn : Nat]
Flights == [env : Envelopes, next : Nat]
Encodings == [rev : Nat, inc : Nat, base : Revs, reseed : BOOLEAN]

ASSUME NoneAssumption ==
  None \notin Updates \cup Messages \cup Acks \cup Flights \cup Encodings

ASSUME BoundsAssumption ==
  /\ IsFiniteSet(Clients)
  /\ MaxClients \in Nat \ {0} /\ MaxPending \in Nat \ {0}
  /\ MaxJobs \in Nat \ {0} /\ ChunkCounts \subseteq Nat \ {0}

Panes == [st : {"none", "starting", "seeded", "live"}, inc : Nat, cur : Revs,
          tomb : BOOLEAN, revs : SUBSET Nat, queue : Seq(Updates),
          drain : {"idle", "ready", "running", "reducing"},
          held : Updates \cup {None}, aborted : BOOLEAN]

ClientStates ==
  [st : {"idle", "opening", "resuming", "orphaned", "retired", "open"},
   vis : {"visible", "background", "hidden"},
   base : Revs, latest : Revs, reseed : BOOLEAN,
   flight : Flights \cup {None}, enc : Encodings \cup {None},
   sched : BOOLEAN, timer : BOOLEAN,
   out : Seq(Messages), snd : {"idle", "queued", "waiting"},
   oob : FaultMsgs \cup {None}, retire : BOOLEAN, gone : BOOLEAN,
   lastAck : Acks \cup {None}, displaced : Envelopes \cup {None}, txn : Nat]

HubTypeOK ==
  /\ pane \in Panes
  /\ hc \in [Clients -> ClientStates]
  /\ wire \in [Clients -> Seq(Messages)]
  /\ hubClosed \in BOOLEAN

NoPane ==
  [st |-> "none", inc |-> 0, cur |-> Null, tomb |-> FALSE, revs |-> {},
   queue |-> <<>>, drain |-> "idle", held |-> None, aborted |-> FALSE]

IdleClient ==
  [st |-> "idle", vis |-> "visible", base |-> Null, latest |-> Null,
   reseed |-> FALSE, flight |-> None, enc |-> None, sched |-> FALSE,
   timer |-> FALSE, out |-> <<>>, snd |-> "idle", oob |-> None,
   retire |-> FALSE, gone |-> FALSE, lastAck |-> None, displaced |-> None,
   txn |-> 0]

IsOpen(c) == hc[c].st = "open"
FaultMsg(reason, cause) == [type |-> "fault", reason |-> reason, cause |-> cause]

HubInit ==
  /\ pane = NoPane
  /\ hc = [c \in Clients |-> IdleClient]
  /\ wire = [c \in Clients |-> <<>>]
  /\ hubClosed = FALSE

-----------------------------------------------------------------------------
(* One client: the hub's private methods *)

\* #schedule: a visible client delivers in a microtask, a background one when
\* its timer fires; nothing is scheduled behind a flight or an encoding.
Schedule(r) ==
  IF /\ r.st = "open" /\ ~r.gone /\ r.flight = None /\ r.enc = None
     /\ r.latest \notin {Null, r.base} /\ r.vis # "hidden"
    THEN IF r.vis = "background" THEN [r EXCEPT !.timer = TRUE]
                                 ELSE [r EXCEPT !.sched = TRUE]
    ELSE r

\* #enqueue: queue a message and wake the sender.
Enqueue(r, m) ==
  IF r.st = "open"
    THEN [r EXCEPT !.out = Append(@, m),
                   !.snd = IF @ = "idle" THEN "queued" ELSE @]
    ELSE r

\* Mutants of Fault: the displaced flight is not remembered, or the flight is
\* remembered instead of its envelope.
FaultForgetsFlight(r, reason, cause) ==
  LET cleared == [r EXCEPT !.enc = None, !.out = <<>>, !.flight = None]
  IN IF reason = "source-closed" /\ r.snd # "idle"
       THEN [cleared EXCEPT !.oob = FaultMsg(reason, cause)]
       ELSE [Enqueue(cleared, FaultMsg(reason, cause)) EXCEPT !.retire = TRUE]

FaultKeepsFlight(r, reason, cause) ==
  [FaultForgetsFlight(r, reason, cause) EXCEPT !.displaced = r.flight]

\* #fault: the flight and everything queued are dropped.  Source closure
\* overtakes a busy sender through oob; any other fault waits in the queue.
Fault(r, reason, cause) ==
  LET cleared == [r EXCEPT !.enc = None, !.out = <<>>, !.flight = None,
                    !.displaced = IF reason # "source-closed" THEN @
                                  ELSE IF r.flight = None THEN None
                                  ELSE r.flight.env]
  IN IF reason = "source-closed" /\ r.snd # "idle"
       THEN [cleared EXCEPT !.oob = FaultMsg(reason, cause)]
       ELSE [Enqueue(cleared, FaultMsg(reason, cause)) EXCEPT !.retire = TRUE]

\* The out-of-band faults of a step reach the socket in that step.
SendOutOfBand ==
  wire' = [c \in Clients |->
             IF hc'[c].oob \notin {None, hc[c].oob}
               THEN Append(wire[c], hc'[c].oob) ELSE wire[c]]

\* Mutants of Needs and Prune: the baseline is not kept; nothing is dropped.
NeedsNoBaseline(r, p) ==
  (IF r.enc # None /\ r.enc.inc = p.inc THEN {r.enc.rev} ELSE {})
    \cup (IF r.flight # None /\ r.flight.env.inc = p.inc
            THEN {r.flight.env.rev} ELSE {})

PruneNothing(p, clients) == p

\* pruneCanonicalRevisions: a revision is kept while some client may need it
\* as a baseline, an encoding target or a flight.  Every retained revision is
\* of the pane's incarnation: revisions go on across incarnations.
Needs(r, p) ==
  (IF r.reseed THEN {} ELSE {r.base})
    \cup (IF r.enc # None /\ r.enc.inc = p.inc THEN {r.enc.rev} ELSE {})
    \cup (IF r.flight # None /\ r.flight.env.inc = p.inc
            THEN {r.flight.env.rev} ELSE {})

Prune(p, clients) ==
  IF p.cur = Null THEN p
  ELSE [p EXCEPT !.revs =
         {v \in @ : \/ v = p.cur
                    \/ \E c \in Clients : clients[c].st = "open"
                                            /\ v \in Needs(clients[c], p)}]

\* cancelEncoding prunes: the pane after a step that cancelled some encoding.
PruneCancelled(p) ==
  IF \E c \in Clients : hc[c].enc # None /\ hc'[c].enc = None
    THEN Prune(p, hc') ELSE p

\* Mutant of Abandoned: openings that await the pane's start are forgotten.
AbandonedForgotten(r, p) ==
  IF r.st = "resuming" THEN [r EXCEPT !.st = "orphaned", !.latest = p.cur] ELSE r

\* The pane leaves #panes.  Openings that still await its start will reject;
\* one whose start already resolved goes on with the state it joined.
Abandoned(r, p) ==
  CASE r.st = "opening"  -> [r EXCEPT !.st = "retired"]
    [] r.st = "resuming" -> [r EXCEPT !.st = "orphaned", !.latest = p.cur]
    [] OTHER -> r

RemovePane(clients) ==
  /\ pane' = NoPane
  /\ hc' = [c \in Clients |-> Abandoned(clients[c], pane)]

\* #closeClient: the last open client takes the pane with it.  Reservations
\* in #pendingClients are not counted.
CloseClient(c) ==
  LET rest == [hc EXCEPT ![c] = IdleClient]
  IN IF \E d \in Clients \ {c} : IsOpen(d)
       THEN hc' = rest /\ pane' = Prune(pane, rest)
       ELSE RemovePane(rest)

-----------------------------------------------------------------------------
(* Delivering the latest state *)

Envelope(r, v, frame, n) ==
  [type |-> "envelope", txn |-> r.txn + 1, rev |-> v, inc |-> pane.inc,
   frame |-> frame, chunks |-> n,
   base |-> CASE frame = "seed" -> Null
              [] frame = "patch" -> r.base
              [] OTHER -> IF r.base = Null THEN 0 ELSE r.base]

StartFlight(r, v, frame, n) ==
  LET e == Envelope(r, v, frame, n)
  IN Enqueue([r EXCEPT !.flight = [env |-> e, next |-> 0], !.txn = @ + 1], e)

\* selectExactSemanticRepresentation: a patch needs the client's baseline; a
\* seed is always possible, because patches are given up for size or shape.
PatchOrSeed(r) ==
  IF ~r.reseed /\ r.base \in pane.revs THEN {"patch", "seed"} ELSE {"seed"}

\* #representation: which frames can carry the latest state to this client.
FramesFor(r) == IF pane.tomb THEN {"tombstone"} ELSE PatchOrSeed(r)

\* No representation fits, or making one throws.
Unrepresentable(r) ==
  {Fault(r, reason, "representation") : reason \in {"state-too-large", "protocol-violation"}}

PendingJobs == {hc[c].enc.rev : c \in {d \in Clients : hc[d].enc # None}}

\* #startEncoding: clients of one revision share a job, and jobs are limited.
StartEncoding(r) ==
  IF pane.cur \notin PendingJobs /\ Cardinality(PendingJobs) >= MaxJobs
    THEN Fault(r, "state-too-large", "encodings")
    ELSE [r EXCEPT !.enc = [rev |-> pane.cur, inc |-> pane.inc,
                            base |-> r.base, reseed |-> r.reseed]]

\* #deliver: what a client record may become.
Deliver(r) ==
  IF \/ pane.st = "none" \/ pane.cur = Null
     \/ r.gone \/ r.flight # None \/ r.enc # None
     \/ r.vis = "hidden" \/ pane.cur # r.latest
    THEN {r}
  ELSE IF pane.tomb /\ r.reseed
    THEN {Fault(r, "protocol-violation", "seed-of-tombstone")}
  ELSE {StartFlight(r, pane.cur, f, n) : f \in FramesFor(r), n \in ChunkCounts}
         \cup (IF "encoding" \in Scenario /\ ~pane.tomb
                 THEN {StartEncoding(r)} ELSE {})
         \cup (IF "oversize" \in Scenario THEN Unrepresentable(r) ELSE {})

\* The sender: a queued message first, then the flight's next chunk.
HasNext(r) == r.out # <<>>
                \/ (r.flight # None /\ r.flight.next < r.flight.env.chunks)

NextMessage(r) ==
  IF r.out # <<>> THEN Head(r.out)
  ELSE [type |-> "chunk", txn |-> r.flight.env.txn, index |-> r.flight.next]

\* The sink holds data back until its socket has credit.  The pane stream
\* takes a fault at once; the hub itself makes no such assumption.
TakenAtOnce(m) == m.type = "fault" /\ "slow-fault" \notin Scenario

Sent(r) ==
  IF r.out # <<>>
    THEN [r EXCEPT !.out = Tail(@),
                   !.snd = IF TakenAtOnce(Head(r.out)) THEN "queued" ELSE "waiting"]
  ELSE [r EXCEPT !.flight.next = @ + 1, !.snd = "waiting"]

-----------------------------------------------------------------------------
(* Feedback *)

Identifies(a, e) == a.txn = e.txn /\ a.rev = e.rev /\ a.inc = e.inc

\* An ACK with no flight is inert when it repeats the last one or answers the
\* delivery that source closure displaced.
AckIsBenign(r, a) ==
  /\ r.flight = None
  /\ \/ r.lastAck # None /\ a = r.lastAck
     \/ r.displaced # None /\ Identifies(a, r.displaced)

AckCompletes(r, a) ==
  /\ r.flight # None
  /\ r.flight.next = r.flight.env.chunks
  /\ Identifies(a, r.flight.env)

\* Mutant of Acknowledged: an update coalesced behind the flight is forgotten.
AcknowledgedForgetsLatest(r, a) ==
  [r EXCEPT !.base = a.rev, !.reseed = FALSE, !.flight = None, !.lastAck = a,
            !.latest = Null]

Acknowledged(r, a) ==
  [r EXCEPT !.base = a.rev, !.reseed = FALSE, !.flight = None, !.lastAck = a,
            !.latest = IF @ = a.rev THEN Null ELSE @]

\* A NACK is inert only for the delivery a capture failure displaced.
NackIsBenign(r, n) ==
  /\ r.gone /\ r.flight = None
  /\ r.displaced # None /\ n.txn = r.displaced.txn

NackMatches(r, n) == r.flight # None /\ n.txn = r.flight.env.txn

FaultClient(c, reason, cause) ==
  /\ hc' = [hc EXCEPT ![c] = Fault(@, reason, cause)]
  /\ pane' = PruneCancelled(pane)
  /\ SendOutOfBand
  /\ UNCHANGED hubClosed

Ack(c, a) ==
  /\ IsOpen(c)
  /\ \/ AckIsBenign(hc[c], a) /\ UNCHANGED hubVars
     \/ /\ AckCompletes(hc[c], a)
        /\ LET done == [hc EXCEPT ![c] = Acknowledged(@, a)]
           IN /\ pane' = Prune(pane, done)
              /\ hc' = [done EXCEPT ![c] = Schedule(@)]
        /\ UNCHANGED <<wire, hubClosed>>
     \/ /\ ~AckIsBenign(hc[c], a) /\ ~AckCompletes(hc[c], a)
        /\ FaultClient(c, "protocol-violation",
                       IF hc[c].flight = None THEN "ack-none" ELSE "ack-mismatch")

\* Mutant of Nack: the next delivery may be a patch.
NackWithoutReseed(c, n) ==
  /\ IsOpen(c)
  /\ \/ NackIsBenign(hc[c], n) /\ UNCHANGED hubVars
     \/ /\ NackMatches(hc[c], n)
        /\ hc' = [hc EXCEPT ![c] = Schedule([@ EXCEPT !.flight = None])]
        /\ UNCHANGED <<pane, wire, hubClosed>>
     \/ /\ ~NackIsBenign(hc[c], n) /\ ~NackMatches(hc[c], n)
        /\ FaultClient(c, "protocol-violation", "nack-mismatch")

Nack(c, n) ==
  /\ IsOpen(c)
  /\ \/ NackIsBenign(hc[c], n) /\ UNCHANGED hubVars
     \/ /\ NackMatches(hc[c], n)
        /\ LET dropped == [hc EXCEPT ![c].reseed = TRUE, ![c].flight = None]
           IN /\ pane' = Prune(pane, dropped)
              /\ hc' = [dropped EXCEPT ![c] = Schedule(@)]
        /\ UNCHANGED <<wire, hubClosed>>
     \/ /\ ~NackIsBenign(hc[c], n) /\ ~NackMatches(hc[c], n)
        /\ FaultClient(c, "protocol-violation", "nack-mismatch")

\* Mutant of SetVisibility: hiding drops the delivery under way with the job.
SetVisibilityDropsFlight(c, v) ==
  /\ IsOpen(c)
  /\ LET seen == [hc EXCEPT ![c].vis = v,
                            ![c].enc = IF v = "hidden" THEN None ELSE @,
                            ![c].flight = IF v = "hidden" THEN None ELSE @]
     IN /\ hc' = [seen EXCEPT ![c] = Schedule(@)]
        /\ pane' = PruneCancelled(pane)
  /\ UNCHANGED <<wire, hubClosed>>

SetVisibility(c, v) ==
  /\ IsOpen(c)
  /\ LET seen == [hc EXCEPT ![c].vis = v,
                            ![c].enc = IF v = "hidden" THEN None ELSE @]
     IN /\ hc' = [seen EXCEPT ![c] = Schedule(@)]
        /\ pane' = PruneCancelled(pane)
  /\ UNCHANGED <<wire, hubClosed>>

-----------------------------------------------------------------------------
(* Connections *)

\* Mutant of Open: reservations are not counted.
OpenUnreserved(c) ==
  /\ ~hubClosed
  /\ hc[c].st = "idle"
  /\ Cardinality({d \in Clients : IsOpen(d)}) < MaxClients
  /\ hc' = [hc EXCEPT ![c].st =
              IF pane.st \in {"none", "starting", "seeded"} THEN "opening"
              ELSE "resuming"]
  /\ pane' = IF pane.st = "none" THEN [NoPane EXCEPT !.st = "starting"] ELSE pane
  /\ UNCHANGED <<wire, hubClosed>>

\* open, up to its first await: the reservation is taken before ensurePane.
Open(c) ==
  /\ ~hubClosed
  /\ hc[c].st = "idle"
  /\ Cardinality({d \in Clients : hc[d].st # "idle"}) < MaxClients
  /\ hc' = [hc EXCEPT ![c].st =
              IF pane.st \in {"none", "starting", "seeded"} THEN "opening"
              ELSE "resuming"]
  /\ pane' = IF pane.st = "none" THEN [NoPane EXCEPT !.st = "starting"] ELSE pane
  /\ UNCHANGED <<wire, hubClosed>>

\* open, after the await: the client starts from the pane it joined, which
\* may have left #panes meanwhile.
OpenResume(c) ==
  /\ ~hubClosed
  /\ hc[c].st \in {"resuming", "orphaned"}
  /\ hc' = [hc EXCEPT ![c] = Schedule([IdleClient EXCEPT !.st = "open",
              !.latest = IF hc[c].st = "resuming" THEN pane.cur
                         ELSE hc[c].latest])]
  /\ UNCHANGED <<pane, wire, hubClosed>>

DiscardWire(c) == wire' = [wire EXCEPT ![c] = <<>>]

\* open rejects, because the pane it awaited was retired during startup or the
\* hub has closed; the socket of a failed opening is closed.
OpenRejects(c) ==
  /\ \/ hc[c].st = "retired"
     \/ hubClosed /\ hc[c].st \in {"resuming", "orphaned"}
  /\ hc' = [hc EXCEPT ![c] = IdleClient]
  /\ DiscardWire(c)
  /\ UNCHANGED <<pane, hubClosed>>

\* The socket closed: its release closes the connection.
CloseConnection(c) ==
  /\ IsOpen(c)
  /\ CloseClient(c)
  /\ DiscardWire(c)
  /\ UNCHANGED hubClosed

-----------------------------------------------------------------------------
(* The canonical source *)

\* ensurePane: subscribeSource hands the owner's current seed over before its
\* promise resolves.
SubscribeSource(u) ==
  /\ pane.st = "starting"
  /\ pane' = [pane EXCEPT !.st = "seeded", !.queue = <<u>>, !.drain = "ready"]
  /\ UNCHANGED <<hc, wire, hubClosed>>

\* ... and its continuation, which gives up a pane that was aborted meanwhile.
SourceReady ==
  /\ pane.st = "seeded"
  /\ IF pane.aborted
       THEN pane' = NoPane /\ hc' = [c \in Clients |-> Abandoned(hc[c], pane)]
       ELSE /\ pane' = [pane EXCEPT !.st = "live"]
            /\ hc' = [c \in Clients |-> IF hc[c].st = "opening"
                        THEN [hc[c] EXCEPT !.st = "resuming"] ELSE hc[c]]
  /\ UNCHANGED <<wire, hubClosed>>

\* subscribeSource rejects.  A capture failure is reported on the sink and the
\* opening succeeds with an inert connection; any other error rejects it.
SourceStartFails(capture) ==
  /\ pane.st = "starting"
  /\ pane' = NoPane
  /\ hc' = [c \in Clients |->
              IF hc[c].st # "opening" THEN hc[c]
              ELSE IF capture THEN IdleClient ELSE [hc[c] EXCEPT !.st = "retired"]]
  /\ wire' = [c \in Clients |->
                IF hc[c].st = "opening" /\ capture
                  THEN Append(wire[c], FaultMsg("source-closed", "capture"))
                  ELSE wire[c]]
  /\ UNCHANGED hubClosed

\* Every open client of the pane is faulted and the pane is aborted, but it
\* stays in #panes.
AbortPane(p, reason, cause) ==
  /\ hc' = [c \in Clients |-> IF IsOpen(c) THEN Fault(hc[c], reason, cause)
                              ELSE hc[c]]
  /\ pane' = PruneCancelled([p EXCEPT !.aborted = TRUE, !.queue = <<>>])
  /\ SendOutOfBand
  /\ UNCHANGED hubClosed

\* observeCanonical: the source's listener.
ObserveCanonical(u) ==
  IF pane.st \notin {"seeded", "live"} \/ pane.aborted \/ hubClosed
    THEN UNCHANGED hubVars
  ELSE IF Len(pane.queue) >= MaxPending
    THEN AbortPane(pane, "state-too-large", "pending-budget")
  ELSE /\ pane' = [pane EXCEPT !.queue = Append(@, u),
                               !.drain = IF @ = "idle" THEN "ready" ELSE @]
       /\ UNCHANGED <<hc, wire, hubClosed>>

\* publishCanonical.  A tombstone is delivered only to a visible client with
\* nothing in progress; any other client is told that the source closed.  An
\* encoding of another incarnation is cancelled.
Published(r, u) ==
  IF r.st # "open" \/ r.gone THEN r
  ELSE IF u.tomb /\ (r.flight # None \/ r.enc # None \/ r.vis # "visible")
    THEN Fault(r, "source-closed", "tombstone")
  ELSE IF r.enc # None /\ r.enc.inc # u.inc
    THEN Schedule([r EXCEPT !.latest = u.rev, !.enc = None])
  ELSE Schedule([r EXCEPT !.latest = u.rev])

PublishCanonical(u, p) ==
  LET latest == [p EXCEPT !.cur = u.rev, !.inc = u.inc, !.tomb = u.tomb,
                          !.revs = @ \cup {u.rev}, !.held = None,
                          !.drain = "running", !.aborted = u.tomb,
                          !.queue = IF u.tomb THEN <<>> ELSE @]
  IN /\ hc' = [c \in Clients |-> Published(hc[c], u)]
     /\ pane' = PruneCancelled(Prune(latest, hc))
     /\ SendOutOfBand
     /\ UNCHANGED hubClosed

\* An update that cannot be validated ends the drain and aborts the pane.
SourceInvalid(p) ==
  /\ "source-invalid" \in Scenario
  /\ AbortPane([p EXCEPT !.drain = "idle", !.held = None],
               "protocol-violation", "source-invalid")

\* drainCanonical: updates are published in one synchronous loop ("running"),
\* until a large seed is reduced cooperatively.
DrainStep ==
  /\ pane.drain \in {"ready", "running"}
  /\ IF pane.queue = <<>> \/ pane.aborted
       THEN pane' = [pane EXCEPT !.drain = "idle"] /\ UNCHANGED <<hc, wire, hubClosed>>
       ELSE LET rest == [pane EXCEPT !.queue = Tail(@)] IN
            \/ PublishCanonical(Head(pane.queue), rest)
            \/ SourceInvalid(rest)
            \/ /\ "reduction" \in Scenario
               /\ pane' = [rest EXCEPT !.drain = "reducing", !.held = Head(pane.queue)]
               /\ UNCHANGED <<hc, wire, hubClosed>>

\* The reduction ends.  An aborted pane publishes nothing.
FinishReduction ==
  /\ pane.drain = "reducing"
  /\ IF pane.aborted
       THEN /\ pane' = [pane EXCEPT !.drain = "idle", !.held = None]
            /\ UNCHANGED <<hc, wire, hubClosed>>
       ELSE PublishCanonical(pane.held, pane)

\* ... or throws.
ReductionFails == pane.drain = "reducing" /\ ~pane.aborted /\ SourceInvalid(pane)

\* failPaneCapture: the pane's capture capability is lost for good.
FailPaneCapture ==
  /\ hc' = [c \in Clients |-> IF IsOpen(c) /\ ~hc[c].gone
              THEN Fault([hc[c] EXCEPT !.gone = TRUE], "source-closed", "capture")
              ELSE hc[c]]
  /\ pane' = PruneCancelled(pane)
  /\ SendOutOfBand
  /\ UNCHANGED hubClosed

\* resetForSessionRestart: every client is faulted behind what its sender is
\* doing, and every pane goes.
ResetClient(r) ==
  IF r.st # "open" THEN r
  ELSE [Enqueue([r EXCEPT !.enc = None, !.out = <<>>, !.flight = None],
                FaultMsg("source-closed", "restarted")) EXCEPT !.retire = TRUE]

ResetForSessionRestart == RemovePane([c \in Clients |-> ResetClient(hc[c])])

\* close of the hub: reset, then every client is closed.
CloseHub ==
  /\ ~hubClosed
  /\ hubClosed' = TRUE
  /\ ResetForSessionRestart
  /\ UNCHANGED wire

CloseHubClients ==
  /\ hubClosed
  /\ \E c \in Clients : IsOpen(c)
  /\ hc' = [c \in Clients |-> IF IsOpen(c) THEN IdleClient ELSE hc[c]]
  /\ UNCHANGED <<pane, wire, hubClosed>>

-----------------------------------------------------------------------------
(* Microtasks and timers *)

DeliverMicrotask(c) ==
  /\ IsOpen(c) /\ hc[c].sched
  /\ LET r == [hc[c] EXCEPT !.sched = FALSE]
     IN \E next \in IF r.vis = "visible" /\ r.flight = None
                      THEN Deliver(r) ELSE {r} :
          hc' = [hc EXCEPT ![c] = next]
  /\ SendOutOfBand
  /\ UNCHANGED <<pane, hubClosed>>

\* The BACKGROUND_CADENCE_MS timer.
BackgroundTimer(c) ==
  /\ IsOpen(c) /\ hc[c].timer
  /\ LET r == [hc[c] EXCEPT !.timer = FALSE]
     IN \E next \in IF r.flight = None /\ r.latest # Null
                      THEN Deliver(r) ELSE {r} :
          hc' = [hc EXCEPT ![c] = next]
  /\ SendOutOfBand
  /\ UNCHANGED <<pane, hubClosed>>

\* completeEncoding passes over the clients whose state asks for another frame.
Superseded(r) ==
  \/ r.base # r.enc.base \/ r.reseed # r.enc.reseed \/ r.flight # None
  \/ r.vis = "hidden" \/ r.gone \/ pane.st = "none" \/ pane.inc # r.enc.inc

\* The others choose a representation of the job's target again: the patch may
\* be no larger than the seed, and a failed job leaves the patch, the legacy
\* encoding or nothing.
Encoded(r, ok) ==
  LET idle == [r EXCEPT !.enc = None]
  IN IF Superseded(r) THEN {idle}
     ELSE {StartFlight(idle, r.enc.rev, f, n) : f \in PatchOrSeed(r), n \in ChunkCounts}
            \cup (IF ok THEN {} ELSE Unrepresentable(idle))

CompleteEncoding(v, ok) ==
  LET job == {c \in Clients : hc[c].enc # None /\ hc[c].enc.rev = v}
  IN /\ v \in PendingJobs
     /\ ok \/ "oversize" \in Scenario
     /\ \E next \in [job -> UNION {Encoded(hc[c], ok) : c \in job}] :
          /\ \A c \in job : next[c] \in Encoded(hc[c], ok)
          /\ hc' = [c \in Clients |-> IF c \in job THEN next[c] ELSE hc[c]]
     /\ pane' = IF \A c \in job : Superseded(hc[c]) THEN pane ELSE Prune(pane, hc')
     /\ SendOutOfBand
     /\ UNCHANGED hubClosed

\* Mutants of SenderTurn: a retiring client is closed before its fault is sent,
\* or never.
SenderTurnRetiresFirst(c) ==
  IF hc[c].retire THEN CloseClient(c) /\ UNCHANGED <<wire, hubClosed>>
  ELSE IF HasNext(hc[c])
    THEN /\ wire' = [wire EXCEPT ![c] = Append(@, NextMessage(hc[c]))]
         /\ hc' = [hc EXCEPT ![c] = Sent(@)]
         /\ UNCHANGED <<pane, hubClosed>>
  ELSE hc' = [hc EXCEPT ![c].snd = "idle"] /\ UNCHANGED <<pane, wire, hubClosed>>

SenderTurnLingers(c) ==
  IF HasNext(hc[c])
    THEN /\ wire' = [wire EXCEPT ![c] = Append(@, NextMessage(hc[c]))]
         /\ hc' = [hc EXCEPT ![c] = Sent(@)]
         /\ UNCHANGED <<pane, hubClosed>>
  ELSE hc' = [hc EXCEPT ![c].snd = "idle"] /\ UNCHANGED <<pane, wire, hubClosed>>

\* One turn of the sender loop: accept is called with the next message, or the
\* loop ends and a retiring client is closed.
SenderTurn(c) ==
  IF HasNext(hc[c])
    THEN /\ wire' = [wire EXCEPT ![c] = Append(@, NextMessage(hc[c]))]
         /\ hc' = [hc EXCEPT ![c] = Sent(@)]
         /\ UNCHANGED <<pane, hubClosed>>
  ELSE IF hc[c].retire
    THEN CloseClient(c) /\ UNCHANGED <<wire, hubClosed>>
  ELSE /\ hc' = [hc EXCEPT ![c].snd = "idle"]
       /\ UNCHANGED <<pane, wire, hubClosed>>

SenderMicrotask(c) == IsOpen(c) /\ hc[c].snd = "queued" /\ SenderTurn(c)

\* The sink returned credit for the last message.
SinkAccepted(c) == IsOpen(c) /\ hc[c].snd = "waiting" /\ SenderTurn(c)

\* The sink rejected, or took longer than the five second deadline; the
\* connection's end closes the socket.
SinkFailed(c) ==
  /\ IsOpen(c) /\ hc[c].snd = "waiting"
  /\ CloseClient(c)
  /\ DiscardWire(c)
  /\ UNCHANGED hubClosed

\* The continuation of an out-of-band fault.
OutOfBandSent(c) ==
  /\ IsOpen(c) /\ hc[c].oob # None
  /\ CloseClient(c)
  /\ UNCHANGED <<wire, hubClosed>>

\* A tombstoned pane is reaped by a zero millisecond timer.
ReapPane ==
  /\ pane.st # "none" /\ pane.tomb
  /\ RemovePane(hc)
  /\ UNCHANGED <<wire, hubClosed>>

\* Microtasks that are due: the event loop takes no timer and no socket event
\* before they have run.
Quiet ==
  /\ pane.drain \notin {"ready", "running"} /\ pane.st # "seeded"
  /\ \A c \in Clients :
       /\ hc[c].st \notin {"resuming", "orphaned"}
       /\ ~hc[c].sched /\ hc[c].snd # "queued"
       /\ "slow-fault" \notin Scenario => hc[c].oob = None

\* The synchronous publishing loop is not interrupted.
Uninterrupted == pane.drain # "running"
=============================================================================
