----------------------------- MODULE WireEndpoint -----------------------------
(***************************************************************************)
(* WireTerminalEndpoint: the OpenTUI end of one pane's delivery lane.  It  *)
(* assembles one transaction at a time, decodes it against the snapshot it *)
(* last applied, hands it to the subscription and only then acknowledges;  *)
(* anything it cannot use is NACKed and must be reseeded.                  *)
(*                                                                         *)
(* The operators map an endpoint record to the endpoint after a step and   *)
(* the feedback that step puts on the socket.                              *)
(***************************************************************************)
EXTENDS DeliveryHub

\* `rejected` is #rejectedTransactionId, `got` the chunks in the assembler,
\* and `ended` records that the last state applied was a tombstone.
NewEndpoint ==
  [st |-> "live", inc |-> Null, applied |-> Null, reseed |-> FALSE, env |-> None,
   got |-> 0, phase |-> "idle", rejected |-> 0, ended |-> FALSE]

NoEndpoint == [NewEndpoint EXCEPT !.st = "none"]

Endpoints ==
  [st : {"none", "live", "unavailable", "gone"}, inc : Revs, applied : Revs,
   reseed : BOOLEAN, env : Envelopes \cup {None}, got : Nat,
   phase : {"idle", "assembling", "decoding", "pending"},
   rejected : Nat, ended : BOOLEAN]

Step(e, feedback) == [ep |-> e, fb |-> feedback]

\* failConnection and close: the endpoint stops listening.
Fails(e) == Step([NoEndpoint EXCEPT !.st = "gone"], <<>>)

\* #reject: NACK the transaction attempted, and require a seed.
Reject(e, txn) ==
  Step([e EXCEPT !.env = None, !.got = 0, !.phase = "idle", !.rejected = txn,
                 !.reseed = TRUE],
       <<[type |-> "nack", txn |-> txn]>>)

\* A fault ends the connection, except that a lost capture capability only
\* makes this pane unavailable.
AcceptFault(e, m) ==
  IF m.reason = "source-closed" /\ m.cause = "capture"
    THEN Step([NoEndpoint EXCEPT !.st = "unavailable"], <<>>)
    ELSE Fails(e)

\* #acceptEnvelope: an overlap with a decode retires the connection, an
\* overlap with an assembly or an undelivered state is NACKed.
AcceptEnvelope(e, m) ==
  IF e.phase = "decoding" THEN Fails(e)
  ELSE IF e.env # None THEN Reject(e, m.txn)
  ELSE IF /\ m.frame # "seed"
          /\ e.reseed \/ e.inc # m.inc \/ m.base # e.applied
    THEN Reject(e, m.txn)
  ELSE Step([e EXCEPT !.env = m, !.got = 0, !.phase = "assembling", !.rejected = 0],
            <<>>)

\* #acceptChunk: chunks of a rejected transaction are already answered.
AcceptChunk(e, m) ==
  IF m.txn = e.rejected THEN Step(e, <<>>)
  ELSE IF e.env = None THEN Reject(e, m.txn)
  ELSE IF e.phase # "assembling" \/ m.txn # e.env.txn \/ m.index # e.got
    THEN Reject(e, e.env.txn)
  ELSE Step([e EXCEPT !.got = @ + 1,
                      !.phase = IF e.got + 1 = e.env.chunks THEN "decoding" ELSE @],
            <<>>)

\* accept, of an endpoint that is not closed: an unavailable pane still hears
\* faults.
Accept(e, m) ==
  CASE m.type = "fault" -> AcceptFault(e, m)
    [] m.type # "fault" /\ e.st = "unavailable" -> Step(e, <<>>)
    [] m.type = "envelope" /\ e.st = "live" -> AcceptEnvelope(e, m)
    [] m.type = "chunk" /\ e.st = "live" -> AcceptChunk(e, m)

\* Mutant of Decoded: the delivery is acknowledged before it is applied.
DecodedAcknowledges(e) ==
  Step([e EXCEPT !.phase = "pending"],
       <<[type |-> "ack", txn |-> e.env.txn, rev |-> e.env.rev, inc |-> e.env.inc]>>)

\* #acceptVerified and #completeCooperativeCompactDecode: the state waits for
\* the subscription, or the decode failed.
Decoded(e) == Step([e EXCEPT !.phase = "pending"], <<>>)
DecodeFailed(e) == Reject(e, e.env.txn)

\* Mutant of Flushed: the endpoint goes on waiting for a seed.
FlushedUnseeded(e) ==
  Step([e EXCEPT !.applied = e.env.rev, !.inc = e.env.inc, !.env = None, !.got = 0,
                 !.phase = "idle", !.ended = e.env.frame = "tombstone"],
       <<[type |-> "ack", txn |-> e.env.txn, rev |-> e.env.rev, inc |-> e.env.inc]>>)

\* #flush: the update is applied, then acknowledged.
Flushed(e) ==
  Step([e EXCEPT !.applied = e.env.rev, !.inc = e.env.inc, !.reseed = FALSE,
                 !.env = None, !.got = 0, !.phase = "idle",
                 !.ended = e.env.frame = "tombstone"],
       <<[type |-> "ack", txn |-> e.env.txn, rev |-> e.env.rev, inc |-> e.env.inc]>>)

=============================================================================
