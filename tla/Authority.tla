------------------------------- MODULE Authority -------------------------------
(***************************************************************************)
(* Who may type into a session, who has the focus and who sets the size:   *)
(* authority-arbiter.ts, the controller of registry.ts and the transports  *)
(* transport-binding.ts binds to a host.  Transports of one host share its *)
(* connection, its controller lease and its claims.                        *)
(*                                                                         *)
(* Revisions are abstracted to what is done with them: the activity        *)
(* revisions order the hosts, and a controller lease is live until the     *)
(* controller's revision moves on.                                         *)
(***************************************************************************)
EXTENDS Naturals, Sequences, FiniteSets, SequencesExt, FiniteSetsExt

CONSTANTS
  Hosts, Transports,
  HostOf,      \* the host of every transport
  RolesOf,     \* what every transport may be bound as, of Roles
  None

VARIABLES
  arb,         \* the arbiter: recent, foreground, claims, owner, yielding
  timer,       \* the timer that ends a native yield is armed
  controller,  \* controllerClientId
  lease,       \* lease[h]: the controller lease the host's transports share
  role,        \* role[t]: what transport t is bound as, "none" when it is not
  sizers,      \* sizers[h]: geometryTransportLeaseIds
  blocked      \* windowOwnershipMessage: windows are being verified or shared

vars == <<arb, timer, controller, lease, role, sizers, blocked>>

Kinds == {"input", "focus", "geometry"}
\* A pane stream that draws, one that only watches, and a terminal attachment,
\* which knows no authority frames and takes the controller when it is bound.
Roles == {"stream", "viewer", "attachment"}

ASSUME HostOfAssumption == HostOf \in [Transports -> Hosts] /\ None \notin Hosts
ASSUME RolesOfAssumption == RolesOf \in [Transports -> SUBSET Roles]

Arbiters ==
  [recent : Seq(Hosts), foreground : SUBSET Hosts, claims : [Hosts -> SUBSET Kinds],
   owner : [Kinds -> Hosts \cup {None}], yielding : BOOLEAN]

TypeOK ==
  /\ arb \in Arbiters
  /\ timer \in BOOLEAN
  /\ controller \in Hosts \cup {None}
  /\ lease \in [Hosts -> {"none", "live", "stale"}]
  /\ role \in [Transports -> Roles \cup {"none"}]
  /\ sizers \in [Hosts -> Seq(Transports)] /\ \A h \in Hosts : IsInjective(sizers[h])
  /\ blocked \in BOOLEAN

Init ==
  /\ arb = [recent |-> <<>>, foreground |-> {}, claims |-> [h \in Hosts |-> {}],
            owner |-> [k \in Kinds |-> None], yielding |-> FALSE]
  /\ timer = FALSE /\ controller = None /\ blocked = FALSE
  /\ lease = [h \in Hosts |-> "none"]
  /\ role = [t \in Transports |-> "none"]
  /\ sizers = [h \in Hosts |-> <<>>]

-----------------------------------------------------------------------------
(* The arbiter.  Its operations take it and return it, so that a step of the
   runtime that makes several of them is one action. *)

Connected(a) == ToSet(a.recent)

\* The hosts that could own kind k; one that is not connected claims nothing.
Eligible(a, k) == {h \in Hosts : k \in a.claims[h] /\ (k = "input" \/ h \in a.foreground)}

SetOwner(a, k, h) == [a EXCEPT !.owner[k] = h]

\* elect: the active host if it is eligible, else the most recently active one.
\* Input is only elected for an active host.
Preferred(a, k, active) ==
  LET eligible == Eligible(a, k)
  IN CASE eligible = {} -> None
       [] active \in eligible -> active
       [] OTHER -> a.recent[Max({i \in DOMAIN a.recent : a.recent[i] \in eligible})]

\* A slip: whoever was active last takes the geometry.
ElectLatest(a, k, active) ==
  IF k = "geometry" /\ a.yielding THEN SetOwner(a, k, None)
  ELSE SetOwner(a, k, Preferred(a, k, active))

\* A slip: native activity is not given its quiet period.
ElectAtOnce(a, k, active) ==
  IF k = "geometry" /\ a.owner[k] \in Eligible(a, k) THEN a
  ELSE SetOwner(a, k, Preferred(a, k, active))

Elect(a, k, active) ==
  IF k = "geometry" /\ a.yielding THEN SetOwner(a, k, None)
  ELSE IF k = "geometry" /\ a.owner[k] \in Eligible(a, k) THEN a
  ELSE SetOwner(a, k, Preferred(a, k, active))

ElectAmbient(a) == Elect(Elect(a, "focus", None), "geometry", None)

Activity(a, h) == [a EXCEPT !.recent = Append(RemoveFirst(@, h), h)]

Presence(a, h, visible) ==
  IF visible = (h \in a.foreground) THEN a
  ELSE ElectAmbient(Activity(
         [a EXCEPT !.foreground = IF visible THEN @ \cup {h} ELSE @ \ {h}], h))

GiveClaim(a, h, k) == Elect(Activity([a EXCEPT !.claims[h] = @ \cup {k}], h), k, h)

DropClaim(a, h, k) ==
  LET dropped == [a EXCEPT !.claims[h] = @ \ {k}]
  IN IF k \notin a.claims[h] THEN a
     ELSE IF k # "input" THEN Elect(dropped, k, None)
     ELSE IF a.owner[k] = h THEN SetOwner(dropped, k, None) ELSE dropped

\* A new connection has not been active yet.
Connect(a, h) == [a EXCEPT !.recent = <<h>> \o @]

Disconnect(a, h) ==
  LET gone == [a EXCEPT !.recent = RemoveFirst(@, h), !.foreground = @ \ {h}, !.claims[h] = {}]
  IN ElectAmbient(IF a.owner["input"] = h THEN SetOwner(gone, "input", None) ELSE gone)

-----------------------------------------------------------------------------
(* The controller of the runtime, and the leases of the hosts.  s is a record
   of the arbiter, the controller and the leases. *)

Now == [arb |-> arb, controller |-> controller, lease |-> lease]
Becomes(s) == arb' = s.arb /\ controller' = s.controller /\ lease' = s.lease

\* The controller's revision moves on: no lease is live any more.
Outdated(leases) == [h \in Hosts |-> IF leases[h] = "live" THEN "stale" ELSE leases[h]]

Assign(s, h) == [s EXCEPT !.controller = h, !.lease = [Outdated(@) EXCEPT ![h] = "live"]]

ClearController(s) ==
  IF s.controller = None THEN s ELSE [s EXCEPT !.controller = None, !.lease = Outdated(@)]

\* acquireController, by a host that is free to take it.
Acquire(s, h) ==
  LET claimed == [s EXCEPT !.arb = GiveClaim(Presence(@, h, TRUE), h, "input")]
  IN IF s.controller = h THEN [claimed EXCEPT !.lease[h] = "live"] ELSE Assign(claimed, h)

\* A slip: the host that hands over keeps its lease.
HandoffKept(s, from, to) ==
  LET released == DropClaim(DropClaim(s.arb, from, "input"), from, "geometry")
      placed == Presence(Presence(released, from, FALSE), to, TRUE)
  IN Assign([s EXCEPT !.arb = GiveClaim(placed, to, "input")], to)

\* handoffController, with the lease that the binder then forgets.
Handoff(s, from, to) ==
  LET released == DropClaim(DropClaim(s.arb, from, "input"), from, "geometry")
      placed == Presence(Presence(released, from, FALSE), to, TRUE)
      assigned == Assign([s EXCEPT !.arb = GiveClaim(placed, to, "input")], to)
  IN [assigned EXCEPT !.lease[from] = "none"]

\* activateController: a live lease is enough; the controller that is in the
\* way hands over, whether or not it still has the lease that says so.
Activate(s, h) ==
  CASE s.lease[h] = "live" -> s
    [] s.lease[h] # "live" /\ blocked -> [s EXCEPT !.lease[h] = "none"]
    [] s.lease[h] # "live" /\ ~blocked /\ s.controller \in {None, h} -> Acquire(s, h)
    [] OTHER -> Handoff(IF s.lease[s.controller] = "live" THEN s ELSE Acquire(s, s.controller),
                        s.controller, h)

\* A slip: the controller goes, its claim of the input stays.
SurrenderOnly(s, h) ==
  LET cleared == [ClearController(s) EXCEPT !.lease[h] = "none"]
  IN [cleared EXCEPT !.arb = DropClaim(@, h, "geometry")]

\* releaseController with a live lease.
Surrender(s, h) ==
  LET cleared == [ClearController(s) EXCEPT !.lease[h] = "none"]
  IN [cleared EXCEPT !.arb = DropClaim(DropClaim(@, h, "input"), h, "geometry")]

-----------------------------------------------------------------------------
(* Transports *)

Refs(h) == {t \in Transports : HostOf[t] = h /\ role[t] # "none"}
IsStream(t) == role[t] \in {"stream", "viewer"}

\* bind.  A pane stream that draws may size; an attachment takes the controller
\* unless its host has a lease, and is refused while another host is it.
Bind(t) ==
  LET h == HostOf[t]
      joined == IF Refs(h) = {} THEN [Now EXCEPT !.arb = Connect(@, h)] ELSE Now
      free == ~blocked /\ controller \in {None, h}
  IN /\ role[t] = "none"
     /\ \E r \in RolesOf[t] :
          LET takes == r = "attachment" /\ lease[h] = "none"
          IN /\ takes => free
             /\ role' = [role EXCEPT ![t] = r]
             /\ sizers' = [sizers EXCEPT ![h] = IF r = "stream" THEN Append(@, t) ELSE @]
             /\ Becomes(IF takes THEN Acquire(joined, h) ELSE joined)
     /\ UNCHANGED <<timer, blocked>>

\* presence and activity frames.
SetPresence(t) ==
  LET h == HostOf[t]
  IN /\ IsStream(t)
     /\ Becomes([Now EXCEPT !.arb = Presence(@, h, h \notin @.foreground)])
     /\ UNCHANGED <<timer, role, sizers, blocked>>

\* Activity in what the host does not claim counts like any other.
NoteActivity(t) ==
  LET h == HostOf[t]
  IN /\ IsStream(t)
     /\ \/ Becomes([Now EXCEPT !.arb = Activity(@, h)])
        \/ \E k \in arb.claims[h] \ {"input"} :
             Becomes([Now EXCEPT !.arb = Elect(Activity(@, h), k, h)])
     /\ UNCHANGED <<timer, role, sizers, blocked>>

\* requestAuthority("input"): the controller first, then the claim.
RequestInput(t) ==
  LET h == HostOf[t]  active == Activate(Now, h)
  IN /\ role[t] = "stream"
     /\ Becomes(IF blocked THEN active ELSE [active EXCEPT !.arb = GiveClaim(@, h, "input")])
     /\ UNCHANGED <<timer, role, sizers, blocked>>

RequestFocus(t) ==
  /\ IsStream(t) /\ ~blocked
  /\ Becomes([Now EXCEPT !.arb = GiveClaim(@, HostOf[t], "focus")])
  /\ UNCHANGED <<timer, role, sizers, blocked>>

\* A slip: a transport that asks again is there twice.
RequestGeometryTwice(t) ==
  LET h == HostOf[t]  claimed == GiveClaim(Now.arb, h, "geometry")
  IN /\ role[t] = "stream" /\ ~blocked
     /\ Becomes([Now EXCEPT !.arb = claimed])
     /\ sizers' = [sizers EXCEPT ![h] =
          IF claimed.owner["geometry"] = h THEN Append(@, t) ELSE RemoveFirst(@, t)]
     /\ UNCHANGED <<timer, role, blocked>>

\* The transport that was granted the geometry last is the one that sizes.
RequestGeometry(t) ==
  LET h == HostOf[t]  claimed == GiveClaim(Now.arb, h, "geometry")
  IN /\ role[t] = "stream" /\ ~blocked
     /\ Becomes([Now EXCEPT !.arb = claimed])
     /\ sizers' = [sizers EXCEPT ![h] =
          IF claimed.owner["geometry"] = h THEN Append(RemoveFirst(@, t), t) ELSE RemoveFirst(@, t)]
     /\ UNCHANGED <<timer, role, blocked>>

\* releaseAuthority("input").  A lease that is no longer live is forgotten and
\* the call fails.
ReleaseInput(t) ==
  LET h == HostOf[t]
  IN /\ IsStream(t)
     /\ CASE lease[h] = "live" -> Becomes(Surrender(Now, h))
          [] lease[h] = "stale" -> Becomes([Now EXCEPT !.lease[h] = "none"])
          [] OTHER -> Becomes(IF controller = h THEN Now
                              ELSE [Now EXCEPT !.arb = DropClaim(@, h, "input")])
     /\ UNCHANGED <<timer, role, sizers, blocked>>

ReleaseFocus(t) ==
  /\ IsStream(t)
  /\ Becomes([Now EXCEPT !.arb = DropClaim(@, HostOf[t], "focus")])
  /\ UNCHANGED <<timer, role, sizers, blocked>>

\* Only the last transport of a host that could size gives up the host's claim.
WithoutSizer(s, t) ==
  IF sizers[HostOf[t]] = <<t>> THEN [s EXCEPT !.arb = DropClaim(@, HostOf[t], "geometry")] ELSE s

ReleaseGeometry(t) ==
  /\ IsStream(t)
  /\ sizers' = [sizers EXCEPT ![HostOf[t]] = RemoveFirst(@, t)]
  /\ Becomes(WithoutSizer(Now, t))
  /\ UNCHANGED <<timer, role, blocked>>

\* A slip: the host is disconnected, but not as the controller.
CloseQuietly(t) ==
  LET h == HostOf[t]  unsized == WithoutSizer(Now, t)
  IN /\ role[t] # "none"
     /\ role' = [role EXCEPT ![t] = "none"]
     /\ sizers' = [sizers EXCEPT ![h] = RemoveFirst(@, t)]
     /\ Becomes(IF Refs(h) # {t} THEN unsized
                ELSE [unsized EXCEPT !.arb = Disconnect(@, h), !.lease[h] = "none"])
     /\ UNCHANGED <<timer, blocked>>

\* close, and with the host's last transport release: a lease is surrendered if
\* it is live, and closing the connection retires whatever is left.
Close(t) ==
  LET h == HostOf[t]
      unsized == WithoutSizer(Now, t)
      surrendered == IF lease[h] = "live" THEN Surrender(unsized, h)
                     ELSE [unsized EXCEPT !.lease[h] = "none"]
      retired == IF surrendered.controller = h THEN ClearController(surrendered) ELSE surrendered
  IN /\ role[t] # "none"
     /\ role' = [role EXCEPT ![t] = "none"]
     /\ sizers' = [sizers EXCEPT ![h] = RemoveFirst(@, t)]
     /\ Becomes(IF Refs(h) # {t} THEN unsized
                ELSE [retired EXCEPT !.arb = Disconnect(@, h)])
     /\ UNCHANGED <<timer, blocked>>

-----------------------------------------------------------------------------
(* tmux: its own clients, and windows shared with other sessions *)

\* noteNativeGeometryActivity: nobody sizes for a while.
NativeActivity ==
  /\ Becomes([Now EXCEPT !.arb = SetOwner([@ EXCEPT !.yielding = TRUE], "geometry", None)])
  /\ timer' = TRUE
  /\ UNCHANGED <<role, sizers, blocked>>

\* The clock passes the deadline.
QuietLongEnough ==
  /\ arb.yielding
  /\ Becomes([Now EXCEPT !.arb.yielding = FALSE])
  /\ UNCHANGED <<timer, role, sizers, blocked>>

\* A slip: a timer that wakes early is not armed again.
TimerFiresOnce ==
  /\ timer /\ timer' = FALSE
  /\ Becomes(IF arb.yielding THEN Now ELSE [Now EXCEPT !.arb = Elect(@, "geometry", None)])
  /\ UNCHANGED <<role, sizers, blocked>>

\* A timer may wake before its deadline; then it is armed again.
TimerFires ==
  /\ timer /\ timer' = arb.yielding
  /\ Becomes(IF arb.yielding THEN Now ELSE [Now EXCEPT !.arb = Elect(@, "geometry", None)])
  /\ UNCHANGED <<role, sizers, blocked>>

\* invalidateSharedWindowAuthority: every claim of every host is released, and
\* with the last of them every owner is gone.
Invalidate ==
  /\ blocked' = TRUE
  /\ Becomes([ClearController(Now) EXCEPT !.arb =
       [@ EXCEPT !.claims = [h \in Hosts |-> {}], !.owner = [k \in Kinds |-> None]]])
  /\ UNCHANGED <<timer, role, sizers>>

\* Verification of who owns the windows starts, or it or a conflict ends.
Verify ==
  /\ blocked' = ~blocked
  /\ Becomes(Now)
  /\ UNCHANGED <<timer, role, sizers>>

Transport(t) ==
  \/ Bind(t) \/ SetPresence(t) \/ NoteActivity(t)
  \/ RequestInput(t) \/ RequestFocus(t) \/ RequestGeometry(t)
  \/ ReleaseInput(t) \/ ReleaseFocus(t) \/ ReleaseGeometry(t) \/ Close(t)

Next ==
  \/ \E t \in Transports : Transport(t)
  \/ NativeActivity \/ QuietLongEnough \/ TimerFires \/ Invalidate \/ Verify

Spec == Init /\ [][Next]_vars

\* A timer that is armed fires.
FairSpec == Spec /\ WF_vars(TimerFires)

-----------------------------------------------------------------------------
(* Properties *)

\* What is shown as the owner of the input is who may execute.
ControllerIsInputOwner == arb.owner["input"] = controller

\* The controller's host has a transport and the lease that lets it type, and
\* nobody else has one: no host can lock all others out without typing itself.
ControllerCanType ==
  \A h \in Hosts : /\ lease[h] = "live" <=> controller = h
                   /\ controller = h => Refs(h) # {}

\* A host is left with a lease that is of no use only by a conflict over a
\* window; until then a release of the input cannot fail.
OnlyConflictsOutdate ==
  [][\A h \in Hosts : lease[h] # "stale" /\ lease'[h] = "stale" => blocked']_vars

\* Focus and geometry belong to hosts that are connected, claim them and are in
\* the foreground, and to nobody while tmux's own client sets the size.
OwnersAreEligible ==
  /\ \A k \in {"focus", "geometry"} :
       arb.owner[k] \in (Eligible(arb, k) \cap Connected(arb)) \cup {None}
  /\ arb.yielding => arb.owner["geometry"] = None

\* If somebody could own the geometry and nobody does, a timer will see to it.
GeometryIsNotForgotten ==
  Eligible(arb, "geometry") # {} /\ arb.owner["geometry"] = None => timer

\* "Geometry remains stable until its owner backgrounds, disconnects or
\* releases", or a native client is active.
GeometryIsStable ==
  [][LET h == arb.owner["geometry"]
     IN h # None /\ arb'.owner["geometry"] # h =>
          h \notin Eligible(arb', "geometry") \/ arb'.yielding]_vars

\* A foreground claim is served in the end, unless native activity goes on: a
\* timer that woke early has not been the last.
GeometryReturns ==
  <>[](Eligible(arb, "geometry") # {} /\ ~arb.yielding) => []<>(arb.owner["geometry"] # None)

===============================================================================
