-------------------------- MODULE ProtectiveLifecycle --------------------------
(***************************************************************************)
(* The pure protective decision of the qualified runtime, translated from  *)
(* execution/protective_lifecycle.py: which commands one owned trade needs *)
(* now, given the evidence about its entry order and its exits, the        *)
(* position it owns and the clock and risk flags.                          *)
(*                                                                         *)
(* Abstractions.                                                           *)
(*  - Quantities are counted in lot steps and one step is the venue's      *)
(*    minimum.  build_plan never exceeds the venue's maximum, so every     *)
(*    split_exit yields one slice.                                         *)
(*  - Prices are fixed by the plan, so no observed price differs from the  *)
(*    plan's; sides are fixed by the plan.                                 *)
(*  - PARTIALLY_FILLED is NEW with some fill (the code treats the two      *)
(*    alike everywhere), EXPIRED_IN_MATCH is EXPIRED.                      *)
(*  - A client id is its role and the fill counts hashed into it, so two   *)
(*    ids are equal exactly when action_id gives equal hashes.             *)
(***************************************************************************)
EXTENDS Integers, FiniteSetsExt

CONSTANTS
  PlanQuantity,   \* lot steps the plan buys (or sells)
  Staged          \* TRUE: ICT plan, two targets; FALSE: scalper, one target

ASSUME PlanQuantityAssumption == PlanQuantity \in Nat \ {0}
\* build_plan refuses an ICT quantity that cannot feed two targets.
ASSUME StagedAssumption == Staged \in BOOLEAN /\ (Staged => PlanQuantity > 1)

Quantities == 0..PlanQuantity

Terminal == {"FILLED", "CANCELED", "EXPIRED", "REJECTED"}
Active   == {"NEW", "CONDITIONAL_NEW"}

TargetRoles == IF Staged THEN {"TP1", "TP2"} ELSE {"TP1"}

--------------------------------------------------------------------------------
(* Client ids: <<role, entry filled, exits filled>> as action_id keys them. *)

EntryId  == <<"ENTRY", 0, 0>>
PrearmId == <<"STOP", 0, 0>>

StopIds    == {"STOP"} \X Quantities \X {0}
TargetIds  == {t \in TargetRoles \X Quantities \X Quantities : t[3] < t[2]}
FlattenIds == {f \in {"FLATTEN"} \X Quantities \X Quantities : f[3] < f[2]}
ExitIds    == StopIds \cup TargetIds \cup FlattenIds
Ids        == {EntryId} \cup ExitIds

Role(id) == id[1]

(* An action is a protective command; a batch is what one decision issues: *)
(* all of "first", then all of "next".                                     *)
Actions == [op : {"PLACE", "CANCEL"}, id : Ids, quantity : 1..PlanQuantity]

Batches == [first : SUBSET Actions, next : SUBSET Actions]

NoActions == [first |-> {}, next |-> {}]

Cancels(ids) == {[op |-> "CANCEL", id |-> i, quantity |-> PlanQuantity] : i \in ids}

\* Mutant: an order for nothing is placed once everything is covered.
PlacementsOfNothing(id, total, already) ==
  {[op |-> "PLACE", id |-> id, quantity |-> n] :
     n \in {k \in Quantities : k + already = total}}

Placements(id, total, already) ==
  {[op |-> "PLACE", id |-> id, quantity |-> n] :
     n \in {k \in 1..PlanQuantity : k + already = total}}

PrearmActions == Placements(PrearmId, PlanQuantity, 0)

--------------------------------------------------------------------------------
(* Sums over the evidence: ev[id] is [status, filled, quantity], with      *)
(* status "none" for an id that was never used.                            *)

Outstanding(ev, id) == ev[id].quantity - ev[id].filled

FilledBy(ev, ids) ==
  MapThenSumSet(LAMBDA i : ev[i].filled, {i \in ids : ev[i].filled > 0})

OutstandingOf(ev, ids) == MapThenSumSet(LAMBDA i : Outstanding(ev, i), ids)

ExitFilled(ev) == FilledBy(ev, ExitIds)

LiveStops(ev) == {s \in StopIds : ev[s].status = "CONDITIONAL_NEW"}

StopCoverage(ev) == OutstandingOf(ev, LiveStops(ev))

EntryIsProtected(ev) == StopCoverage(ev) >= PlanQuantity

EntryPending(ev) == ev[EntryId].status \notin Terminal

OpenExits(ev) == {x \in ExitIds : ev[x].status \notin Terminal \cup {"none"}}

--------------------------------------------------------------------------------
(* The decision.                                                           *)

Cancellation(ev) == IF EntryPending(ev) THEN Cancels({EntryId}) ELSE {}

\* Mutant: an accepted closure that has not filled is not pending.
FlattenPendingIfUnknown(ev) == \E f \in FlattenIds : ev[f].status = "UNKNOWN"

FlattenPending(ev) == OpenExits(ev) \cap FlattenIds # {}

StopPending(ev) == \E s \in StopIds : ev[s].status = "NEW"

StopFailed(ev) == \E s \in StopIds : ev[s].status \in Terminal \cup {"UNKNOWN"}

\* Mutant: giving up the entry gives up its stops as well.
WhenFlatCleansUp(ev, giveUp) ==
  [NoActions EXCEPT !.first = IF EntryPending(ev) /\ ~giveUp THEN {} ELSE Cancellation(ev),
                    !.next  = IF EntryPending(ev) /\ ~giveUp THEN {} ELSE Cancels(OpenExits(ev))]

WhenFlat(ev, giveUp) ==
  IF EntryPending(ev)
    THEN [NoActions EXCEPT !.first = IF giveUp THEN Cancels({EntryId}) ELSE {}]
    ELSE [NoActions EXCEPT !.first = Cancels(OpenExits(ev))]

\* Mutant: the closure replaces the stops.
ClosureReplacesStops(ev, exited, owned) ==
  [first |-> Cancellation(ev) \cup Cancels(OpenExits(ev) \cap StopIds),
   next  |-> Placements(<<"FLATTEN", ev[EntryId].filled, exited>>, owned, 0)]

Closure(ev, exited, owned) ==
  [first |-> Cancellation(ev),
   next  |-> Placements(<<"FLATTEN", ev[EntryId].filled, exited>>, owned, 0)]

Rearm(ev, owned) ==
  [first |-> Placements(<<"STOP", ev[EntryId].filled, 0>>, owned, StopCoverage(ev)),
   next  |-> Cancellation(ev)]

InitialTP1 == IF Staged THEN PlanQuantity \div 2 ELSE PlanQuantity

ActualTP1(filled) ==
  LET share == (filled * InitialTP1) \div PlanQuantity
  IN  IF Staged /\ (share < 1 \/ filled - share < 1) THEN 0 ELSE share

DesiredTP1(ev, owned) ==
  Min({owned, Max({0, ActualTP1(ev[EntryId].filled)
                        - FilledBy(ev, {t \in TargetIds : Role(t) = "TP1"})})})

\* Mutant: the final target is sized without the partial one.
DesiredOverlapping(ev, owned, role) ==
  IF role = "TP1" THEN DesiredTP1(ev, owned) ELSE owned

Desired(ev, owned, role) ==
  IF role = "TP1" THEN DesiredTP1(ev, owned) ELSE owned - DesiredTP1(ev, owned)

LiveTargets(ev, role) == {t \in TargetIds : Role(t) = role /\ ev[t].status \in Active}

PlaceTarget(ev, exited, owned, role) ==
  Placements(<<role, ev[EntryId].filled, exited>>, Desired(ev, owned, role),
             OutstandingOf(ev, LiveTargets(ev, role)))

Targets(ev, exited, owned) ==
  LET oversized(role) ==
        OutstandingOf(ev, LiveTargets(ev, role)) > Desired(ev, owned, role)
  IN  IF oversized("TP1")
        THEN [NoActions EXCEPT !.first = Cancels(LiveTargets(ev, "TP1"))]
      ELSE IF oversized("TP2")
        THEN [NoActions EXCEPT !.first = Cancels(LiveTargets(ev, "TP2"))]
      ELSE [first |-> PlaceTarget(ev, exited, owned, "TP1"),
            next  |-> IF Staged THEN PlaceTarget(ev, exited, owned, "TP2") ELSE {}]

WhenOwned(ev, exited, owned, breach, leave) ==
  IF FlattenPending(ev) \/ (StopPending(ev) /\ ~breach)
    THEN [NoActions EXCEPT !.first = Cancellation(ev)]
  ELSE IF breach \/ leave \/ StopFailed(ev)
    THEN Closure(ev, exited, owned)
  ELSE IF StopCoverage(ev) < owned
    THEN Rearm(ev, owned)
  ELSE IF EntryPending(ev)
    THEN [NoActions EXCEPT !.first = Cancellation(ev)]
  ELSE IF \E x \in ExitIds : ev[x].status = "UNKNOWN"
    THEN NoActions
  ELSE Targets(ev, exited, owned)

\* Mutant: a breach only cancels a resting entry.
BreachKeepsPosition(ev, exited, owned, breach, invalidated, expired, holdOver) ==
  IF owned = 0
    THEN WhenFlat(ev, breach \/ invalidated \/ expired)
    ELSE WhenOwned(ev, exited, owned, FALSE, invalidated \/ holdOver)

\* Mutant: the hold time does not end a position.
HoldsForever(ev, exited, owned, breach, invalidated, expired, holdOver) ==
  IF owned = 0
    THEN WhenFlat(ev, breach \/ invalidated \/ expired)
    ELSE WhenOwned(ev, exited, owned, breach, invalidated)

(* breach: daily loss or external risk event; leave: the strategy is       *)
(* invalidated or the hold time is over; expired: the entry's five minutes *)
(* are over.                                                               *)
ProtectiveActions(ev, exited, owned, breach, invalidated, expired, holdOver) ==
  IF owned = 0
    THEN WhenFlat(ev, breach \/ invalidated \/ expired)
    ELSE WhenOwned(ev, exited, owned, breach, invalidated \/ holdOver)

================================================================================
