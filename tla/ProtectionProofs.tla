---------------------------- MODULE ProtectionProofs ----------------------------
(***************************************************************************)
(* A position is never without its stops, is never closed twice, is never  *)
(* sold twice to its targets, and belongs to an open trade: the safety     *)
(* properties of TradeLifecycle about what is on its way to the exchange,  *)
(* for every plan quantity, exchange behaviour, set of events and number   *)
(* of faults and crashes.                                                  *)
(*                                                                         *)
(* None of them is inductive.  A cancellation of a stop may travel for     *)
(* long, so it must be known that no entry is sent after it was decided    *)
(* (Admitting: what an admission read before it armed); a closure is       *)
(* decided before it is sent, so what is planned counts as what travels    *)
(* (OneClosure, StopsKept); a target is sized from journals that lag the   *)
(* exchange, so each has a claim that what it fills meanwhile is part of   *)
(* (ClaimsFit), and an order has one quantity everywhere (Sizes); a trade  *)
(* is closed long before an admission of its plan may begin, so what the   *)
(* admission finds of its stop must rule the entry out (OwnedAlone).       *)
(***************************************************************************)
EXTENDS OwnedTradeProofs

PlacePrearm  == <<"PLACE", PrearmId>>
CancelPrearm == <<"CANCEL", PrearmId>>

\* What the last decision asked for and was not sent yet.
Planned == batch.first \cup batch.next

--------------------------------------------------------------------------------
(* What the book and the journals say.                                     *)

\* The exchange's statuses are its own; a stop is filled by its child only.
BookIsPlain ==
  /\ \A id \in Ids : book[id].status \notin {"SUBMITTING", "UNKNOWN"}
  /\ \A s \in StopIds : book[s].status = "CONDITIONAL_NEW" => book[s].filled = 0

\* A record that is neither being sent nor in doubt was read at the exchange.
RecordIsObserved ==
  \A c \in Commands : rec[c].status \notin {"none", "SUBMITTING", "UNKNOWN"}
                        => book[c[2]].status # "none"

\* Only what was placed is cancelled.
CancelsKnown ==
  /\ \A id \in Ids : Recorded(<<"CANCEL", id>>) => Recorded(<<"PLACE", id>>)
  /\ \A a \in Planned : a.op = "CANCEL" => Recorded(<<"PLACE", a.id>>)

\* Before the entry there is nothing but its stop.
Unentered ==
  ~Recorded(EntryPlace) =>
    /\ \A c \in Commands : Recorded(c) => c[2] = PrearmId
    /\ \A a \in Planned : a.op = "CANCEL"

Journals == BookIsPlain /\ RecordIsObserved /\ CancelsKnown /\ Unentered

--------------------------------------------------------------------------------
(* What the process may rely on at each place of an admission.             *)

\* The stop waits for its trigger no more, and never will again.
StopIsSpent == book[PrearmId].status \notin {"none", "CONDITIONAL_NEW"}

PlannedInPass ==
  \/ pc = "act"
  \/ pc = "await" /\ Command(current) \notin {PlacePrearm, EntryPlace}
  \/ Planned = {}

\* The stop's request has an answer or is in doubt once it was looked for.
LookedFor ==
  \/ pc \in {"act", "settled", "flat", "orderless", "prepare", "prearm", "confirm", "submit"}
  \/ pc = "reconcile" /\ PlacePrearm \notin todo

StopAnswered ==
  /\ LookedFor => rec[PlacePrearm].status # "SUBMITTING"
  /\ pc = "await" /\ rec[PlacePrearm].status = "SUBMITTING"
       => Command(current) = PlacePrearm
  /\ pc \in {"settled", "flat", "orderless"} => rec[PlacePrearm].status # "UNKNOWN"

\* An admission finds no stop, or one that is spent and cannot be confirmed; so
\* the stop it submits its entry under has never been cancelled.
Admitting ==
  /\ pc \in {"prepare", "prearm"} /\ Recorded(PlacePrearm) => StopIsSpent
  /\ pc = "confirm" \/ (pc = "await" /\ Command(current) = PlacePrearm)
       => (Recorded(CancelPrearm) => StopIsSpent)
  /\ pc = "submit" => ~Recorded(CancelPrearm)

Places == PlannedInPass /\ StopAnswered /\ Admitting

--------------------------------------------------------------------------------
(* What is planned, travels and works.                                     *)

\* Nothing is held and nothing can be bought any more.
Flat == position = 0 /\ ~EntryCanFill

StopsKept ==
  \A a \in Planned \cup wire : a.op = "CANCEL" /\ a.id \in StopIds => Flat

Closing(f) == book[f].status = "NEW" \/ OnWire("PLACE", f)

Closures == {a \in Planned : a.op = "PLACE" /\ a.id \in FlattenIds}

OneClosure ==
  /\ \A f, g \in FlattenIds : Closing(f) /\ Closing(g) => f = g
  /\ \A a, b \in Closures : a = b
  /\ \A a \in Closures, f \in FlattenIds : ~Closing(f)

\* The stop of the whole plan works, or the exchange has triggered or ended it.
Shielded ==
  \/ book[PrearmId].status \in {"TRIGGERED", "NEW", "FILLED", "EXPIRED", "REJECTED"}
  \/ /\ book[PrearmId].status = "CONDITIONAL_NEW"
     /\ book[PrearmId].quantity = PlanQuantity

Prearmed == position > 0 \/ EntryCanFill \/ pc = "submit" => Shielded

Protected == Journals /\ Places /\ StopsKept /\ OneClosure /\ Prearmed

ProtectionInv == RefinementInv /\ Protected

--------------------------------------------------------------------------------
(* The kinds of steps.                                                     *)

\* What a step that sends nothing does to the journals.
Noted ==
  \/ rec' = rec
  \/ \E c \in Commands : /\ Recorded(c)
                         /\ book'[c[2]].status # "none"
                         /\ rec' = Adopt(c, book'[c[2]])
  \/ \E c \in Commands : Recorded(c) /\ rec' = Doubt(c)

Sending(a) ==
  /\ Send(a)
  /\ UNCHANGED <<book, position>>
  /\ \/ pc = "act" /\ a \in Planned /\ batch' = Without(a)
     \/ pc = "prearm" /\ Command(a) = PlacePrearm /\ batch' = batch
     \/ pc = "submit" /\ a = EntryAction /\ batch' = batch

Arriving(m) ==
  /\ wire' = wire \ {m}
  /\ book' = book \/ (~Refused(m) /\ book' = Executed(m))
  /\ Noted
  /\ Planned' \subseteq Planned
  /\ pc' = "submit" => pc = "submit"
  /\ UNCHANGED <<position, sent>>

Trading == Market /\ UNCHANGED <<rec, sent, pc, todo, batch, current>>

Quiet ==
  /\ UNCHANGED <<book, wire, position, sent>>
  /\ Noted
  /\ Planned' \subseteq Planned
  /\ pc' = "submit" => pc = "submit" \/ ConfirmProtection

Kinds ==
  \/ \E a \in Actions : Sending(a)
  \/ \E m \in wire : Arriving(m)
  \/ Trading
  \/ PreparedOnly \/ Protect
  \/ Quiet

\* Whoever gives up plans nothing any more.
LEMMA GiveUpPlan == GiveUp => Planned' = {} /\ pc' = "idle"
BY DEF GiveUp, Rest, Planned, NoActions

\* What was sent is no longer planned; all else still is.
LEMMA WithoutPlan ==
  ASSUME NEW a, batch' = Without(a) PROVE Planned' = Planned \ {a}
BY DEF Without, Planned

\* What is ready is planned.
LEMMA ReadyIsPlanned == Ready \subseteq Planned
BY DEF Ready, Planned

\* The command of an admission's first request.
LEMMA PrearmCommand ==
  ASSUME NEW a \in PrearmActions PROVE a \in Actions /\ Command(a) = PlacePrearm
<1>1. a.op = "PLACE" /\ a.id = PrearmId
  BY DEF PrearmActions, Placements
<1> QED
  BY <1>1, PrearmType DEF Command, PlacePrearm

\* Every step is of one of the kinds.
LEMMA StepKinds == RefinementInv /\ [Next]_vars => Kinds
<1> SUFFICES ASSUME RefinementInv, [Next]_vars PROVE Kinds
  OBVIOUS
<1>0. Inv /\ Agreement /\ Standing /\ Control /\ book \in [Ids -> Records]
  BY InvParts DEF RefinementInv
<1>1. ASSUME UNCHANGED <<book, wire, position, sent, rec>>, Planned' \subseteq Planned,
             pc' # "submit" \/ ConfirmProtection \/ pc' = pc
      PROVE  Kinds
  BY <1>1 DEF Kinds, Quiet, Noted
<1>2. CASE RefreshAccount \/ ReuseSnapshot
  BY <1>1, <1>2 DEF RefreshAccount, ReuseSnapshot, StartCycle, Planned, history
<1>3. CASE SnapshotTooOld \/ Unreconciled \/ EndCycle \/ AbandonAdmission \/ Crash
  <2>1. GiveUp /\ UNCHANGED <<book, wire, position, sent, rec>>
    BY <1>3 DEF SnapshotTooOld, Unreconciled, EndCycle, AbandonAdmission, Crash, durable,
                history
  <2> QED
    BY <1>1, <2>1, GiveUpPlan
<1>4. CASE Reconcile
  <2>1. PICK c \in todo : QueryAnswered(c) \/ QueryFails(c) \/ QuerySkipped(c)
    BY <1>4 DEF Reconcile
  <2>2. c \in Commands /\ Recorded(c)
    BY <1>0 DEF Control, Standing, TodoRecorded
  <2>3. UNCHANGED <<book, wire, position, sent, batch, pc>>
    BY <2>1 DEF QueryAnswered, QueryFails, QuerySkipped, durable, history
  <2>4. Noted
    <3>1. CASE QueryAnswered(c)
      BY <2>2, <3>1 DEF QueryAnswered, Answerable, Noted
    <3>2. CASE QueryFails(c)
      BY <2>2, <3>2 DEF QueryFails, Noted
    <3>3. CASE QuerySkipped(c)
      BY <3>3 DEF QuerySkipped, Noted, durable
    <3> QED
      BY <2>1, <3>1, <3>2, <3>3
  <2> QED
    BY <2>3, <2>4 DEF Kinds, Quiet, Planned
<1>5. CASE NothingOwned \/ ActionsDone
  BY <1>1, <1>5 DEF NothingOwned, ActionsDone, Continue, Planned, durable, history
<1>6. CASE \E a \in Ready : ExecuteAction(a)
  <2>1. PICK a \in Ready : ExecuteAction(a)
    BY <1>6
  <2>2. a \in Actions /\ a \in Planned
    BY <1>0, ReadyType, ReadyIsPlanned
  <2> QED
    BY <2>1, <2>2 DEF ExecuteAction, Sending, Kinds
<1>7. CASE \E a \in Ready : ReuseRecord(a)
  <2>1. PICK a \in Ready : ReuseRecord(a)
    BY <1>7
  <2>2. /\ UNCHANGED <<book, wire, position, sent, rec>>
        /\ GiveUp \/ (batch' = Without(a) /\ pc' = pc)
    BY <2>1 DEF ReuseRecord, durable, history
  <2> QED
    BY <1>1, <2>2, GiveUpPlan, WithoutPlan
<1>8. /\ Command(current) \in Commands /\ Command(current)[2] = current.id
      /\ current.id \in Ids /\ current \in Actions
      /\ pc = "await" => Recorded(Command(current))
  BY <1>0, CommandFacts DEF Control, Inv, AwaitedIsSubmitting, Recorded
<1>9. CASE Respond
  <2>1. /\ current \in wire /\ wire' = wire \ {current} /\ pc = "await"
        /\ ~Refused(current) /\ book' = Executed(current)
        /\ rec' = Adopt(Command(current), book'[current.id])
        /\ Resume /\ UNCHANGED <<position, sent>>
    BY <1>9 DEF Respond, history
  <2>2. book'[current.id].status # "none"
    BY <1>0, <1>8, <2>1, InvParts, ExecutedGrows
  <2>3. Noted
    BY <1>8, <2>1, <2>2 DEF Noted
  <2>4. Planned' \subseteq Planned /\ pc' # "submit"
    BY <2>1, GiveUpPlan DEF Resume, Planned
  <2> QED
    BY <2>1, <2>3, <2>4 DEF Kinds, Arriving
<1>10. CASE RespondError
  <2>1. /\ current \in wire /\ wire' = wire \ {current} /\ pc = "await"
        /\ rec' = Doubt(Command(current)) /\ GiveUp
        /\ UNCHANGED <<book, position, sent>>
    BY <1>10 DEF RespondError, history
  <2>2. Noted
    BY <1>8, <2>1 DEF Noted
  <2> QED
    BY <2>1, <2>2, GiveUpPlan DEF Kinds, Arriving
<1>11. CASE Timeout
  <2>1. /\ pc = "await" /\ rec' = Doubt(Command(current)) /\ GiveUp
        /\ UNCHANGED <<book, wire, position, sent>>
    BY <1>11 DEF Timeout, history
  <2>2. Noted
    BY <1>8, <2>1 DEF Noted
  <2> QED
    BY <2>1, <2>2, GiveUpPlan DEF Kinds, Quiet
<1>12. CASE BeginAdmission \/ SymbolIsFlat \/ SymbolIsOrderless \/ Prepare
            \/ ConfirmProtection \/ \E a \in PrearmActions : PrearmRecorded(a)
  BY <1>1, <1>12
  DEF BeginAdmission, SymbolIsFlat, SymbolIsOrderless, Prepare, ConfirmProtection,
      PrearmRecorded, Planned, durable, history
<1>13. CASE \E a \in PrearmActions : Prearm(a)
  BY <1>13, PrearmCommand DEF Prearm, Sending, Kinds
<1>14. CASE SubmitEntry
  BY <1>14, ConstantTypes DEF SubmitEntry, Sending, Kinds
<1>15. CASE Exchange
  <2>1. ASSUME NEW m \in wire, LateRequest(m) \/ LostRequest(m) PROVE Arriving(m)
    BY <2>1 DEF LateRequest, LostRequest, Arriving, Noted, Planned, durable, volatile, history
  <2>2. ASSUME Market, UNCHANGED <<durable, volatile, flags, history, faults, crashes>>
        PROVE  Trading
    BY <2>2 DEF Trading, durable, volatile, history
  <2> QED
    BY <1>15, <2>1, <2>2 DEF Exchange, Kinds
<1>16. CASE NewDay \/ (\E e \in Events : Happens(e)) \/ UNCHANGED vars
  BY <1>1, <1>16 DEF NewDay, Happens, Planned, durable, volatile, history, vars
<1>17. CASE PreparedOnly \/ Protect
  BY <1>17 DEF Kinds
<1> QED
  BY <1>2, <1>3, <1>4, <1>5, <1>6, <1>7, <1>9, <1>10, <1>11, <1>12, <1>13, <1>14, <1>15,
     <1>16, <1>17
  DEF Next, Cycle, Admission

--------------------------------------------------------------------------------
(* The journals.                                                           *)

\* What a step notes puts nothing on record, and doubts nothing away.
LEMMA NotedKeeps ==
  ASSUME Inv, RecordIsObserved, BookGrows, Noted
  PROVE  RecordsKept /\ RecordIsObserved'
<1>1. CASE rec' = rec
  <2>1. RecordIsObserved'
    BY <1>1, CommandIds DEF RecordIsObserved, BookGrows
  <2> QED
    BY <1>1, <2>1, RecordsUntouched
<1>2. ASSUME NEW c \in Commands, Recorded(c), book'[c[2]].status # "none",
             rec' = Adopt(c, book'[c[2]])
      PROVE  RecordsKept /\ RecordIsObserved'
  <2>1. RecordsKept
    BY <1>2, AdoptRecords
  <2>2. \A d \in Commands : \/ rec'[d] = rec[d]
                            \/ d[2] = c[2]
    BY <1>2 DEF Adopt
  <2>3. RecordIsObserved'
    BY <1>2, <2>2, CommandIds DEF RecordIsObserved, BookGrows
  <2> QED
    BY <2>1, <2>3
<1>3. ASSUME NEW c \in Commands, Recorded(c), rec' = Doubt(c)
      PROVE  RecordsKept /\ RecordIsObserved'
  <2>1. RecordsKept
    BY <1>3, DoubtRecords
  <2>2. /\ rec'[c].status = "UNKNOWN"
        /\ \A d \in Commands \ {c} : rec'[d] = rec[d]
    BY <1>3, InvParts DEF Doubt, Records
  <2>3. RecordIsObserved'
    BY <2>2, CommandIds DEF RecordIsObserved, BookGrows
  <2> QED
    BY <2>1, <2>3
<1> QED
  BY <1>1, <1>2, <1>3 DEF Noted

\* A request leaves statuses of the exchange's own.
LEMMA ArrivingBook ==
  ASSUME Inv, BookIsPlain, NEW m \in wire, Arriving(m)
  PROVE  BookIsPlain' /\ BookGrows
<1>1. /\ m \in Actions /\ m.id \in Ids /\ m.op \in {"PLACE", "CANCEL"}
      /\ book \in [Ids -> Records] /\ wire' \subseteq wire
  BY InvParts, CommandFacts DEF Arriving
<1>2. CASE book' = book
  <2>1. BookGrows
    BY <1>1, <1>2 DEF BookGrows, Records, Quantities
  <2> QED
    BY <1>2, <2>1 DEF BookIsPlain
<1>3. CASE ~Refused(m) /\ book' = Executed(m)
  <2>1. BookGrows
    BY <1>1, <1>3, InvParts, ExecutedGrows DEF Arriving
  <2>2. CASE m.op = "PLACE"
    <3>1. book' = [book EXCEPT ![m.id] = Opened(m)]
      BY <1>3, <2>2 DEF Executed
    <3>2. Opened(m).status \in {"NEW", "CONDITIONAL_NEW"} /\ Opened(m).filled = 0
      BY DEF Opened
    <3> QED
      BY <1>1, <2>1, <3>1, <3>2, IdFacts DEF BookIsPlain
  <2>3. CASE m.op = "CANCEL"
    <3>1. book' = [book EXCEPT ![m.id].status = "CANCELED"]
      BY <1>3, <2>3 DEF Executed
    <3>2. \A id \in Ids : book'[id] = book[id] \/ book'[id].status = "CANCELED"
      BY <1>1, <3>1 DEF Records
    <3> QED
      BY <2>1, <3>2, IdFacts DEF BookIsPlain
  <2> QED
    BY <1>1, <2>2, <2>3
<1> QED
  BY <1>2, <1>3 DEF Arriving

\* The market leaves statuses of the exchange's own; what it works on goes on in
\* the order in which orders live.
LEMMA MarketBook ==
  ASSUME Inv, Market
  PROVE  \A id \in Ids :
           \/ book'[id] = book[id]
           \/ /\ book[id].status = "NEW"
              /\ book'[id].status \in {"NEW", "FILLED", "EXPIRED"}
           \/ /\ id \in StopIds
              /\ \/ book[id].status = "CONDITIONAL_NEW" /\ book'[id].status = "TRIGGERED"
                 \/ book[id].status = "TRIGGERED" /\ book'[id].status = "NEW"
           \/ book[id].status = "CONDITIONAL_NEW" /\ book'[id].status = "EXPIRED"
<1>1. book \in [Ids -> Records]
  BY InvParts
<1>2. CASE EntryFills \/ \E x \in ExitIds : ExitFills(x)
  BY <1>1, <1>2, IdFacts DEF EntryFills, ExitFills, Filled
<1>3. CASE \E x \in ExitIds : ExcessExpires(x)
  BY <1>1, <1>3, IdFacts DEF ExcessExpires, Records
<1>4. CASE \E s \in StopIds : StopTriggers(s) \/ ChildAppears(s)
  BY <1>1, <1>4, IdFacts DEF StopTriggers, ChildAppears, Records
<1>5. CASE \E id \in Ids : EndsByItself(id)
  BY <1>1, <1>5 DEF EndsByItself, Active, Records
<1> QED
  BY <1>2, <1>3, <1>4, <1>5 DEF Market

\* An order's quantity is what it was opened with.
LEMMA MarketQuantities ==
  ASSUME Inv, Market
  PROVE  \A id \in Ids : book'[id].quantity = book[id].quantity
<1>1. book \in [Ids -> Records]
  BY InvParts
<1>2. CASE EntryFills \/ \E x \in ExitIds : ExitFills(x)
  BY <1>1, <1>2, IdFacts DEF EntryFills, ExitFills, Filled
<1>3. CASE \E x \in ExitIds : ExcessExpires(x)
  BY <1>1, <1>3 DEF ExcessExpires, Records
<1>4. CASE \E s \in StopIds : StopTriggers(s) \/ ChildAppears(s)
  BY <1>1, <1>4 DEF StopTriggers, ChildAppears, Records
<1>5. CASE \E id \in Ids : EndsByItself(id)
  BY <1>1, <1>5 DEF EndsByItself, Records
<1> QED
  BY <1>2, <1>3, <1>4, <1>5 DEF Market

\* What the journals know of an order was put on record.
LEMMA EvidenceIsRecorded ==
  ASSUME NEW id \in Ids, Evidence[id].status # "none"
  PROVE  Recorded(<<"PLACE", id>>)
BY DEF Evidence, Recorded

\* The cancellations of a set of orders name those orders.
LEMMA CancelsName ==
  ASSUME NEW ids, NEW a \in Cancels(ids) PROVE a.op = "CANCEL" /\ a.id \in ids
BY DEF Cancels

\* Only what was placed is cancelled.
LEMMA DecisionCancelsRecorded ==
  ASSUME NEW exited, NEW owned, NEW breach, NEW invalidated, NEW expired, NEW holdOver,
         Recorded(EntryPlace),
         NEW a, LET b == ProtectiveActions(Evidence, exited, owned, breach, invalidated,
                                           expired, holdOver)
                IN  a \in b.first \cup b.next,
         a.op = "CANCEL"
  PROVE  /\ Recorded(<<"PLACE", a.id>>)
         /\ a.id \in StopIds => owned = 0 /\ ~EntryPending(Evidence)
<1> DEFINE ev == Evidence
           Known(b) == \A c \in b.first \cup b.next : c.op = "CANCEL" =>
                         Recorded(<<"PLACE", c.id>>) /\ c.id \notin StopIds
<1>1. Known(NoActions)
  BY DEF NoActions
<1>2. \A c \in Cancels({EntryId}) : Recorded(<<"PLACE", c.id>>) /\ c.id \notin StopIds
  BY CancelsName DEF EntryPlace, EntryId, StopIds
<1>3. \A c \in Cancellation(ev) : Recorded(<<"PLACE", c.id>>) /\ c.id \notin StopIds
  BY <1>2 DEF Cancellation
<1>4. Known([NoActions EXCEPT !.first = Cancellation(ev)])
  BY <1>3 DEF NoActions
<1>5. ASSUME NEW id, NEW total, NEW already, NEW c \in Placements(id, total, already)
      PROVE  c.op = "PLACE"
  BY <1>5 DEF Placements
<1>6. Known(Closure(ev, exited, owned)) /\ Known(Rearm(ev, owned))
  BY <1>3, <1>5 DEF Closure, Rearm
<1>7. ASSUME NEW role
      PROVE  Known([NoActions EXCEPT !.first = Cancels(LiveTargets(ev, role))])
  <2> SUFFICES ASSUME NEW c \in Cancels(LiveTargets(ev, role))
               PROVE  Recorded(<<"PLACE", c.id>>) /\ c.id \notin StopIds
    BY DEF NoActions
  <2>1. c.id \in TargetIds /\ ev[c.id].status \in Active
    BY CancelsName DEF LiveTargets
  <2>2. c.id \notin StopIds
    BY <2>1 DEF TargetIds, TargetRoles, StopIds
  <2> QED
    BY <2>1, <2>2, EvidenceIsRecorded, IdFacts DEF Active
<1>8. Known([first |-> PlaceTarget(ev, exited, owned, "TP1"),
             next  |-> IF Staged THEN PlaceTarget(ev, exited, owned, "TP2") ELSE {}])
  BY <1>5 DEF PlaceTarget
<1>9. Known(Targets(ev, exited, owned))
  BY <1>7, <1>8 DEF Targets
<1>10. ASSUME NEW leave PROVE Known(WhenOwned(ev, exited, owned, breach, leave))
  <2> HIDE DEF Known
  <2> QED
    BY <1>1, <1>4, <1>6, <1>9 DEF WhenOwned
<1>11. CASE owned # 0
  BY <1>10, <1>11 DEF ProtectiveActions
<1>12. CASE owned = 0 /\ EntryPending(ev)
  <2>1. Known(WhenFlat(ev, breach \/ invalidated \/ expired))
    BY <1>2, <1>12 DEF WhenFlat, NoActions
  <2> QED
    BY <1>12, <2>1 DEF ProtectiveActions
<1>13. CASE owned = 0 /\ ~EntryPending(ev)
  <2>1. a \in Cancels(OpenExits(ev))
    BY <1>13 DEF ProtectiveActions, WhenFlat, NoActions
  <2>2. a.id \in ExitIds /\ ev[a.id].status # "none"
    BY <2>1, CancelsName DEF OpenExits
  <2> QED
    BY <1>13, <2>2, EvidenceIsRecorded, IdFacts
<1> QED
  BY <1>11, <1>12, <1>13


\* What the decisions plan, and what the journals say of it.
LEMMA DecisionPlans ==
  ASSUME RefinementInv, PreparedOnly \/ Protect
  PROVE  /\ UNCHANGED <<book, wire, position, rec, sent>> /\ pc' = "act"
         /\ \A a \in Planned' : a.op = "CANCEL" => Recorded(<<"PLACE", a.id>>)
         /\ ~Recorded(EntryPlace) => \A a \in Planned' : a.op = "CANCEL"
         /\ \A a \in Planned' : a.op = "CANCEL" /\ a.id \in StopIds => Flat
<1>0. Inv /\ Agreement
  BY DEF RefinementInv
<1>1. CASE PreparedOnly
  <2>1. /\ UNCHANGED <<book, wire, position, rec, sent>> /\ pc' = "act"
        /\ ~Recorded(EntryPlace)
        /\ Planned' \subseteq Cancels(OpenExits(Evidence))
    BY <1>1 DEF PreparedOnly, Planned, NoActions, history
  <2>2. \A a \in Planned' : a.op = "CANCEL" /\ Recorded(<<"PLACE", a.id>>)
    <3> SUFFICES ASSUME NEW a \in Cancels(OpenExits(Evidence))
                 PROVE  a.op = "CANCEL" /\ Recorded(<<"PLACE", a.id>>)
      BY <2>1
    <3>1. a.op = "CANCEL" /\ a.id \in ExitIds /\ Evidence[a.id].status # "none"
      BY CancelsName DEF OpenExits
    <3> QED
      BY <3>1, EvidenceIsRecorded, IdFacts
  <2>3. Flat
    BY <1>0, <2>1, UnsentEntry DEF Flat
  <2> QED
    BY <2>1, <2>2, <2>3
<1>2. CASE Protect
  <2>1. /\ UNCHANGED <<book, wire, position, rec, sent>> /\ pc' = "act"
        /\ Recorded(EntryPlace)
    BY <1>2 DEF Protect, history
  <2>2. PICK exited \in Quantities, closedBelow \in BOOLEAN :
          LET owned   == Evidence[EntryId].filled - exited
              invalid == Staged /\ snap.position # 0 /\ (latched \/ closedBelow)
          IN  /\ exited = ExitFilled(Evidence)
              /\ batch' = ProtectiveActions(Evidence, exited, owned, snap.daily \/ risk,
                            invalid, "expired" \in flags, "holdOver" \in flags)
    BY <1>2 DEF Protect
  <2> DEFINE owned  == Evidence[EntryId].filled - exited
             chosen == ProtectiveActions(Evidence, exited, owned, snap.daily \/ risk,
                         Staged /\ snap.position # 0 /\ (latched \/ closedBelow),
                         "expired" \in flags, "holdOver" \in flags)
  <2>3. \A a \in Planned' : a.op = "CANCEL" =>
          /\ Recorded(<<"PLACE", a.id>>)
          /\ a.id \in StopIds => owned = 0 /\ ~EntryPending(Evidence)
    <3>1. Planned' = chosen.first \cup chosen.next
      BY <2>2 DEF Planned
    <3>2. ASSUME NEW a \in chosen.first \cup chosen.next, a.op = "CANCEL"
          PROVE  /\ Recorded(<<"PLACE", a.id>>)
                 /\ a.id \in StopIds => owned = 0 /\ ~EntryPending(Evidence)
      BY <2>1, <3>2, DecisionCancelsRecorded
    <3> HIDE DEF owned, chosen
    <3> QED
      BY <3>1, <3>2
  <2>4. Evidence[EntryId].filled \in Quantities
    <3>1. <<"PLACE", EntryId>> \in Commands /\ Evidence[EntryId] = rec[<<"PLACE", EntryId>>]
      BY IdFacts DEF Commands, Evidence
    <3> QED
      BY <1>0, <3>1, InvParts DEF Records
  <2>5. ASSUME owned = 0, ~EntryPending(Evidence) PROVE Flat
    <3>1. Evidence[EntryId].filled = ExitFilled(Evidence)
      BY <2>2, <2>4, <2>5 DEF Quantities
    <3> QED
      BY <1>0, <2>1, <2>5, <3>1, ClosedIsFlat DEF Flat
  <2> QED
    BY <2>1, <2>3, <2>5
<1> QED
  BY <1>1, <1>2

\* The journals and the book stay what they are, whatever kind of step is taken.
LEMMA JournalsKeep ==
  ASSUME RefinementInv, Journals, Kinds
  PROVE  Journals' /\ BookGrows
<1>0. Inv /\ Agreement /\ Standing /\ Control /\ BookIsPlain /\ RecordIsObserved
      /\ CancelsKnown /\ Unentered
  BY InvParts DEF RefinementInv, Journals
<1>1. ASSUME RecordsKept, Planned' \subseteq Planned
      PROVE  CancelsKnown' /\ Unentered'
  <2>1. \A id \in Ids : /\ <<"PLACE", id>> \in Commands /\ <<"CANCEL", id>> \in Commands
    BY DEF Commands
  <2>2. EntryPlace \in Commands /\ \A a \in Planned : a.id \in Ids
    BY <1>0, IdFacts, CommandFacts DEF EntryPlace, Commands, Planned, Control, Batches
  <2>3. CancelsKnown'
    BY <1>0, <1>1, <2>1, <2>2 DEF CancelsKnown, RecordsKept
  <2>4. Unentered'
    BY <1>0, <1>1, <2>2 DEF Unentered, RecordsKept
  <2> QED
    BY <2>3, <2>4
<1>2. ASSUME UNCHANGED book
      PROVE  BookIsPlain' /\ BookGrows
  BY <1>0, <1>2, InvParts DEF BookIsPlain, BookGrows, Records, Quantities
<1>3. CASE Quiet
  BY <1>0, <1>1, <1>2, <1>3, NotedKeeps DEF Quiet, Journals
<1>4. CASE \E m \in wire : Arriving(m)
  <2>1. PICK m \in wire : Arriving(m)
    BY <1>4
  <2>2. BookIsPlain' /\ BookGrows
    BY <1>0, <2>1, ArrivingBook
  <2>3. RecordsKept /\ RecordIsObserved'
    BY <1>0, <2>1, <2>2, NotedKeeps DEF Arriving
  <2> QED
    BY <1>1, <2>1, <2>2, <2>3 DEF Arriving, Journals
<1>5. CASE Trading
  <2>1. BookGrows
    BY <1>0, <1>5, InvParts, MarketGrows DEF Trading
  <2>2. BookIsPlain'
    BY <1>0, <1>5, MarketBook, IdFacts DEF Trading, BookIsPlain
  <2>3. RecordsKept /\ RecordIsObserved'
    BY <1>0, <1>5, <2>1, NotedKeeps DEF Trading, Noted
  <2> QED
    BY <1>1, <1>5, <2>1, <2>2, <2>3 DEF Trading, Journals, Planned
<1>6. CASE PreparedOnly \/ Protect
  <2>1. /\ UNCHANGED <<book, rec>>
        /\ \A a \in Planned' : a.op = "CANCEL" => Recorded(<<"PLACE", a.id>>)
        /\ ~Recorded(EntryPlace) => \A a \in Planned' : a.op = "CANCEL"
    BY <1>6, DecisionPlans
  <2>2. BookIsPlain' /\ BookGrows
    BY <1>2, <2>1
  <2>3. RecordIsObserved'
    BY <1>0, <2>1, <2>2, NotedKeeps DEF Noted
  <2>4. CancelsKnown'
    BY <1>0, <2>1 DEF CancelsKnown, Recorded
  <2>5. Unentered'
    BY <1>0, <2>1 DEF Unentered, Recorded
  <2> QED
    BY <2>2, <2>3, <2>4, <2>5 DEF Journals
<1>7. CASE \E a \in Actions : Sending(a)
  <2>1. PICK a \in Actions : Sending(a)
    BY <1>7
  <2>2. /\ Command(a) \in Commands /\ ~Recorded(Command(a)) /\ UNCHANGED book
        /\ rec \in [Commands -> Records]
        /\ rec' = [rec EXCEPT ![Command(a)] =
                     [status |-> "SUBMITTING", filled |-> 0, quantity |-> a.quantity]]
    BY <1>0, <2>1, CommandFacts, InvParts DEF Sending, Send
  <2>3. /\ \A c \in Commands \ {Command(a)} : rec'[c] = rec[c]
        /\ rec'[Command(a)].status = "SUBMITTING"
        /\ \A c \in Commands : Recorded(c)' <=> Recorded(c) \/ c = Command(a)
    BY <2>2 DEF Recorded
  <2>4. BookIsPlain' /\ BookGrows
    BY <1>2, <2>2
  <2>5. RecordIsObserved'
    BY <1>0, <2>2, <2>3, CommandIds DEF RecordIsObserved
  <2>6. Planned' \subseteq Planned
    BY <2>1, WithoutPlan DEF Sending, Planned
  <2>7. /\ \A id \in Ids : <<"PLACE", id>> \in Commands /\ <<"CANCEL", id>> \in Commands
        /\ EntryPlace \in Commands /\ \A b \in Planned : b.id \in Ids
    BY <1>0, IdFacts, CommandFacts DEF EntryPlace, Commands, Planned, Control, Batches
  <2>8. a.op = "CANCEL" => Recorded(<<"PLACE", a.id>>)
    BY <1>0, <2>1 DEF Sending, CancelsKnown, Command, PlacePrearm, EntryAction
  <2>9. CancelsKnown'
    <3>1. ASSUME NEW id \in Ids, Recorded(<<"CANCEL", id>>)'
          PROVE  Recorded(<<"PLACE", id>>)'
      <4>1. CASE Recorded(<<"CANCEL", id>>)
        BY <1>0, <2>3, <2>7, <4>1 DEF CancelsKnown
      <4>2. CASE ~Recorded(<<"CANCEL", id>>)
        <5>1. a.op = "CANCEL" /\ a.id = id
          BY <2>3, <2>7, <3>1, <4>2 DEF Command
        <5> QED
          BY <2>3, <2>7, <2>8, <5>1
      <4> QED
        BY <4>1, <4>2
    <3>2. \A b \in Planned' : b.op = "CANCEL" => Recorded(<<"PLACE", b.id>>)'
      BY <1>0, <2>3, <2>6, <2>7 DEF CancelsKnown
    <3> QED
      BY <3>1, <3>2 DEF CancelsKnown
  <2>10. Unentered'
    <3> SUFFICES ASSUME ~Recorded(EntryPlace)'
                 PROVE  /\ \A c \in Commands : Recorded(c)' => c[2] = PrearmId
                        /\ \A b \in Planned' : b.op = "CANCEL"
      BY DEF Unentered
    <3>1. ~Recorded(EntryPlace) /\ Command(a) # EntryPlace
      BY <2>3, <2>7
    <3>2. a # EntryAction
      BY <3>1 DEF Command, EntryAction, EntryPlace
    <3>3. CASE Command(a) = PlacePrearm
      BY <1>0, <2>3, <2>6, <3>1, <3>3 DEF Unentered, PlacePrearm
    <3>4. CASE a \in Planned
      <4>1. a.op = "CANCEL" /\ Recorded(<<"PLACE", a.id>>) /\ <<"PLACE", a.id>> \in Commands
        BY <1>0, <2>7, <2>8, <3>1, <3>4 DEF Unentered
      <4>2. a.id = PrearmId
        BY <1>0, <3>1, <4>1 DEF Unentered
      <4> QED
        BY <1>0, <2>3, <2>6, <3>1, <4>2 DEF Unentered, Command
    <3> QED
      BY <2>1, <3>2, <3>3, <3>4 DEF Sending
  <2> QED
    BY <2>4, <2>5, <2>9, <2>10 DEF Journals
<1> QED
  BY <1>3, <1>4, <1>5, <1>6, <1>7 DEF Kinds


--------------------------------------------------------------------------------
(* Sums of what is outstanding.                                            *)

SolvesOutstanding(sum, ev, S) ==
  sum = [s \in SUBSET S |-> IF s = {} THEN 0
                            ELSE Outstanding(ev, Pick(s)) + sum[s \ {Pick(s)}]]

\* A sum of outstanding quantities is the number of lot steps outstanding.
LEMMA OutstandingIsUnits ==
  ASSUME NEW ev, NEW S, IsFiniteSet(S), \A x \in S : Outstanding(ev, x) \in Nat
  PROVE  LET f == [x \in S |-> Outstanding(ev, x)]
         IN  /\ OutstandingOf(ev, S) = Cardinality(Units(f, S))
             /\ IsFiniteSet(Units(f, S))
             /\ Cardinality(Units(f, S)) \in Nat
<1> DEFINE f == [x \in S |-> Outstanding(ev, x)]
           units == [s \in SUBSET S |-> Cardinality(Units(f, s))]
           sum == CHOOSE g : g = [s \in SUBSET S |->
                                    IF s = {} THEN 0
                                    ELSE Outstanding(ev, CHOOSE x \in s : TRUE)
                                           + g[s \ {CHOOSE x \in s : TRUE}]]
<1>1. \A x \in S : f[x] \in Nat
  OBVIOUS
<1>2. SolvesSum(units, f, S)
  BY <1>1, UnitsSolve
<1>3. ASSUME NEW g
      PROVE  SolvesSum(g, f, S) <=> SolvesOutstanding(g, ev, S)
  <2>1. \A s \in SUBSET S : s # {} => f[Pick(s)] = Outstanding(ev, Pick(s))
    BY PickFacts
  <2>2. [s \in SUBSET S |-> IF s = {} THEN 0 ELSE f[Pick(s)] + g[s \ {Pick(s)}]]
          = [s \in SUBSET S |->
               IF s = {} THEN 0 ELSE Outstanding(ev, Pick(s)) + g[s \ {Pick(s)}]]
    BY <2>1
  <2> QED
    BY <2>2 DEF SolvesSum, SolvesOutstanding
<1>4. SolvesOutstanding(units, ev, S)
  BY <1>2, <1>3
<1>5. SolvesOutstanding(sum, ev, S)
  BY <1>4, Zenon DEF SolvesOutstanding, Pick
<1>6. sum[S] = units[S]
  BY <1>1, <1>2, <1>3, <1>5, SolutionsAgree
<1>7. OutstandingOf(ev, S) = sum[S]
  BY DEF OutstandingOf, MapThenSumSet, MapThenFoldSet
<1>8. IsFiniteSet(Units(f, S))
  BY <1>1, UnitsFinite
<1> QED
  BY <1>6, <1>7, <1>8, FS_CardinalityType

\* What one order has outstanding is all there is, if there is no other ...
LEMMA OutstandingAlone ==
  ASSUME NEW ev, NEW x, Outstanding(ev, x) \in Nat
  PROVE  OutstandingOf(ev, {x}) = Outstanding(ev, x)
<1> DEFINE f == [y \in {x} |-> Outstanding(ev, y)]
<1>1. IsFiniteSet({x})
  BY FS_Singleton
<1>2. OutstandingOf(ev, {x}) = Cardinality(Units(f, {x}))
  BY <1>1, OutstandingIsUnits
<1>3. f[x] = Outstanding(ev, x) /\ f[x] \in Nat
  OBVIOUS
<1>4. Cardinality(Units(f, {x})) = f[x]
  <2> HIDE DEF f
  <2> QED
    BY <1>3, UnitsOfOne
<1> QED
  BY <1>2, <1>3, <1>4

\* ... and a part of it if there are others.
LEMMA OutstandingAmong ==
  ASSUME NEW ev, NEW S, IsFiniteSet(S), \A y \in S : Outstanding(ev, y) \in Nat, NEW x \in S
  PROVE  OutstandingOf(ev, S) >= Outstanding(ev, x)
<1> DEFINE f == [y \in S |-> Outstanding(ev, y)]
<1>1. /\ OutstandingOf(ev, S) = Cardinality(Units(f, S))
      /\ IsFiniteSet(Units(f, S)) /\ Cardinality(Units(f, S)) \in Nat
  BY OutstandingIsUnits
<1>2. f[x] = Outstanding(ev, x) /\ f[x] \in Nat
  OBVIOUS
<1>3. Units(f, {x}) \subseteq Units(f, S)
  BY DEF Units
<1>4. Cardinality(Units(f, {x})) = f[x]
  <2> HIDE DEF f
  <2> QED
    BY <1>2, UnitsOfOne
<1>5. Cardinality(Units(f, {x})) <= Cardinality(Units(f, S))
  <2> HIDE DEF f
  <2> QED
    BY <1>1, <1>3, FS_Subset
<1> QED
  BY <1>1, <1>2, <1>4, <1>5

\* get_conditional_order showed a stop that works and covers the whole plan.
LEMMA ConfirmedIsWhole ==
  ASSUME Inv, Journals, ConfirmProtection
  PROVE  book[PrearmId].status = "CONDITIONAL_NEW" /\ book[PrearmId].quantity = PlanQuantity
<1> DEFINE ev == [id \in Ids |-> IF id = PrearmId THEN book[id] ELSE NoRecord]
<1>1. book \in [Ids -> Records] /\ PrearmId \in Ids /\ PrearmId \in StopIds
      /\ PlanQuantity \in Nat \ {0}
  BY InvParts, IdFacts, PlanQuantityAssumption
<1>2. EntryIsProtected(ev)
  BY DEF ConfirmProtection
<1>3. LiveStops(ev) \subseteq {PrearmId}
  BY IdFacts DEF LiveStops, NoRecord
<1>4. StopCoverage(ev) >= PlanQuantity
  BY <1>2 DEF EntryIsProtected
<1>5. LiveStops(ev) # {}
  BY <1>1, <1>4, NothingOutstanding DEF StopCoverage
<1>6. LiveStops(ev) = {PrearmId}
  BY <1>3, <1>5
<1>7. book[PrearmId].status = "CONDITIONAL_NEW"
  BY <1>1, <1>6 DEF LiveStops
<1>8. book[PrearmId].filled = 0 /\ book[PrearmId].quantity \in Quantities
  BY <1>1, <1>7 DEF Journals, BookIsPlain, Records
<1>9. Outstanding(ev, PrearmId) = book[PrearmId].quantity
  BY <1>1, <1>8 DEF Outstanding, Quantities
<1>10. StopCoverage(ev) = book[PrearmId].quantity
  <2> HIDE DEF ev
  <2>1. Outstanding(ev, PrearmId) \in Nat
    BY <1>1, <1>8, <1>9 DEF Quantities
  <2> QED
    BY <1>6, <1>9, <2>1, OutstandingAlone DEF StopCoverage
<1> QED
  BY <1>1, <1>4, <1>7, <1>8, <1>10 DEF Quantities


--------------------------------------------------------------------------------
(* The places.                                                             *)

\* The stop of an admission is an order, and its commands are commands.
LEMMA PrearmFacts ==
  /\ PrearmId \in Ids /\ PrearmId \in StopIds /\ PrearmId # EntryId
  /\ PlacePrearm \in Commands /\ CancelPrearm \in Commands
  /\ EntryPlace \in Commands
  /\ PlacePrearm # EntryPlace /\ PlacePrearm # CancelPrearm
  /\ PlacePrearm[2] = PrearmId
<1>1. PrearmId # EntryId
  BY DEF PrearmId, EntryId
<1> QED
  BY <1>1, IdFacts DEF PlacePrearm, CancelPrearm, EntryPlace, Commands

\* Nothing is relied on where the process rests.
LEMMA IdlePlaces == GiveUp => Places'
BY GiveUpPlan
DEF Places, PlannedInPass, StopAnswered, LookedFor, Admitting

\* What happens beside the process leaves its place.
LEMMA PlacesStay ==
  ASSUME Places, BookGrows, UNCHANGED <<rec, pc, todo, current>>, Planned' \subseteq Planned
  PROVE  Places'
<1>1. StopIsSpent => StopIsSpent'
  BY PrearmFacts DEF StopIsSpent, BookGrows
<1> QED
  BY <1>1 DEF Places, PlannedInPass, StopAnswered, LookedFor, Admitting, Recorded

\* An answer about any order leaves the stop's record as it was, or as the
\* exchange has it.
LEMMA AdoptStop ==
  ASSUME BookIsPlain', NEW c \in Commands, rec' = Adopt(c, book'[c[2]])
  PROVE  /\ \/ rec'[PlacePrearm] = rec[PlacePrearm]
            \/ rec'[PlacePrearm].status \notin {"SUBMITTING", "UNKNOWN"}
         /\ c = PlacePrearm => rec'[PlacePrearm].status \notin {"SUBMITTING", "UNKNOWN"}
<1>1. book'[c[2]].status \notin {"SUBMITTING", "UNKNOWN"}
  BY CommandIds DEF BookIsPlain
<1>2. rec'[PlacePrearm] = rec[PlacePrearm] \/ rec'[PlacePrearm] = book'[c[2]]
  BY PrearmFacts DEF Adopt
<1>3. c = PlacePrearm => rec'[PlacePrearm] = book'[c[2]]
  BY PrearmFacts DEF Adopt
<1> QED
  BY <1>1, <1>2, <1>3

\* Queries, decisions and the end of a pass.
LEMMA CyclePlaces ==
  ASSUME RefinementInv, Journals, Places, Journals', BookGrows
  PROVE  /\ RefreshAccount \/ ReuseSnapshot => Places'
         /\ Reconcile => Places'
         /\ NothingOwned \/ ActionsDone => Places'
         /\ PreparedOnly \/ Protect => Places'
<1>0. Inv /\ Standing /\ Control /\ rec \in [Commands -> Records]
      /\ PlannedInPass /\ StopAnswered /\ BookIsPlain'
  BY InvParts DEF RefinementInv, Places, Journals
<1>1. ASSUME RefreshAccount \/ ReuseSnapshot PROVE Places'
  <2>1. /\ pc = "idle" /\ pc' = "reconcile" /\ todo' = Unfinished
        /\ UNCHANGED <<rec, batch>>
    BY <1>1 DEF RefreshAccount, ReuseSnapshot, StartCycle
  <2>2. PlannedInPass'
    BY <1>0, <2>1 DEF PlannedInPass, Planned
  <2>3. StopAnswered'
    BY <2>1, PrearmFacts DEF StopAnswered, LookedFor, Unfinished, Terminal
  <2> QED
    BY <2>1, <2>2, <2>3 DEF Places, Admitting
<1>2. ASSUME Reconcile PROVE Places'
  <2>1. PICK c \in todo : QueryAnswered(c) \/ QueryFails(c) \/ QuerySkipped(c)
    BY <1>2 DEF Reconcile
  <2>2. /\ UNCHANGED <<book, batch, pc, current>> /\ c \in Commands
        /\ todo' = todo \ {c} /\ pc = "reconcile"
    BY <1>0, <2>1
    DEF QueryAnswered, QueryFails, QuerySkipped, NextQuery, Control
  <2>3. /\ rec'[PlacePrearm] = rec[PlacePrearm] \/ rec'[PlacePrearm].status # "SUBMITTING"
        /\ c = PlacePrearm => rec'[PlacePrearm].status # "SUBMITTING"
    <3>1. CASE QueryAnswered(c)
      <4>1. rec' = Adopt(c, book'[c[2]])
        BY <2>2, <3>1 DEF QueryAnswered
      <4> QED
        BY <1>0, <2>2, <4>1, AdoptStop
    <3>2. CASE QueryFails(c)
      BY <1>0, <2>2, <3>2, PrearmFacts DEF QueryFails, Doubt, Records
    <3>3. CASE QuerySkipped(c)
      BY <3>3 DEF QuerySkipped, durable, Terminal
    <3> QED
      BY <2>1, <3>1, <3>2, <3>3
  <2>4. PlannedInPass'
    BY <1>0, <2>2 DEF PlannedInPass, Planned
  <2>5. StopAnswered'
    BY <1>0, <2>2, <2>3 DEF StopAnswered, LookedFor
  <2> QED
    BY <2>2, <2>4, <2>5 DEF Places, Admitting
<1>3. ASSUME NothingOwned \/ ActionsDone PROVE Places'
  <2>1. /\ UNCHANGED <<rec, batch, todo>>
        /\ pc' = IF Doubtful(rec) THEN "idle" ELSE "settled"
        /\ (pc = "reconcile" /\ todo = {}) \/ pc = "act"
    BY <1>3 DEF NothingOwned, ActionsDone, Deciding, Continue, durable
  <2>2. Planned' = {}
    BY <1>0, <1>3, <2>1 DEF NothingOwned, Deciding, ActionsDone, PlannedInPass, Planned, NoActions
  <2>3. pc' = "settled" => rec'[PlacePrearm].status # "UNKNOWN"
    BY <2>1, PrearmFacts DEF Doubtful
  <2>4. rec'[PlacePrearm].status # "SUBMITTING"
    BY <1>0, <2>1 DEF StopAnswered, LookedFor
  <2>5. pc' \in {"idle", "settled"}
    BY <2>1
  <2> QED
    BY <2>2, <2>3, <2>4, <2>5 DEF Places, PlannedInPass, StopAnswered, LookedFor, Admitting
<1>4. ASSUME PreparedOnly \/ Protect PROVE Places'
  <2>1. UNCHANGED rec /\ pc' = "act" /\ pc = "reconcile" /\ todo = {}
    BY <1>4 DEF PreparedOnly, Protect, Deciding
  <2> QED
    BY <1>0, <2>1 DEF Places, PlannedInPass, StopAnswered, LookedFor, Admitting
<1> QED
  BY <1>1, <1>2, <1>3, <1>4

\* Requests and their answers.
LEMMA RequestPlaces ==
  ASSUME RefinementInv, Journals, Places, Journals', BookGrows
  PROVE  /\ \A a \in Ready : ExecuteAction(a) => Places'
         /\ \A a \in Ready : ReuseRecord(a) => Places'
         /\ Respond => Places'
<1>0. Inv /\ Standing /\ Control /\ rec \in [Commands -> Records]
      /\ PlannedInPass /\ StopAnswered /\ Admitting /\ BookIsPlain'
  BY InvParts DEF RefinementInv, Places, Journals
<1>1. ASSUME NEW a \in Ready, ExecuteAction(a) PROVE Places'
  <2>1. a \in Actions /\ a \in Planned
    BY <1>0, ReadyType, ReadyIsPlanned
  <2>2. Command(a) \in Commands /\ Command(a) \notin {PlacePrearm, EntryPlace}
    BY <1>0, <2>1, CommandFacts, IdFacts
    DEF Standing, PlacesExits, Planned, Command, PlacePrearm, EntryPlace
  <2>3. pc = "act" /\ pc' = "await" /\ current' = a
    BY <1>1 DEF ExecuteAction, Send
  <2>4. rec'[PlacePrearm] = rec[PlacePrearm]
    BY <1>0, <1>1, <2>2, PrearmFacts DEF ExecuteAction, Send
  <2>5. Command(current)' = Command(a)
    BY <2>3 DEF Command
  <2> QED
    BY <1>0, <2>2, <2>3, <2>4, <2>5 DEF Places, PlannedInPass, StopAnswered, LookedFor, Admitting
<1>2. ASSUME NEW a \in Ready, ReuseRecord(a) PROVE Places'
  <2>1. GiveUp \/ (UNCHANGED <<rec, pc, todo, current>> /\ Planned' \subseteq Planned)
    BY <1>2, WithoutPlan DEF ReuseRecord, durable
  <2> QED
    BY <2>1, IdlePlaces, PlacesStay
<1>3. ASSUME Respond PROVE Places'
  <2>1. current \in Actions /\ Command(current) \in Commands
        /\ Command(current) = <<current.op, current.id>>
    BY <1>0, CommandFacts DEF Control, Command
  <2>2. /\ pc = "await" /\ Resume
        /\ rec' = Adopt(Command(current), book'[Command(current)[2]])
    BY <1>3, <2>1 DEF Respond
  <2>3. CASE GiveUp
    BY <2>3, IdlePlaces
  <2>4. CASE ~GiveUp
    <3>1. /\ pc' = IF Command(current) = PlacePrearm THEN "confirm" ELSE "act"
          /\ UNCHANGED <<todo, batch>> /\ Command(current) # EntryPlace
      BY <2>1, <2>2, <2>4 DEF Resume, PlacePrearm
    <3>2. rec'[PlacePrearm].status # "SUBMITTING"
      BY <1>0, <2>1, <2>2, AdoptStop DEF StopAnswered, LookedFor
    <3>3. PlannedInPass'
      BY <1>0, <2>2, <3>1 DEF PlannedInPass, Planned
    <3>4. Recorded(CancelPrearm)' => Recorded(CancelPrearm)
      <4>1. Recorded(Command(current))
        BY <1>0, <2>2 DEF Inv, AwaitedIsSubmitting, Recorded
      <4>2. rec'[CancelPrearm] # rec[CancelPrearm] => CancelPrearm = Command(current)
        BY <2>1, <2>2, PrearmFacts DEF Adopt, PlacePrearm, CancelPrearm
      <4> QED
        BY <4>1, <4>2 DEF Recorded
    <3>5. StopIsSpent => StopIsSpent'
      BY PrearmFacts DEF StopIsSpent, BookGrows
    <3>6. Admitting'
      BY <1>0, <2>2, <3>1, <3>4, <3>5 DEF Admitting
    <3> QED
      BY <3>1, <3>2, <3>3, <3>6 DEF Places, StopAnswered, LookedFor
  <2> QED
    BY <2>3, <2>4
<1> QED
  BY <1>1, <1>2, <1>3

\* The admission.
LEMMA AdmissionPlaces ==
  ASSUME RefinementInv, Journals, Places, Journals', BookGrows
  PROVE  /\ BeginAdmission \/ SymbolIsFlat \/ SymbolIsOrderless => Places'
         /\ Prepare => Places'
         /\ \A a \in PrearmActions : Prearm(a) \/ PrearmRecorded(a) => Places'
         /\ ConfirmProtection => Places'
         /\ SubmitEntry => Places'
<1>0. Inv /\ Control /\ rec \in [Commands -> Records] /\ book \in [Ids -> Records]
      /\ PlannedInPass /\ StopAnswered /\ Admitting /\ RecordIsObserved /\ CancelsKnown
  BY InvParts DEF RefinementInv, Places, Journals
<1>1. ASSUME BeginAdmission \/ SymbolIsFlat \/ SymbolIsOrderless PROVE Places'
  <2>1. /\ pc \in {"settled", "flat", "orderless"} /\ UNCHANGED <<rec, batch, book>>
        /\ pc' \in {"flat", "orderless", "prepare"}
        /\ pc' = "prepare" => book[PrearmId].status # "CONDITIONAL_NEW"
    BY <1>1, PrearmFacts DEF BeginAdmission, SymbolIsFlat, SymbolIsOrderless, durable
  <2>2. rec[PlacePrearm].status \notin {"SUBMITTING", "UNKNOWN"}
    BY <1>0, <2>1 DEF StopAnswered, LookedFor
  <2>3. pc' = "prepare" /\ Recorded(PlacePrearm) => StopIsSpent
    <3>1. Recorded(PlacePrearm) => book[PrearmId].status # "none"
      BY <1>0, <2>2, PrearmFacts DEF Recorded, RecordIsObserved
    <3> QED
      BY <2>1, <3>1 DEF StopIsSpent
  <2>4. Planned' = {}
    BY <1>0, <2>1 DEF PlannedInPass, Planned
  <2>5. Recorded(PlacePrearm)' = Recorded(PlacePrearm) /\ StopIsSpent' = StopIsSpent
    BY <2>1 DEF Recorded, StopIsSpent
  <2> QED
    BY <2>1, <2>2, <2>3, <2>4, <2>5 DEF Places, PlannedInPass, StopAnswered, LookedFor, Admitting
<1>2. ASSUME Prepare PROVE Places'
  <2>1. pc = "prepare" /\ pc' = "prearm" /\ UNCHANGED <<rec, batch, book>>
    BY <1>2 DEF Prepare
  <2>2. Recorded(PlacePrearm)' = Recorded(PlacePrearm) /\ StopIsSpent' = StopIsSpent
        /\ Planned' = {}
    BY <1>0, <2>1 DEF Recorded, StopIsSpent, PlannedInPass, Planned
  <2> QED
    BY <1>0, <2>1, <2>2 DEF Places, PlannedInPass, StopAnswered, LookedFor, Admitting
<1>3. ASSUME NEW a \in PrearmActions, Prearm(a) PROVE Places'
  <2>1. a \in Actions /\ Command(a) = PlacePrearm
    BY PrearmCommand
  <2>2. /\ pc = "prearm" /\ pc' = "await" /\ current' = a /\ UNCHANGED batch
        /\ ~Recorded(PlacePrearm)
    BY <1>3, <2>1 DEF Prearm, Send
  <2>3. ~Recorded(CancelPrearm)
    BY <1>0, <2>2, PrearmFacts DEF CancelsKnown, PlacePrearm, CancelPrearm
  <2>4. rec'[CancelPrearm] = rec[CancelPrearm]
    BY <1>0, <1>3, <2>1, PrearmFacts DEF Prearm, Send
  <2>5. Command(current)' = PlacePrearm /\ ~Recorded(CancelPrearm)'
    BY <2>1, <2>2, <2>3, <2>4 DEF Command, Recorded
  <2>6. Planned' = {}
    BY <1>0, <2>2 DEF PlannedInPass, Planned
  <2> QED
    BY <2>2, <2>5, <2>6 DEF Places, PlannedInPass, StopAnswered, LookedFor, Admitting
<1>4. ASSUME NEW a \in PrearmActions, PrearmRecorded(a) PROVE Places'
  <2>1. Recorded(PlacePrearm)
    BY <1>4, PrearmCommand DEF PrearmRecorded
  <2>2. pc = "prearm" /\ pc' = "confirm" /\ UNCHANGED <<rec, batch, book>>
    BY <1>4 DEF PrearmRecorded, durable
  <2>3. StopIsSpent'
    BY <1>0, <2>1, <2>2 DEF Admitting, StopIsSpent
  <2>4. Planned' = {}
    BY <1>0, <2>2 DEF PlannedInPass, Planned
  <2> QED
    BY <1>0, <2>2, <2>3, <2>4 DEF Places, PlannedInPass, StopAnswered, LookedFor, Admitting
<1>5. ASSUME ConfirmProtection PROVE Places'
  <2>1. pc = "confirm" /\ pc' = "submit" /\ UNCHANGED <<rec, batch, book>>
    BY <1>5 DEF ConfirmProtection, durable
  <2>2. book[PrearmId].status = "CONDITIONAL_NEW"
    BY <1>0, <1>5, ConfirmedIsWhole
  <2>3. ~Recorded(CancelPrearm)
    BY <1>0, <2>1, <2>2 DEF Admitting, StopIsSpent
  <2>4. Planned' = {} /\ ~Recorded(CancelPrearm)'
    BY <1>0, <2>1, <2>3 DEF PlannedInPass, Planned, Recorded
  <2> QED
    BY <1>0, <2>1, <2>4 DEF Places, PlannedInPass, StopAnswered, LookedFor, Admitting
<1>6. ASSUME SubmitEntry PROVE Places'
  <2>1. pc = "submit" /\ pc' = "await" /\ current' = EntryAction /\ UNCHANGED batch
    BY <1>6 DEF SubmitEntry, Send
  <2>2. Command(current)' = EntryPlace /\ Command(EntryAction) = EntryPlace
    BY <2>1 DEF Command, EntryPlace, EntryAction
  <2>3. rec'[PlacePrearm] = rec[PlacePrearm]
    BY <1>0, <1>6, <2>2, PrearmFacts DEF SubmitEntry, Send
  <2>4. Planned' = {}
    BY <1>0, <2>1 DEF PlannedInPass, Planned
  <2> QED
    BY <1>0, <2>1, <2>2, <2>3, <2>4, PrearmFacts
    DEF Places, PlannedInPass, StopAnswered, LookedFor, Admitting
<1> QED
  BY <1>1, <1>2, <1>3, <1>4, <1>5, <1>6

\* Every step leaves the process at a place where what it relies on holds.
LEMMA PlacesKeep ==
  ASSUME RefinementInv, Journals, Places, Journals', BookGrows, [Next]_vars
  PROVE  Places'
<1>1. CASE Cycle
  <2>1. CASE SnapshotTooOld \/ Unreconciled \/ RespondError \/ Timeout \/ EndCycle
    BY <2>1, IdlePlaces DEF SnapshotTooOld, Unreconciled, RespondError, Timeout, EndCycle
  <2> QED
    BY <1>1, <2>1, CyclePlaces, RequestPlaces DEF Cycle
<1>2. CASE Admission
  <2>1. AbandonAdmission => Places'
    BY IdlePlaces DEF AbandonAdmission
  <2> QED
    BY <1>2, <2>1, AdmissionPlaces DEF Admission
<1>3. CASE Crash
  BY <1>3, IdlePlaces DEF Crash
<1>4. CASE Exchange \/ NewDay \/ (\E e \in Events : Happens(e)) \/ UNCHANGED vars
  <2>1. UNCHANGED <<rec, pc, todo, current, batch>>
    BY <1>4
    DEF Exchange, LateRequest, LostRequest, NewDay, Happens, vars, durable, volatile
  <2> QED
    BY <2>1, PlacesStay DEF Planned
<1> QED
  BY <1>1, <1>2, <1>3, <1>4 DEF Next


--------------------------------------------------------------------------------
(* What is planned, travels and works.                                     *)

\* What was sent is on record; so nothing travels for the stop that nobody cancels.
LEMMA TravelsRecorded ==
  ASSUME RefinementInv, NEW m \in wire
  PROVE  Recorded(Command(m)) /\ m \in Actions /\ m.id \in Ids /\ m.op \in {"PLACE", "CANCEL"}
<1>1. Inv /\ Agreement /\ m \in Actions
  BY InvParts DEF RefinementInv
<1> QED
  BY <1>1, CommandFacts DEF Inv, SentIsRecorded, Agreement, WireSent

\* The book lets the entry fill again only by its own request.
LEMMA ArrivingEntry ==
  ASSUME RefinementInv, NEW m \in wire, Arriving(m)
  PROVE  EntryCanFill' => EntryCanFill
<1>1. m.id \in Ids /\ m.op \in {"PLACE", "CANCEL"} /\ book \in [Ids -> Records]
  BY TravelsRecorded, InvParts DEF RefinementInv
<1>2. OnWire("PLACE", EntryId)' => OnWire("PLACE", EntryId)
  BY DEF OnWire, Arriving
<1>3. ASSUME book'[EntryId].status = "NEW", book[EntryId].status # "NEW"
      PROVE  OnWire("PLACE", EntryId)
  <2>1. ~Refused(m) /\ book' = Executed(m)
    BY <1>3 DEF Arriving
  <2>2. CASE m.op = "PLACE"
    <3>1. book' = [book EXCEPT ![m.id] = Opened(m)]
      BY <2>1, <2>2 DEF Executed
    <3>2. m.id = EntryId
      BY <1>1, <1>3, <3>1, IdFacts
    <3> QED
      BY <2>2, <3>2 DEF OnWire
  <2>3. CASE m.op = "CANCEL"
    <3>1. book' = [book EXCEPT ![m.id].status = "CANCELED"]
      BY <2>1, <2>3 DEF Executed
    <3> QED
      BY <1>1, <1>3, <3>1, IdFacts DEF Records
  <2> QED
    BY <1>1, <2>2, <2>3
<1> QED
  BY <1>2, <1>3 DEF EntryCanFill

\* Sending anything but the entry lets it fill no more than before.
LEMMA SendingEntry ==
  ASSUME RefinementInv, NEW a \in Actions, Sending(a), pc # "submit"
  PROVE  /\ EntryCanFill' => EntryCanFill
         /\ pc = "prearm" => a.id \in StopIds
         /\ a.op = "PLACE" => a.id # EntryId
<1>1. a.op = "PLACE" => a.id # EntryId
  <2>1. CASE a \in Planned
    BY <2>1, IdFacts DEF RefinementInv, Standing, PlacesExits, Planned
  <2>2. CASE Command(a) = PlacePrearm
    BY <2>2, PrearmFacts DEF Command, PlacePrearm
  <2> QED
    BY <2>1, <2>2 DEF Sending
<1>2. pc = "prearm" => a.id \in StopIds
  BY PrearmFacts DEF Sending, Command, PlacePrearm
<1>3. EntryCanFill' => EntryCanFill
  BY <1>1 DEF EntryCanFill, OnWire, Sending, Send
<1> QED
  BY <1>1, <1>2, <1>3

\* The market buys no more when nothing can be bought.
LEMMA TradingEntry ==
  ASSUME RefinementInv, Trading
  PROVE  /\ EntryCanFill' => EntryCanFill
         /\ position' > 0 => position > 0 \/ EntryCanFill
         /\ wire' = wire
<1>1. Inv /\ Agreement /\ wire' = wire
  BY InvParts, MarketGrows DEF RefinementInv, Trading
<1>2. position \in Nat /\ position' \in Nat
  BY <1>1, MarketAgrees, InvParts, IdFacts DEF Trading, Quantities
<1> QED
  BY <1>1, <1>2, MarketAgrees DEF Trading, EntryCanFill, OnWire

\* Once nothing is held and nothing can be bought, it stays so until an entry is
\* submitted.
LEMMA FlatStays ==
  ASSUME RefinementInv, Flat,
         \/ Quiet \/ Trading \/ PreparedOnly \/ Protect
         \/ \E m \in wire : Arriving(m)
         \/ pc # "submit" /\ \E a \in Actions : Sending(a)
  PROVE  Flat'
<1>1. CASE Quiet \/ PreparedOnly \/ Protect
  BY <1>1, DecisionPlans DEF Quiet, Flat, EntryCanFill, OnWire
<1>2. CASE \E m \in wire : Arriving(m)
  BY <1>2, ArrivingEntry DEF Flat, Arriving
<1>3. CASE Trading
  <2>1. position' \in Nat
    BY <1>3, InvParts, MarketAgrees, BookFills DEF RefinementInv, Trading, Flat
  <2> QED
    BY <1>3, <2>1, TradingEntry DEF Flat
<1>4. CASE pc # "submit" /\ \E a \in Actions : Sending(a)
  BY <1>4, SendingEntry DEF Flat, Sending
<1> QED
  BY <1>1, <1>2, <1>3, <1>4

\* Where the entry is submitted, no cancellation of a stop is planned or travels.
LEMMA SubmitsUncancelled ==
  ASSUME RefinementInv, Journals, Places, pc = "submit", ~Recorded(EntryPlace)
  PROVE  \A a \in Planned \cup wire : ~(a.op = "CANCEL" /\ a.id \in StopIds)
<1>1. Planned = {}
  BY DEF Places, PlannedInPass
<1>2. ASSUME NEW m \in wire, m.op = "CANCEL" PROVE FALSE
  <2>1. Recorded(Command(m)) /\ Command(m) \in Commands /\ Command(m) = <<"CANCEL", m.id>>
    BY <1>2, TravelsRecorded, CommandFacts DEF Command
  <2>2. m.id = PrearmId
    BY <2>1 DEF Journals, Unentered
  <2>3. Recorded(CancelPrearm)
    BY <2>1, <2>2 DEF CancelPrearm
  <2> QED
    BY <2>3 DEF Places, Admitting
<1> QED
  BY <1>1, <1>2

\* Stops are left alone until the position is flat.
LEMMA StopsKeep ==
  ASSUME RefinementInv, Journals, Places, StopsKept, Kinds
  PROVE  StopsKept'
<1>1. CASE PreparedOnly \/ Protect
  <2>1. /\ UNCHANGED <<book, wire, position>>
        /\ \A a \in Planned' : a.op = "CANCEL" /\ a.id \in StopIds => Flat
    BY <1>1, DecisionPlans
  <2>2. Flat' = Flat
    BY <2>1 DEF Flat, EntryCanFill, OnWire
  <2> QED
    BY <2>1, <2>2 DEF StopsKept
<1>2. CASE \E a \in Actions : Sending(a)
  <2>1. PICK a \in Actions : Sending(a)
    BY <1>2
  <2>2. Planned' \subseteq Planned /\ wire' = wire \cup {a}
    BY <2>1, WithoutPlan DEF Sending, Send, Planned
  <2>3. CASE pc = "submit"
    <3>1. a = EntryAction /\ ~Recorded(EntryPlace)
      BY <2>1, <2>3 DEF Sending, Send, Command, EntryAction, EntryPlace
    <3> QED
      BY <2>2, <2>3, <3>1, SubmitsUncancelled DEF StopsKept, EntryAction
  <2>4. CASE pc # "submit"
    <3>1. a.op = "CANCEL" => a \in Planned
      BY <2>1, <2>4 DEF Sending, Command, PlacePrearm
    <3> QED
      BY <1>2, <2>2, <2>4, <3>1, FlatStays DEF StopsKept
  <2> QED
    BY <2>3, <2>4
<1>3. CASE Quiet \/ Trading \/ \E m \in wire : Arriving(m)
  <2>1. Planned' \subseteq Planned /\ wire' \subseteq wire
    BY <1>3, TradingEntry DEF Quiet, Trading, Arriving, Planned
  <2> QED
    BY <1>3, <2>1, FlatStays DEF StopsKept
<1> QED
  BY <1>1, <1>2, <1>3 DEF Kinds


\* No request that arrives opens a closure that was not travelling.
LEMMA ArrivingClosing ==
  ASSUME RefinementInv, NEW m \in wire, Arriving(m), NEW f \in FlattenIds, Closing(f)'
  PROVE  Closing(f)
<1>1. m.id \in Ids /\ m.op \in {"PLACE", "CANCEL"} /\ book \in [Ids -> Records] /\ f \in Ids
  BY TravelsRecorded, InvParts, IdFacts DEF RefinementInv
<1>2. OnWire("PLACE", f)' => OnWire("PLACE", f)
  BY DEF OnWire, Arriving
<1>3. ASSUME book'[f].status = "NEW", book[f].status # "NEW"
      PROVE  OnWire("PLACE", f)
  <2>1. ~Refused(m) /\ book' = Executed(m)
    BY <1>3 DEF Arriving
  <2>2. CASE m.op = "PLACE"
    <3>1. book' = [book EXCEPT ![m.id] = Opened(m)]
      BY <2>1, <2>2 DEF Executed
    <3>2. m.id = f
      BY <1>1, <1>3, <3>1
    <3> QED
      BY <2>2, <3>2 DEF OnWire
  <2>3. CASE m.op = "CANCEL"
    <3>1. book' = [book EXCEPT ![m.id].status = "CANCELED"]
      BY <2>1, <2>3 DEF Executed
    <3> QED
      BY <1>1, <1>3, <3>1 DEF Records
  <2> QED
    BY <1>1, <2>2, <2>3
<1> QED
  BY <1>2, <1>3 DEF Closing

\* A closure is decided only when the journals know of none that is not over; then
\* none is open at the exchange, and none travels.
LEMMA DecidedAlone ==
  ASSUME RefinementInv, ~FlattenPending(Evidence), NEW f \in FlattenIds
  PROVE  ~Closing(f)
<1> DEFINE c == <<"PLACE", f>>
<1>0. Inv /\ Agreement /\ f \in Ids /\ f \in ExitIds /\ c \in Commands /\ c[2] = f
  BY IdFacts DEF RefinementInv, Commands, ExitIds
<1>1. rec[c].status \in Terminal \cup {"none"}
  BY <1>0 DEF FlattenPending, OpenExits, Evidence
<1>2. CASE rec[c].status \in Terminal
  <2>1. book[f] = rec[c]
    BY <1>0, <1>2 DEF Inv, EvidenceIsConservative, Recorded, Terminal
  <2>2. ~OnWire("PLACE", f)
    BY <1>2, <2>1 DEF RefinementInv, Agreement, WireNew, OnWire, Terminal
  <2> QED
    BY <1>2, <2>1, <2>2 DEF Closing, Terminal
<1>3. CASE rec[c].status = "none"
  <2>1. c \notin sent
    BY <1>3 DEF RefinementInv, Inv, SentIsRecorded, Recorded
  <2>2. book[f].status = "none"
    BY <1>0, <2>1 DEF Agreement, BookSent
  <2>3. ~OnWire("PLACE", f)
    BY <1>0, <2>1 DEF Agreement, WireSent, OnWire, Command
  <2> QED
    BY <2>2, <2>3 DEF Closing
<1> QED
  BY <1>1, <1>2, <1>3

\* What a decision plans to close is one closure, and only if none is pending.
LEMMA DecisionCloses ==
  ASSUME NEW exited, NEW owned \in Nat, NEW breach, NEW invalidated, NEW expired,
         NEW holdOver,
         NEW b, b = ProtectiveActions(Evidence, exited, owned, breach, invalidated, expired,
                                      holdOver),
         NEW closures, closures = {a \in b.first \cup b.next :
                                     a.op = "PLACE" /\ a.id \in FlattenIds}
  PROVE  /\ \A a, c \in closures : a = c
         /\ closures # {} => ~FlattenPending(Evidence)
<1> DEFINE ev == Evidence
           None(x) == \A a \in x.first \cup x.next :
                        ~(a.op = "PLACE" /\ a.id \in FlattenIds)
<1>1. None(NoActions)
  BY DEF NoActions
<1>2. ASSUME NEW ids PROVE None([NoActions EXCEPT !.first = Cancels(ids)])
  BY CancelsPlaceNothing DEF NoActions
<1>3. \A a \in Cancellation(ev) : a.op = "CANCEL"
  BY CancelsPlaceNothing DEF Cancellation
<1>4. None([NoActions EXCEPT !.first = Cancellation(ev)])
  BY <1>3 DEF NoActions
<1>5. None(Rearm(ev, owned))
  <2>1. <<"STOP", ev[EntryId].filled, 0>> \notin FlattenIds
    BY DEF FlattenIds
  <2> QED
    BY <1>3, <2>1, PlacementsPlaceExits DEF Rearm
<1>6. None(Targets(ev, exited, owned))
  <2>1. ASSUME NEW role \in {"TP1", "TP2"}, NEW a \in PlaceTarget(ev, exited, owned, role)
        PROVE  a.id \notin FlattenIds
    <3>1. a.id = <<role, ev[EntryId].filled, exited>>
      BY PlacementsPlaceExits DEF PlaceTarget
    <3> QED
      BY <3>1 DEF FlattenIds
  <2>2. None([first |-> PlaceTarget(ev, exited, owned, "TP1"),
              next  |-> IF Staged THEN PlaceTarget(ev, exited, owned, "TP2") ELSE {}])
    BY <2>1
  <2> QED
    BY <1>2, <2>2 DEF Targets
<1>7. None(WhenFlat(ev, breach \/ invalidated \/ expired))
  BY CancelsPlaceNothing DEF WhenFlat, NoActions
<1>8. ASSUME b = Closure(ev, exited, owned) PROVE \A a, c \in closures : a = c
  <2>1. closures \subseteq Placements(<<"FLATTEN", ev[EntryId].filled, exited>>, owned, 0)
    BY <1>3, <1>8 DEF Closure
  <2>2. \A a, c \in Placements(<<"FLATTEN", ev[EntryId].filled, exited>>, owned, 0) : a = c
    BY DEF Placements
  <2> QED
    BY <2>1, <2>2
<1>9. None(b) => closures = {}
  OBVIOUS
<1>10. CASE owned = 0
  <2> HIDE DEF None
  <2> QED
    BY <1>7, <1>9, <1>10 DEF ProtectiveActions
<1>11. CASE owned # 0
  <2> HIDE DEF None
  <2>1. ASSUME NEW leave
        PROVE  \/ None(WhenOwned(ev, exited, owned, breach, leave))
               \/ /\ WhenOwned(ev, exited, owned, breach, leave) = Closure(ev, exited, owned)
                  /\ ~FlattenPending(ev)
    BY <1>1, <1>4, <1>5, <1>6 DEF WhenOwned
  <2>2. b = WhenOwned(ev, exited, owned, breach, invalidated \/ holdOver)
    BY <1>11 DEF ProtectiveActions
  <2>3. None(b) \/ (b = Closure(ev, exited, owned) /\ ~FlattenPending(ev))
    BY <2>1, <2>2
  <2> QED
    BY <1>8, <1>9, <2>3
<1> QED
  BY <1>10, <1>11

\* One closure at most is planned, travels or is open.
LEMMA OneClosureKeeps ==
  ASSUME RefinementInv, Journals, Places, OneClosure, Kinds
  PROVE  OneClosure'
<1>1. CASE Quiet \/ Trading \/ \E m \in wire : Arriving(m)
  <2>1. \A f \in FlattenIds : Closing(f)' => Closing(f)
    <3>1. CASE Quiet
      BY <3>1 DEF Quiet, Closing, OnWire
    <3>2. CASE Trading
      <4> SUFFICES ASSUME NEW f \in FlattenIds, Closing(f)' PROVE Closing(f)
        OBVIOUS
      <4>1. f \in Ids /\ f \notin StopIds
        BY IdFacts DEF FlattenIds, StopIds
      <4>2. book'[f].status = "NEW" => book[f].status = "NEW"
        BY <3>2, <4>1, MarketBook DEF RefinementInv, Trading
      <4> QED
        BY <3>2, <4>2, TradingEntry DEF Closing, OnWire
    <3>3. CASE \E m \in wire : Arriving(m)
      BY <3>3, ArrivingClosing
    <3> QED
      BY <1>1, <3>1, <3>2, <3>3
  <2>2. Closures' \subseteq Closures
    BY <1>1 DEF Quiet, Trading, Arriving, Planned, Closures
  <2> QED
    BY <2>1, <2>2 DEF OneClosure
<1>2. CASE PreparedOnly
  <2>1. UNCHANGED <<book, wire>>
    BY <1>2 DEF PreparedOnly
  <2>2. Closures' = {}
    <3>1. Planned' \subseteq Cancels(OpenExits(Evidence))
      BY <1>2 DEF PreparedOnly, Planned, NoActions
    <3> QED
      BY <3>1, CancelsPlaceNothing DEF Closures
  <2>3. \A f : Closing(f)' = Closing(f)
    BY <2>1 DEF Closing, OnWire
  <2> QED
    BY <2>2, <2>3 DEF OneClosure
<1>3. CASE Protect
  <2>1. UNCHANGED <<book, wire>>
    BY <1>3 DEF Protect
  <2>2. PICK exited \in Quantities, closedBelow \in BOOLEAN :
          LET owned   == Evidence[EntryId].filled - exited
              invalid == Staged /\ snap.position # 0 /\ (latched \/ closedBelow)
          IN  /\ snap.position = owned
              /\ batch' = ProtectiveActions(Evidence, exited, owned, snap.daily \/ risk,
                            invalid, "expired" \in flags, "holdOver" \in flags)
    BY <1>3 DEF Protect
  <2> DEFINE owned == Evidence[EntryId].filled - exited
  <2>3. owned \in Nat
    BY <2>2, InvParts DEF RefinementInv, Control, Quantities
  <2>4. /\ \A a, c \in Closures' : a = c
        /\ Closures' # {} => ~FlattenPending(Evidence)
    <3>1. Closures' = {a \in batch'.first \cup batch'.next :
                         a.op = "PLACE" /\ a.id \in FlattenIds}
      BY DEF Closures, Planned
    <3> HIDE DEF owned
    <3> QED
      BY <2>2, <2>3, <3>1, DecisionCloses DEF owned
  <2>5. \A f \in FlattenIds : Closing(f)' = Closing(f)
    BY <2>1 DEF Closing, OnWire
  <2> QED
    BY <2>4, <2>5, DecidedAlone DEF OneClosure
<1>4. CASE \E a \in Actions : Sending(a)
  <2>1. PICK a \in Actions : Sending(a)
    BY <1>4
  <2>2. UNCHANGED book /\ wire' = wire \cup {a}
    BY <2>1 DEF Sending, Send
  <2>3. CASE a \in Closures
    <3>1. Planned' = Planned \ {a} \/ Planned = {}
      BY <2>1, WithoutPlan DEF Sending, Places, PlannedInPass
    <3>2. Closures' = {}
      BY <2>3, <3>1 DEF Closures, OneClosure
    <3>3. \A f \in FlattenIds : Closing(f)' => f = a.id
      BY <2>2, <2>3 DEF OneClosure, Closing, OnWire
    <3> QED
      BY <3>2, <3>3 DEF OneClosure
  <2>4. CASE a \notin Closures
    <3>1. ~(a.op = "PLACE" /\ a.id \in FlattenIds)
      <4>1. CASE a \in Planned
        BY <2>4, <4>1 DEF Closures
      <4>2. CASE Command(a) = PlacePrearm \/ a = EntryAction
        BY <4>2
        DEF Command, PlacePrearm, PrearmId, EntryAction, EntryId, FlattenIds
      <4> QED
        BY <2>1, <4>1, <4>2 DEF Sending
    <3>2. \A f \in FlattenIds : Closing(f)' => Closing(f)
      BY <2>2, <3>1 DEF Closing, OnWire
    <3>3. Closures' \subseteq Closures
      BY <2>1, WithoutPlan DEF Sending, Closures, Planned
    <3> QED
      BY <3>2, <3>3 DEF OneClosure
  <2> QED
    BY <2>3, <2>4
<1> QED
  BY <1>1, <1>2, <1>3, <1>4 DEF Kinds

\* What shields a position shields it until it is cancelled, which is when there is
\* nothing to shield.
LEMMA ShieldLasts ==
  ASSUME RefinementInv, Journals, Places, StopsKept, Shielded, Kinds
  PROVE  Shielded' \/ (Flat /\ pc # "submit" /\ \E m \in wire : Arriving(m))
<1>0. Inv /\ book \in [Ids -> Records] /\ PrearmId \in Ids
  BY InvParts, IdFacts DEF RefinementInv
<1>1. CASE UNCHANGED book
  BY <1>1 DEF Shielded
<1>2. CASE Trading
  <2>1. book'[PrearmId].quantity = book[PrearmId].quantity
    BY <1>0, <1>2, MarketQuantities DEF Trading
  <2>2. \/ book'[PrearmId] = book[PrearmId]
        \/ book'[PrearmId].status \in {"TRIGGERED", "NEW", "FILLED", "EXPIRED"}
    BY <1>0, <1>2, MarketBook DEF Trading
  <2> QED
    BY <2>1, <2>2 DEF Shielded
<1>3. ASSUME NEW m \in wire, Arriving(m)
      PROVE  Shielded' \/ (Flat /\ pc # "submit")
  <2>1. m.id \in Ids /\ m.op \in {"PLACE", "CANCEL"} /\ Recorded(Command(m))
    BY TravelsRecorded
  <2>2. CASE book'[PrearmId] = book[PrearmId]
    BY <2>2 DEF Shielded
  <2>3. CASE book'[PrearmId] # book[PrearmId]
    <3>1. ~Refused(m) /\ book' = Executed(m)
      BY <1>3, <2>3 DEF Arriving
    <3>2. m.id = PrearmId
      BY <1>0, <2>1, <2>3, <3>1 DEF Executed
    <3>3. m.op = "CANCEL"
      BY <2>1, <3>1, <3>2 DEF Refused, Shielded
    <3>4. Flat
      BY <3>2, <3>3, IdFacts DEF StopsKept
    <3>5. pc # "submit"
      BY <2>1, <3>2, <3>3 DEF Places, Admitting, Command, CancelPrearm
    <3> QED
      BY <3>4, <3>5
  <2> QED
    BY <2>2, <2>3
<1> QED
  BY <1>1, <1>2, <1>3, DecisionPlans DEF Kinds, Quiet, Sending

\* No position and no working entry is without the stop that was confirmed for it.
LEMMA PrearmedKeeps ==
  ASSUME RefinementInv, Journals, Places, StopsKept, Prearmed, Kinds
  PROVE  Prearmed'
<1>0. Inv /\ position \in Nat
  BY BookFills DEF RefinementInv
<1>1. CASE Quiet /\ ConfirmProtection
  <2>1. UNCHANGED book
    BY <1>1 DEF Quiet
  <2> QED
    BY <1>0, <1>1, <2>1, ConfirmedIsWhole DEF Prearmed, Shielded
<1>2. CASE ~(Quiet /\ ConfirmProtection)
  <2> DEFINE exposed == position > 0 \/ EntryCanFill \/ pc = "submit"
  <2>1. exposed' => exposed
    <3>1. CASE Quiet
      BY <1>2, <3>1 DEF Quiet, EntryCanFill, OnWire
    <3>2. CASE \E m \in wire : Arriving(m)
      BY <3>2, ArrivingEntry DEF Arriving
    <3>3. CASE Trading
      BY <3>3, TradingEntry DEF Trading
    <3>4. CASE PreparedOnly \/ Protect
      BY <3>4, DecisionPlans DEF EntryCanFill, OnWire
    <3>5. CASE \E a \in Actions : Sending(a)
      <4>1. position' = position /\ pc' = "await"
        BY <3>5 DEF Sending, Send
      <4> QED
        BY <3>5, <4>1, SendingEntry
    <3> QED
      BY <3>1, <3>2, <3>3, <3>4, <3>5 DEF Kinds
  <2>2. Flat /\ pc # "submit" => ~exposed
    BY DEF Flat
  <2> QED
    BY <2>1, <2>2, ShieldLasts DEF Prearmed
<1> QED
  BY <1>1, <1>2

--------------------------------------------------------------------------------
(* Whose exposure it is.                                                   *)

\* A crash between the registration of a trade and the record of its stop.
CutOff == Crash /\ pc = "prearm" /\ ~Recorded(PlacePrearm)

\* As long as no crash cuts an admission off, the trade is closed only after its
\* stop was asked for, and before its entry only when that stop is spent; so no
\* admission can confirm a stop for a trade that is closed.
OwnedAlone ==
  /\ Flat \/ trade = "open"
  /\ trade # "none" /\ pc # "prearm" => Recorded(PlacePrearm)
  /\ trade = "closed" => Recorded(PlacePrearm)
  /\ trade = "closed" /\ ~Recorded(EntryPlace) => StopIsSpent
  /\ pc = "submit" => Recorded(EntryPlace) \/ trade = "open"

\* No step takes a record off the journals.
LEMMA RecordedStays ==
  ASSUME RefinementInv, [Next]_vars
  PROVE  /\ Recorded(PlacePrearm) => Recorded(PlacePrearm)'
         /\ Recorded(EntryPlace) => Recorded(EntryPlace)'
<1>1. JournalGrows
  BY InvNext DEF RefinementInv
<1> QED
  BY <1>1, PrearmFacts DEF JournalGrows

\* What a step does to the trade and to the place of an admission.
LEMMA TradeSteps ==
  ASSUME RefinementInv, [Next]_vars, ~CutOff
  PROVE  /\ \/ Prepare \/ PreparedOnly \/ Protect
            \/ trade' = trade
         /\ \/ Prepare
            \/ pc' = "prearm" => pc = "prearm"
         /\ pc = "prearm" => pc' = "prearm" \/ Recorded(PlacePrearm)'
<1>0. Inv /\ Control /\ rec \in [Commands -> Records]
  BY InvParts DEF RefinementInv
<1>1. CASE Cycle
  <2>1. PreparedOnly \/ Protect \/ trade' = trade
    BY <1>1
    DEF Cycle, RefreshAccount, ReuseSnapshot, StartCycle, SnapshotTooOld, Reconcile,
        QueryAnswered, QueryFails, QuerySkipped, NothingOwned, Unreconciled, ExecuteAction,
        ReuseRecord, ActionsDone, Respond, RespondError, Timeout, EndCycle, durable
  <2>2. pc # "prearm"
    BY <1>1
    DEF Cycle, RefreshAccount, ReuseSnapshot, StartCycle, SnapshotTooOld, Reconcile,
        QueryAnswered, QueryFails, QuerySkipped, NextQuery, NothingOwned, PreparedOnly,
        Protect, Unreconciled, Deciding, ExecuteAction, ReuseRecord, ActionsDone, Respond,
        RespondError, Timeout, EndCycle
  <2>3. pc' # "prearm"
    BY <1>1, <2>2
    DEF Cycle, RefreshAccount, ReuseSnapshot, StartCycle, SnapshotTooOld, Reconcile,
        QueryAnswered, QueryFails, QuerySkipped, NothingOwned, PreparedOnly, Protect,
        Unreconciled, Continue, ExecuteAction, Send, ReuseRecord, ActionsDone, Respond, Resume,
        RespondError, Timeout, EndCycle, GiveUp
  <2> QED
    BY <2>1, <2>2, <2>3
<1>2. CASE Admission
  <2>1. CASE \E a \in PrearmActions : Prearm(a) \/ PrearmRecorded(a)
    <3>1. PICK a \in PrearmActions : Prearm(a) \/ PrearmRecorded(a)
      BY <2>1
    <3>2. Command(a) = PlacePrearm
      BY PrearmCommand
    <3>3. Recorded(PlacePrearm)'
      BY <1>0, <3>1, <3>2, PrearmFacts DEF Prearm, Send, PrearmRecorded, Recorded, durable
    <3> QED
      BY <3>1, <3>3 DEF Prearm, Send, PrearmRecorded, durable
  <2>2. CASE Prepare
    BY <2>2 DEF Prepare
  <2>3. CASE \/ BeginAdmission \/ SymbolIsFlat \/ SymbolIsOrderless
             \/ ConfirmProtection \/ SubmitEntry \/ AbandonAdmission
    BY <2>3 DEF BeginAdmission, SymbolIsFlat, SymbolIsOrderless, ConfirmProtection,
                SubmitEntry, Send, AbandonAdmission, GiveUp, durable
  <2> QED
    BY <1>2, <2>1, <2>2, <2>3 DEF Admission
<1>3. CASE Crash
  <2>1. UNCHANGED <<trade, rec>> /\ pc' = "idle"
    BY <1>3 DEF Crash, GiveUp, durable
  <2>2. Recorded(PlacePrearm)' = Recorded(PlacePrearm)
    BY <2>1 DEF Recorded
  <2> QED
    BY <1>3, <2>1, <2>2 DEF CutOff
<1>4. CASE Exchange \/ NewDay \/ (\E e \in Events : Happens(e)) \/ UNCHANGED vars
  BY <1>4
  DEF Exchange, LateRequest, LostRequest, NewDay, Happens, durable, volatile, vars
<1> QED
  BY <1>1, <1>2, <1>3, <1>4 DEF Next

\* A trade whose entry was never journalled is closed when its stop is spent, or it
\* was never asked for one.
LEMMA ClosedUnentered ==
  ASSUME Inv, PreparedOnly, trade' = "closed", Recorded(PlacePrearm)
  PROVE  StopIsSpent
<1>1. OpenExits(Evidence) = {}
  BY DEF PreparedOnly
<1>2. PrearmId \in ExitIds /\ Evidence[PrearmId] = rec[PlacePrearm]
  BY PrearmFacts, IdFacts DEF ExitIds, Evidence, PlacePrearm
<1>3. rec[PlacePrearm].status \in Terminal
  BY <1>1, <1>2 DEF OpenExits, Recorded
<1>4. rec[PlacePrearm] = book[PrearmId]
  BY <1>3, PrearmFacts DEF Inv, EvidenceIsConservative
<1> QED
  BY <1>3, <1>4 DEF StopIsSpent, Terminal

\* A trade whose entry is journalled is closed when it is flat.
LEMMA ClosedByProtect ==
  ASSUME RefinementInv, Protect, trade' = "closed" PROVE Flat
<1>1. PICK exited \in Quantities :
        /\ exited = ExitFilled(Evidence)
        /\ ~EntryPending(Evidence) /\ Evidence[EntryId].filled - exited = 0
  BY DEF Protect
<1>2. Evidence[EntryId].filled \in Quantities
  <2>1. <<"PLACE", EntryId>> \in Commands /\ Evidence[EntryId] = rec[<<"PLACE", EntryId>>]
    BY IdFacts DEF Commands, Evidence
  <2> QED
    BY <2>1, InvParts DEF RefinementInv, Records
<1>3. Evidence[EntryId].filled = ExitFilled(Evidence)
  BY <1>1, <1>2 DEF Quantities
<1>4. Recorded(EntryPlace)
  BY DEF Protect
<1> QED
  BY <1>1, <1>3, <1>4, ClosedIsFlat DEF RefinementInv, Flat

\* Exposure comes to a trade that is open, and the trade is not written off under it.
LEMMA OwnedAloneKeeps ==
  ASSUME ProtectionInv, OwnedAlone, [Next]_vars, ~CutOff PROVE OwnedAlone'
<1>0. /\ RefinementInv /\ Inv /\ Agreement /\ Standing /\ Control
      /\ Journals /\ Places /\ Kinds /\ BookGrows
      /\ book \in [Ids -> Records]
  BY StepKinds, JournalsKeep, InvParts DEF ProtectionInv, Protected, RefinementInv
<1>1. /\ Flat \/ trade = "open"
      /\ trade # "none" /\ pc # "prearm" => Recorded(PlacePrearm)
      /\ trade = "closed" => Recorded(PlacePrearm)
      /\ trade = "closed" /\ ~Recorded(EntryPlace) => StopIsSpent
      /\ pc = "submit" => Recorded(EntryPlace) \/ trade = "open"
  BY <1>0, TradeSteps DEF OwnedAlone
<1>2. /\ Recorded(PlacePrearm) => Recorded(PlacePrearm)'
      /\ Recorded(EntryPlace) => Recorded(EntryPlace)'
      /\ StopIsSpent => StopIsSpent'
  BY <1>0, RecordedStays, PrearmFacts DEF BookGrows, StopIsSpent
<1>3. CASE Prepare
  <2>1. /\ UNCHANGED <<book, wire, position, rec>> /\ pc' = "prearm"
        /\ trade' = IF trade = "none" THEN "open" ELSE trade
    BY <1>3 DEF Prepare
  <2>2. Flat' = Flat
    BY <2>1 DEF Flat, EntryCanFill, OnWire
  <2>3. Recorded(EntryPlace)' = Recorded(EntryPlace)
    BY <2>1 DEF Recorded
  <2> QED
    BY <1>1, <1>2, <2>1, <2>2, <2>3 DEF OwnedAlone
<1>4. CASE PreparedOnly \/ Protect
  <2>1. /\ UNCHANGED <<book, wire, position, rec>> /\ pc' = "act" /\ pc # "prearm"
        /\ trade = "open" /\ trade' \in {"open", "closed"}
    BY <1>0, <1>4, DecisionPlans DEF PreparedOnly, Protect, Deciding
  <2>2. Flat' = Flat /\ Recorded(EntryPlace)' = Recorded(EntryPlace)
    BY <2>1 DEF Flat, EntryCanFill, OnWire, Recorded
  <2>3. Recorded(PlacePrearm)'
    BY <1>1, <1>2, <2>1
  <2>4. trade' = "closed" => Flat
    BY <1>0, <1>4, ClosedByProtect, UnsentEntry DEF PreparedOnly, Flat
  <2>5. trade' = "closed" /\ ~Recorded(EntryPlace) => StopIsSpent
    <3>1. ~Recorded(EntryPlace) => PreparedOnly
      BY <1>4 DEF Protect
    <3> QED
      BY <1>0, <1>1, <2>1, <3>1, ClosedUnentered
  <2> QED
    BY <1>2, <2>1, <2>2, <2>3, <2>4, <2>5 DEF OwnedAlone
<1>5. CASE ~(Prepare \/ PreparedOnly \/ Protect)
  <2>1. /\ trade' = trade
        /\ pc' = "prearm" => pc = "prearm"
        /\ pc = "prearm" => pc' = "prearm" \/ Recorded(PlacePrearm)'
    BY <1>0, <1>5, TradeSteps
  <2>2. Flat' \/ trade' = "open"
    <3>1. CASE pc = "submit" /\ \E a \in Actions : Sending(a)
      <4>1. PICK a \in Actions : Sending(a)
        BY <3>1
      <4>2. a = EntryAction /\ Send(a)
        BY <3>1, <4>1 DEF Sending
      <4>3. ~Recorded(EntryPlace)
        BY <4>2 DEF Send, EntryAction, EntryPlace, Command
      <4> QED
        BY <1>1, <2>1, <3>1, <4>3
    <3>2. CASE ~(pc = "submit" /\ \E a \in Actions : Sending(a))
      BY <1>0, <1>1, <2>1, <3>2, FlatStays DEF Kinds
    <3> QED
      BY <3>1, <3>2
  <2>3. trade' # "none" /\ pc' # "prearm" => Recorded(PlacePrearm)'
    BY <1>1, <1>2, <2>1
  <2>4. trade' = "closed" => Recorded(PlacePrearm)'
    BY <1>1, <1>2, <2>1
  <2>5. trade' = "closed" /\ ~Recorded(EntryPlace)' => StopIsSpent'
    BY <1>1, <1>2, <2>1
  <2>6. pc' = "submit" => Recorded(EntryPlace)' \/ trade' = "open"
    <3>1. pc' = "submit" => pc = "submit" \/ ConfirmProtection
      BY <1>0, <1>5 DEF Kinds, Sending, Send, Arriving, Trading, Quiet
    <3>2. CASE pc = "submit"
      BY <1>1, <1>2, <2>1, <3>2
    <3>3. CASE ConfirmProtection
      <4>1. book[PrearmId].status = "CONDITIONAL_NEW"
        BY <1>0, <3>3, ConfirmedIsWhole
      <4>2. ~StopIsSpent
        BY <4>1 DEF StopIsSpent
      <4>3. trade \in {"open", "closed"}
        BY <1>0, <3>3 DEF Standing, Begun, ConfirmProtection, Control
      <4> QED
        BY <1>1, <1>2, <2>1, <4>2, <4>3
    <3> QED
      BY <3>1, <3>2, <3>3
  <2> QED
    BY <2>2, <2>3, <2>4, <2>5, <2>6 DEF OwnedAlone
<1> QED
  BY <1>3, <1>4, <1>5

--------------------------------------------------------------------------------
(* The sizes of orders.                                                    *)

\* Nothing is filled beyond its quantity.
Sized ==
  /\ \A id \in Ids : book[id].filled <= book[id].quantity
  /\ \A c \in Commands : rec[c].filled <= rec[c].quantity

\* A target is no conditional order.
TargetsPlain ==
  \A t \in TargetIds :
    /\ book[t].status \notin {"CONDITIONAL_NEW", "TRIGGERED"}
    /\ rec[<<"PLACE", t>>].status \notin {"CONDITIONAL_NEW", "TRIGGERED"}

\* An order has one quantity: in its request, on record and at the exchange.
QuantitiesAgree ==
  /\ \A m \in wire : m.op = "PLACE" => rec[Command(m)].quantity = m.quantity
  /\ \A id \in Ids : book[id].status # "none"
                       => rec[<<"PLACE", id>>].quantity = book[id].quantity

\* A pass decides when it has looked for all that was being sent.
AllLookedFor ==
  pc = "reconcile" => \A c \in Commands : rec[c].status = "SUBMITTING" => c \in todo

Sizes == Sized /\ TargetsPlain /\ QuantitiesAgree /\ AllLookedFor

\* The commands that place orders.
LEMMA PlaceCommands ==
  \A id \in Ids : <<"PLACE", id>> \in Commands
BY DEF Commands

\* What a step notes of an order is what it was, or the exchange's word.
LEMMA NotedRecords ==
  ASSUME Inv, Noted
  PROVE  \A c \in Commands :
           \/ rec'[c] = rec[c]
           \/ rec'[c] = book'[c[2]] /\ book'[c[2]].status # "none"
           \/ /\ rec'[c].status = "UNKNOWN" /\ rec'[c].filled = rec[c].filled
              /\ rec'[c].quantity = rec[c].quantity
<1>0. rec \in [Commands -> Records]
  BY InvParts
<1>1. ASSUME NEW c \in Commands, book'[c[2]].status # "none", rec' = Adopt(c, book'[c[2]])
      PROVE  \A d \in Commands : rec'[d] = rec[d] \/ (d[2] = c[2] /\ rec'[d] = book'[c[2]])
  BY <1>1 DEF Adopt
<1>2. ASSUME NEW c \in Commands, rec' = Doubt(c)
      PROVE  \A d \in Commands : \/ rec'[d] = rec[d]
                                 \/ /\ rec'[d].status = "UNKNOWN"
                                    /\ rec'[d].filled = rec[d].filled
                                    /\ rec'[d].quantity = rec[d].quantity
  BY <1>0, <1>2 DEF Doubt, Records
<1> QED
  BY <1>1, <1>2 DEF Noted

\* The market fills nothing beyond its quantity.
LEMMA MarketSized ==
  ASSUME Inv, Sized, Market
  PROVE  \A id \in Ids : book'[id].filled <= book'[id].quantity
<1>1. book \in [Ids -> Records]
  BY InvParts
<1>2. ASSUME NEW x \in Ids, book[x].filled < book[x].quantity,
             book' = [book EXCEPT ![x] = Filled(x)]
      PROVE  \A id \in Ids : book'[id].filled <= book'[id].quantity
  <2>1. Filled(x).filled = book[x].filled + 1 /\ Filled(x).quantity = book[x].quantity
    BY DEF Filled
  <2>2. book[x].filled \in Nat /\ book[x].quantity \in Nat
    BY <1>1 DEF Records, Quantities
  <2> QED
    BY <1>1, <1>2, <2>1, <2>2 DEF Sized
<1>3. CASE EntryFills \/ \E x \in ExitIds : ExitFills(x)
  BY <1>2, <1>3, IdFacts DEF EntryFills, ExitFills
<1>4. ASSUME NEW x \in Ids, NEW status, book' = [book EXCEPT ![x].status = status]
      PROVE  \A id \in Ids : book'[id].filled <= book'[id].quantity
  BY <1>1, <1>4 DEF Sized, Records
<1>5. CASE \E x \in ExitIds : ExcessExpires(x)
  BY <1>4, <1>5, IdFacts DEF ExcessExpires
<1>6. CASE \E s \in StopIds : StopTriggers(s) \/ ChildAppears(s)
  BY <1>4, <1>6, IdFacts DEF StopTriggers, ChildAppears
<1>7. CASE \E id \in Ids : EndsByItself(id)
  BY <1>4, <1>7 DEF EndsByItself
<1> QED
  BY <1>3, <1>5, <1>6, <1>7 DEF Market

\* Targets are targets, and not stops.
LEMMA TargetFacts ==
  \A t \in TargetIds : /\ t \in Ids /\ t \in ExitIds /\ t \notin StopIds /\ Role(t) # "STOP"
                       /\ t # EntryId /\ t # PrearmId /\ t \notin FlattenIds
                       /\ <<"PLACE", t>> \in Commands
BY IdFacts, PlaceCommands
DEF TargetIds, TargetRoles, StopIds, FlattenIds, ExitIds, Role, EntryId, PrearmId

\* What a request that arrives makes of an order.
LEMMA ArrivingOrder ==
  ASSUME Inv, NEW m \in wire, Arriving(m)
  PROVE  \A id \in Ids :
           \/ book'[id] = book[id]
           \/ /\ m.op = "PLACE" /\ id = m.id /\ book[id].status = "none"
              /\ book'[id] = Opened(m)
           \/ /\ m.op = "CANCEL" /\ id = m.id /\ Cancelable(id)
              /\ book'[id].status = "CANCELED"
              /\ book'[id].filled = book[id].filled
              /\ book'[id].quantity = book[id].quantity
<1>1. m.op \in {"PLACE", "CANCEL"} /\ book \in [Ids -> Records]
  BY InvParts, CommandFacts
<1>2. CASE book' = book
  BY <1>2
<1>3. CASE m.op = "PLACE" /\ ~Refused(m) /\ book' = Executed(m)
  BY <1>1, <1>3 DEF Refused, Executed
<1>4. CASE m.op = "CANCEL" /\ ~Refused(m) /\ book' = Executed(m)
  <2>1. Cancelable(m.id)
    BY <1>4 DEF Refused
  <2>2. book' = [book EXCEPT ![m.id].status = "CANCELED"]
    BY <1>4 DEF Executed
  <2> QED
    BY <1>1, <1>4, <2>1, <2>2 DEF Records
<1> QED
  BY <1>1, <1>2, <1>3, <1>4 DEF Arriving

\* Nothing is filled beyond its quantity, and no target is conditional.
LEMMA SizedKeeps ==
  ASSUME RefinementInv, Sized, TargetsPlain, Kinds
  PROVE  Sized' /\ TargetsPlain'
<1>0. Inv /\ rec \in [Commands -> Records] /\ book \in [Ids -> Records] /\ wire \subseteq Actions
  BY InvParts DEF RefinementInv
<1> DEFINE BookSized == /\ \A id \in Ids : book[id].filled <= book[id].quantity
                        /\ \A t \in TargetIds :
                             book[t].status \notin {"CONDITIONAL_NEW", "TRIGGERED"}
<1>1. BookSized'
  <2>1. CASE UNCHANGED book
    BY <2>1 DEF Sized, TargetsPlain
  <2>2. CASE Trading
    <3>1. \A id \in Ids : book'[id].filled <= book'[id].quantity
      BY <1>0, <2>2, MarketSized DEF Trading
    <3>2. \A t \in TargetIds : book'[t].status \notin {"CONDITIONAL_NEW", "TRIGGERED"}
      BY <1>0, <2>2, MarketBook, TargetFacts DEF Trading, TargetsPlain
    <3> QED
      BY <3>1, <3>2
  <2>3. ASSUME NEW m \in wire, Arriving(m) PROVE BookSized'
    <3>1. m \in Actions /\ m.id \in Ids /\ m.quantity \in Nat
      BY <1>0, CommandFacts, IdFacts
    <3>2. Opened(m).filled <= Opened(m).quantity
      BY <3>1 DEF Opened
    <3>3. m.id \in TargetIds => Opened(m).status = "NEW"
      BY TargetFacts DEF Opened
    <3> QED
      BY <1>0, <2>3, <3>2, <3>3, ArrivingOrder, TargetFacts DEF Sized, TargetsPlain
  <2> QED
    BY <2>1, <2>2, <2>3, DecisionPlans DEF Kinds, Quiet, Sending
<1>2. CASE Noted
  <2>1. \A c \in Commands : rec'[c].filled <= rec'[c].quantity
    BY <1>0, <1>1, <1>2, NotedRecords, CommandIds DEF Sized
  <2>2. \A t \in TargetIds : rec'[<<"PLACE", t>>].status \notin {"CONDITIONAL_NEW", "TRIGGERED"}
    BY <1>0, <1>1, <1>2, NotedRecords, TargetFacts DEF TargetsPlain
  <2> QED
    BY <1>1, <2>1, <2>2 DEF Sized, TargetsPlain
<1>3. ASSUME NEW a \in Actions, Sending(a) PROVE Sized' /\ TargetsPlain'
  <2>1. Command(a) \in Commands /\ a.quantity \in Nat
    BY CommandFacts, IdFacts
  <2>2. rec' = [rec EXCEPT ![Command(a)] =
                  [status |-> "SUBMITTING", filled |-> 0, quantity |-> a.quantity]]
    BY <1>3 DEF Sending, Send
  <2>3. \A c \in Commands : rec'[c].filled <= rec'[c].quantity
    BY <1>0, <2>1, <2>2 DEF Sized
  <2>4. \A t \in TargetIds : rec'[<<"PLACE", t>>].status \notin {"CONDITIONAL_NEW", "TRIGGERED"}
    BY <1>0, <2>1, <2>2, TargetFacts DEF TargetsPlain
  <2> QED
    BY <1>1, <2>3, <2>4 DEF Sized, TargetsPlain
<1>4. CASE UNCHANGED rec
  BY <1>2, <1>4 DEF Noted
<1> QED
  BY <1>2, <1>3, <1>4, DecisionPlans DEF Kinds, Quiet, Arriving, Trading

\* An order keeps its one quantity.
LEMMA QuantitiesKeep ==
  ASSUME RefinementInv, RefinementInv', QuantitiesAgree, Kinds
  PROVE  QuantitiesAgree'
<1>0. /\ Inv /\ Agreement /\ Agreement' /\ wire' \subseteq Actions
      /\ rec \in [Commands -> Records] /\ book \in [Ids -> Records] /\ wire \subseteq Actions
  <2>1. Inv' => wire' \subseteq Actions
    BY DEF Inv, TypeOK, VenueTypeOK
  <2> QED
    BY <2>1, InvParts DEF RefinementInv
<1>1. ASSUME Noted,
             \A m \in wire' : m.op = "PLACE" => rec[Command(m)].quantity = m.quantity,
             \A id \in Ids : book'[id].status # "none"
                               => rec[<<"PLACE", id>>].quantity = book'[id].quantity
      PROVE  QuantitiesAgree'
  <2>1. ASSUME NEW m \in wire', m.op = "PLACE" PROVE rec'[Command(m)].quantity = m.quantity
    <3>1. Command(m) \in Commands /\ Command(m)[2] = m.id
      BY <1>0, CommandFacts
    <3>2. book'[m.id].status = "none"
      BY <1>0, <2>1 DEF Agreement, WireNew
    <3> QED
      BY <1>0, <1>1, <2>1, <3>1, <3>2, NotedRecords
  <2>2. ASSUME NEW id \in Ids, book'[id].status # "none"
        PROVE  rec'[<<"PLACE", id>>].quantity = book'[id].quantity
    BY <1>0, <1>1, <2>2, NotedRecords, PlaceCommands
  <2> QED
    BY <2>1, <2>2 DEF QuantitiesAgree
<1>2. CASE Quiet \/ PreparedOnly \/ Protect
  <2>1. UNCHANGED <<book, wire>> /\ Noted
    BY <1>2, DecisionPlans DEF Quiet, Noted
  <2> QED
    BY <1>1, <2>1 DEF QuantitiesAgree
<1>3. CASE Trading
  <2>1. /\ \A id \in Ids : book'[id].quantity = book[id].quantity
        /\ \A id \in Ids : book'[id].status # "none" => book[id].status # "none"
        /\ wire' = wire /\ Noted
    BY <1>0, <1>3, MarketQuantities, MarketAgrees, InvParts, MarketGrows DEF Trading, Noted
  <2> QED
    BY <1>1, <2>1 DEF QuantitiesAgree
<1>4. ASSUME NEW m \in wire, Arriving(m) PROVE QuantitiesAgree'
  <2>1. \A id \in Ids : book'[id].status # "none"
                          => rec[<<"PLACE", id>>].quantity = book'[id].quantity
    <3> SUFFICES ASSUME NEW id \in Ids, book'[id].status # "none"
                 PROVE  rec[<<"PLACE", id>>].quantity = book'[id].quantity
      OBVIOUS
    <3>1. CASE book'[id] = book[id]
      BY <3>1 DEF QuantitiesAgree
    <3>2. CASE m.op = "PLACE" /\ id = m.id /\ book'[id] = Opened(m)
      BY <3>2 DEF QuantitiesAgree, Opened, Command
    <3>3. CASE /\ Cancelable(id) /\ book'[id].quantity = book[id].quantity
      BY <3>3 DEF QuantitiesAgree, Cancelable
    <3> QED
      BY <1>0, <1>4, <3>1, <3>2, <3>3, ArrivingOrder
  <2> QED
    BY <1>1, <1>4, <2>1 DEF QuantitiesAgree, Arriving
<1>5. ASSUME NEW a \in Actions, Sending(a) PROVE QuantitiesAgree'
  <2>1. /\ Command(a) \in Commands /\ UNCHANGED book /\ wire' = wire \cup {a}
        /\ rec' = [rec EXCEPT ![Command(a)] =
                     [status |-> "SUBMITTING", filled |-> 0, quantity |-> a.quantity]]
        /\ Command(a) \notin sent
    BY <1>0, <1>5, CommandFacts DEF Sending, Send, Inv, SentIsRecorded
  <2>2. ASSUME NEW m \in wire', m.op = "PLACE" PROVE rec'[Command(m)].quantity = m.quantity
    <3>1. CASE m = a
      BY <1>0, <2>1, <3>1
    <3>2. CASE m \in wire
      <4>1. Command(m) \in Commands /\ Command(m) # Command(a)
        BY <1>0, <2>1, <3>2, CommandFacts DEF Agreement, WireSent
      <4> QED
        BY <1>0, <2>1, <2>2, <3>2, <4>1 DEF QuantitiesAgree
    <3> QED
      BY <2>1, <3>1, <3>2
  <2>3. ASSUME NEW id \in Ids, book'[id].status # "none"
        PROVE  rec'[<<"PLACE", id>>].quantity = book'[id].quantity
    <3>1. <<"PLACE", id>> \in Commands /\ <<"PLACE", id>> # Command(a)
      BY <1>0, <2>1, <2>3, PlaceCommands DEF Agreement, BookSent
    <3> QED
      BY <1>0, <2>1, <2>3, <3>1 DEF QuantitiesAgree
  <2> QED
    BY <2>2, <2>3 DEF QuantitiesAgree
<1> QED
  BY <1>2, <1>3, <1>4, <1>5 DEF Kinds

\* What is being sent when a pass begins is looked for before the pass decides.
LEMMA LookedForKeeps ==
  ASSUME RefinementInv, BookIsPlain', AllLookedFor, [Next]_vars
  PROVE  AllLookedFor'
<1> SUFFICES ASSUME pc' = "reconcile" PROVE AllLookedFor'
  BY DEF AllLookedFor
<1>0. Control /\ rec \in [Commands -> Records]
  BY InvParts DEF RefinementInv
<1>1. CASE Cycle
  <2>1. CASE RefreshAccount \/ ReuseSnapshot
    BY <2>1 DEF RefreshAccount, ReuseSnapshot, StartCycle, AllLookedFor, Unfinished, Terminal
  <2>2. CASE Reconcile
    <3>1. PICK c \in todo : QueryAnswered(c) \/ QueryFails(c) \/ QuerySkipped(c)
      BY <2>2 DEF Reconcile
    <3>2. /\ c \in Commands /\ pc = "reconcile" /\ todo' = todo \ {c} /\ UNCHANGED book
      BY <1>0, <3>1 DEF Control, QueryAnswered, QueryFails, QuerySkipped, NextQuery
    <3>3. /\ rec'[c].status # "SUBMITTING"
          /\ \A d \in Commands \ {c} : rec'[d] = rec[d] \/ rec'[d].status # "SUBMITTING"
      <4>1. CASE QueryAnswered(c)
        <5>1. rec' = Adopt(c, book'[c[2]]) /\ book'[c[2]].status # "SUBMITTING"
          BY <3>2, <4>1, CommandIds DEF QueryAnswered, BookIsPlain
        <5> QED
          BY <3>2, <5>1 DEF Adopt
      <4>2. CASE QueryFails(c)
        BY <1>0, <3>2, <4>2 DEF QueryFails, Doubt, Records
      <4>3. CASE QuerySkipped(c)
        BY <4>3 DEF QuerySkipped, durable, Terminal
      <4> QED
        BY <3>1, <4>1, <4>2, <4>3
    <3> QED
      BY <3>2, <3>3 DEF AllLookedFor
  <2>3. CASE \E a \in Ready : ExecuteAction(a) \/ ReuseRecord(a)
    BY <2>3 DEF ExecuteAction, Send, ReuseRecord, GiveUp
  <2>4. CASE SnapshotTooOld \/ NothingOwned \/ PreparedOnly \/ Protect \/ Unreconciled
             \/ ActionsDone \/ Respond \/ RespondError \/ Timeout \/ EndCycle
    BY <2>4
    DEF SnapshotTooOld, NothingOwned, PreparedOnly, Protect, Unreconciled, ActionsDone,
        Respond, Resume, RespondError, Timeout, EndCycle, Continue, GiveUp
  <2> QED
    BY <1>1, <2>1, <2>2, <2>3, <2>4 DEF Cycle
<1>2. CASE Admission
  BY <1>2
  DEF Admission, BeginAdmission, SymbolIsFlat, SymbolIsOrderless, Prepare, Prearm, Send,
      PrearmRecorded, ConfirmProtection, SubmitEntry, AbandonAdmission, GiveUp
<1>3. CASE Crash
  BY <1>3 DEF Crash, GiveUp
<1>4. CASE Exchange \/ NewDay \/ (\E e \in Events : Happens(e)) \/ UNCHANGED vars
  <2>1. UNCHANGED <<rec, pc, todo>>
    BY <1>4
    DEF Exchange, LateRequest, LostRequest, NewDay, Happens, vars, durable, volatile
  <2> QED
    BY <2>1 DEF AllLookedFor
<1> QED
  BY <1>1, <1>2, <1>3, <1>4 DEF Next

--------------------------------------------------------------------------------
(* What the targets ask for.                                               *)

\* What the exchange gives a target of the position, or could give it yet.
Taken(t) == IF book[t].status = "NEW" THEN book[t].quantity ELSE book[t].filled

\* Each target has a claim to so many lot steps, which its orders respect wherever
\* they are; together the claims are not beyond what the entry has bought.
Respected(claim) ==
  /\ \A a \in Planned \cup wire : a.op = "PLACE" /\ a.id \in TargetIds
                                    => a.quantity <= claim[a.id]
  /\ \A t \in TargetIds : Taken(t) <= claim[t]

ClaimsFit ==
  \E claim \in [TargetIds -> Nat] :
    Respected(claim) /\ Lots(claim, TargetIds) <= book[EntryId].filled

\* The targets of one plan are finitely many.
LEMMA TargetsFinite == IsFiniteSet(TargetIds)
<1>1. TargetIds \subseteq ExitIds
  BY DEF ExitIds
<1> QED
  BY <1>1, ExitsFinite, FS_Subset

\* A claim that the steps' orders respect serves after the step.
LEMMA ClaimServes ==
  ASSUME Inv, Inv', BookGrows, ClaimsFit,
         \A claim \in [TargetIds -> Nat] : Respected(claim) => Respected(claim)'
  PROVE  ClaimsFit'
<1>1. PICK claim \in [TargetIds -> Nat] :
        Respected(claim) /\ Lots(claim, TargetIds) <= book[EntryId].filled
  BY DEF ClaimsFit
<1>2. Respected(claim)'
  BY <1>1
<1>3. book[EntryId].filled <= book'[EntryId].filled
      /\ book[EntryId].filled \in Nat /\ book'[EntryId].filled \in Nat
  <2>1. book[EntryId] \in Records
    BY InvParts, IdFacts
  <2>2. (book[EntryId] \in Records)'
    BY InvParts, IdFacts DEF Inv, TypeOK, VenueTypeOK
  <2> QED
    BY <2>1, <2>2, IdFacts DEF BookGrows, Records, Quantities
<1>4. Lots(claim, TargetIds) \in Nat
  BY TargetsFinite, LotsType
<1>5. Lots(claim, TargetIds) <= book'[EntryId].filled
  BY <1>1, <1>3, <1>4
<1> QED
  BY <1>2, <1>5 DEF ClaimsFit

\* What the book counts as taken are numbers.
LEMMA TakenType ==
  ASSUME Inv, NEW t \in TargetIds PROVE Taken(t) \in Nat
<1>1. book[t] \in Records
  BY InvParts, TargetFacts
<1> QED
  BY <1>1, IdFacts DEF Taken, Records, Quantities

\* Nothing but a decision asks for more.
LEMMA OthersClaim ==
  ASSUME RefinementInv, Inv', Journals, Sizes, Sized', BookGrows, Kinds, ~Protect, ClaimsFit
  PROVE  ClaimsFit'
<1>0. /\ Inv /\ Sized /\ TargetsPlain
      /\ book \in [Ids -> Records] /\ wire \subseteq Actions
  BY InvParts DEF RefinementInv, Sizes
<1> SUFFICES ASSUME NEW claim \in [TargetIds -> Nat], Respected(claim)
             PROVE  Respected(claim)'
  BY <1>0, ClaimServes
<1>1. ASSUME UNCHANGED book, Planned' \subseteq Planned, wire' \subseteq wire
      PROVE  Respected(claim)'
  BY <1>1 DEF Respected, Taken
<1>2. CASE Quiet
  BY <1>1, <1>2 DEF Quiet
<1>3. CASE PreparedOnly
  <2>1. /\ UNCHANGED <<book, wire>>
        /\ \A a \in Planned' : a.op = "CANCEL"
    BY <1>3, DecisionPlans DEF PreparedOnly
  <2> QED
    BY <2>1 DEF Respected, Taken
<1>4. ASSUME NEW a \in Actions, Sending(a) PROVE Respected(claim)'
  <2>1. /\ UNCHANGED book /\ wire' = wire \cup {a} /\ Planned' \subseteq Planned
    BY <1>4, WithoutPlan DEF Sending, Send, Planned
  <2>2. a \in Planned \/ a.id \notin TargetIds
    <3>1. Command(a) = PlacePrearm => a.id = PrearmId
      BY DEF Command, PlacePrearm
    <3>2. a = EntryAction => a.id = EntryId
      BY DEF EntryAction
    <3> QED
      BY <1>4, <3>1, <3>2, TargetFacts DEF Sending
  <2> QED
    BY <2>1, <2>2 DEF Respected, Taken
<1>5. CASE Trading
  <2>1. Planned' = Planned /\ wire' = wire
    BY <1>0, <1>5, InvParts, MarketGrows DEF Trading, Planned
  <2>2. ASSUME NEW t \in TargetIds PROVE Taken(t)' <= claim[t]
    <3>1. /\ t \in Ids /\ t \notin StopIds /\ book[t].status # "CONDITIONAL_NEW"
          /\ book'[t].quantity = book[t].quantity
          /\ book'[t].filled <= book'[t].quantity
      BY <1>0, <1>5, TargetFacts, MarketQuantities DEF TargetsPlain, Sized, Trading
    <3>2. \/ book'[t] = book[t]
          \/ book[t].status = "NEW"
      BY <1>0, <1>5, <3>1, MarketBook DEF Trading
    <3>3. Taken(t) <= claim[t] /\ claim[t] \in Nat
      BY DEF Respected
    <3>4. (book[t] \in Records)'
      BY <3>1 DEF Inv, TypeOK, VenueTypeOK
    <3>5. book'[t].filled \in Nat /\ book'[t].quantity \in Nat
      BY <3>4 DEF Records, Quantities
    <3> QED
      BY <3>1, <3>2, <3>3, <3>5 DEF Taken
  <2> QED
    BY <2>1, <2>2 DEF Respected
<1>6. ASSUME NEW m \in wire, Arriving(m) PROVE Respected(claim)'
  <2>1. Planned' \subseteq Planned /\ wire' \subseteq wire
    BY <1>6 DEF Arriving
  <2>2. ASSUME NEW t \in TargetIds PROVE Taken(t)' <= claim[t]
    <3>1. t \in Ids /\ Role(t) # "STOP" /\ Taken(t) <= claim[t] /\ claim[t] \in Nat
          /\ book[t] \in Records
      BY <1>0, TargetFacts DEF Respected
    <3>2. CASE book'[t] = book[t]
      BY <3>1, <3>2 DEF Taken
    <3>3. CASE m.op = "PLACE" /\ t = m.id /\ book'[t] = Opened(m)
      <4>1. Taken(t)' = m.quantity
        BY <3>1, <3>3 DEF Taken, Opened
      <4> QED
        BY <3>3, <4>1 DEF Respected
    <3>4. CASE /\ Cancelable(t) /\ book'[t].status = "CANCELED"
               /\ book'[t].filled = book[t].filled
      <4>1. book[t].status = "NEW" /\ book[t].filled <= book[t].quantity
        BY <1>0, <3>1, <3>4 DEF Cancelable, Sized
      <4> QED
        BY <3>1, <3>4, <4>1 DEF Taken, Records, Quantities
    <3> QED
      BY <1>0, <1>6, <3>1, <3>2, <3>3, <3>4, ArrivingOrder
  <2> QED
    BY <2>1, <2>2 DEF Respected
<1> QED
  BY <1>2, <1>3, <1>4, <1>5, <1>6 DEF Kinds

--------------------------------------------------------------------------------
(* What a decision asks for.                                               *)

\* The partial target never wants more than is owned.
LEMMA DesiredIsShare ==
  ASSUME NEW ev, ev[EntryId].filled \in Nat, \A t \in TargetIds : ev[t].filled \in Nat,
         NEW owned \in Nat
  PROVE  /\ DesiredTP1(ev, owned) \in Nat
         /\ DesiredTP1(ev, owned) <= owned
<1> DEFINE taken == FilledBy(ev, {t \in TargetIds : Role(t) = "TP1"})
           share == ActualTP1(ev[EntryId].filled)
<1>1. taken \in Nat
  <2> DEFINE ids == {t \in TargetIds : Role(t) = "TP1"}
             f == [t \in ids |-> ev[t].filled]
  <2>1. IsFiniteSet(ids)
    BY TargetsFinite, FS_Subset
  <2>2. FilledBy(ev, ids) = Lots(f, ids)
    BY <2>1, FilledByIsLots
  <2>3. Lots(f, ids) \in Nat
    BY <2>1, LotsType
  <2> QED
    BY <2>2, <2>3
<1>2. share \in Int
  BY PlanQuantityAssumption, StagedAssumption DEF ActualTP1, InitialTP1
<1> DEFINE lack == share - taken
           rest == Max({0, lack})
<1>3. lack \in Int
  BY <1>1, <1>2
<1>4. rest \in Int /\ rest >= 0
  <2> HIDE DEF lack
  <2>1. \E x \in {0, lack} : \A y \in {0, lack} : x >= y
    BY <1>3
  <2>2. rest \in {0, lack} /\ \A y \in {0, lack} : rest >= y
    BY <2>1 DEF Max
  <2> QED
    BY <1>3, <2>2
<1>5. Min({owned, rest}) \in {owned, rest} /\ Min({owned, rest}) <= owned
  <2> HIDE DEF rest
  <2>1. \E x \in {owned, rest} : \A y \in {owned, rest} : x <= y
    BY <1>4
  <2> QED
    BY <2>1 DEF Min
<1>6. DesiredTP1(ev, owned) = Min({owned, rest})
  BY DEF DesiredTP1
<1> QED
  BY <1>4, <1>5, <1>6

\* A decision that places a target found no order of the plan in doubt, and asks for
\* what the open orders of each role lack to its share.
LEMMA DecisionTargets ==
  ASSUME NEW exited, NEW owned, NEW breach, NEW invalidated, NEW expired, NEW holdOver,
         NEW b, b = ProtectiveActions(Evidence, exited, owned, breach, invalidated, expired,
                                      holdOver),
         \E a \in b.first \cup b.next : a.op = "PLACE" /\ a.id \in TargetIds
  PROVE  /\ \A x \in ExitIds : Evidence[x].status # "UNKNOWN"
         /\ \A role \in {"TP1", "TP2"} :
              ~(OutstandingOf(Evidence, LiveTargets(Evidence, role))
                  > Desired(Evidence, owned, role))
         /\ \A a \in b.first \cup b.next :
              \E role \in {"TP1", "TP2"} : a \in PlaceTarget(Evidence, exited, owned, role)
<1> DEFINE ev == Evidence
           None(x) == \A a \in x.first \cup x.next : ~(a.op = "PLACE" /\ a.id \in TargetIds)
<1>0. ~None(b)
  OBVIOUS
<1>1. None(NoActions)
  BY DEF NoActions
<1>2. ASSUME NEW ids PROVE None([NoActions EXCEPT !.first = Cancels(ids)])
  BY CancelsPlaceNothing DEF NoActions
<1>3. \A a \in Cancellation(ev) : a.op = "CANCEL"
  BY CancelsPlaceNothing DEF Cancellation
<1>4. None([NoActions EXCEPT !.first = Cancellation(ev)])
  BY <1>3 DEF NoActions
<1>5. None(Rearm(ev, owned))
  <2>1. <<"STOP", ev[EntryId].filled, 0>> \notin TargetIds
    BY DEF TargetIds, TargetRoles
  <2> QED
    BY <1>3, <2>1, PlacementsPlaceExits DEF Rearm
<1>6. None(Closure(ev, exited, owned))
  <2>1. <<"FLATTEN", ev[EntryId].filled, exited>> \notin TargetIds
    BY DEF TargetIds, TargetRoles
  <2> QED
    BY <1>3, <2>1, PlacementsPlaceExits DEF Closure
<1>7. None(WhenFlat(ev, breach \/ invalidated \/ expired))
  BY CancelsPlaceNothing DEF WhenFlat, NoActions
<1>8. /\ b = Targets(ev, exited, owned)
      /\ ~\E x \in ExitIds : ev[x].status = "UNKNOWN"
  <2> HIDE DEF None
  <2>1. CASE owned = 0
    BY <1>0, <1>7, <2>1 DEF ProtectiveActions
  <2>2. CASE owned # 0
    <3>1. b = WhenOwned(ev, exited, owned, breach, invalidated \/ holdOver)
      BY <2>2 DEF ProtectiveActions
    <3> QED
      BY <1>0, <1>1, <1>4, <1>5, <1>6, <3>1 DEF WhenOwned
  <2> QED
    BY <2>1, <2>2
<1>9. /\ ~(OutstandingOf(ev, LiveTargets(ev, "TP1")) > Desired(ev, owned, "TP1"))
      /\ ~(OutstandingOf(ev, LiveTargets(ev, "TP2")) > Desired(ev, owned, "TP2"))
      /\ b = [first |-> PlaceTarget(ev, exited, owned, "TP1"),
              next  |-> IF Staged THEN PlaceTarget(ev, exited, owned, "TP2") ELSE {}]
  <2> HIDE DEF None
  <2> QED
    BY <1>0, <1>2, <1>8 DEF Targets
<1> QED
  BY <1>8, <1>9

\* What the open orders of a role can take yet, and what is added to one of them.
Asks(ev, role, id, more) ==
  [t \in TargetIds |-> (IF t \in LiveTargets(ev, role) THEN Outstanding(ev, t) ELSE 0)
                         + (IF t = id THEN more ELSE 0)]

\* What is asked for in a role adds up to no more than what is open and what is added.
LEMMA AsksAddUp ==
  ASSUME NEW ev, \A t \in TargetIds : Outstanding(ev, t) \in Nat,
         NEW role, NEW id, NEW more \in Nat
  PROVE  /\ \A t \in TargetIds : Asks(ev, role, id, more)[t] \in Nat
         /\ OutstandingOf(ev, LiveTargets(ev, role)) \in Nat
         /\ Lots(Asks(ev, role, id, more), TargetIds)
              <= OutstandingOf(ev, LiveTargets(ev, role)) + more
<1> DEFINE live == LiveTargets(ev, role)
           f == [t \in live |-> Outstanding(ev, t)]
           open == [t \in TargetIds |-> IF t \in live THEN Outstanding(ev, t) ELSE 0]
           added == [t \in TargetIds |-> IF t = id THEN more ELSE 0]
           one == {t \in TargetIds : t = id}
           all == Asks(ev, role, id, more)
<1>1. live \in SUBSET TargetIds /\ IsFiniteSet(live) /\ IsFiniteSet(TargetIds)
  <2>1. live \in SUBSET TargetIds
    BY DEF LiveTargets
  <2> QED
    BY <2>1, TargetsFinite, FS_Subset
<1>2. \A t \in TargetIds : /\ open[t] \in Nat /\ added[t] \in Nat /\ all[t] = open[t] + added[t]
                           /\ all[t] \in Nat
  BY DEF Asks
<1>3. Lots(all, TargetIds) = Lots(open, TargetIds) + Lots(added, TargetIds)
  <2> HIDE DEF open, added, all
  <2> QED
    BY <1>1, <1>2, LotsAdd
<1>4. Lots(open, TargetIds) = OutstandingOf(ev, live) /\ OutstandingOf(ev, live) \in Nat
  <2>1. OutstandingOf(ev, live) = Lots(f, live) /\ Lots(f, live) \in Nat
    <3>1. \A t \in live : Outstanding(ev, t) \in Nat
      BY <1>1
    <3> HIDE DEF live
    <3> QED
      BY <1>1, <3>1, OutstandingIsUnits DEF Lots
  <2>2. (\A t \in live : open[t] = f[t]) /\ (\A t \in TargetIds \ live : open[t] = 0)
    BY <1>1
  <2>3. Lots(open, TargetIds) = Lots(f, live)
    <3> HIDE DEF live, open, f
    <3> QED
      BY <1>1, <2>2, LotsOfPart
  <2> QED
    BY <2>1, <2>3
<1>5. Lots(added, TargetIds) \in Nat /\ Lots(added, TargetIds) <= more
  <2>1. Lots(added, TargetIds) = Lots(added, one)
    <3>1. one \in SUBSET TargetIds /\ \A t \in TargetIds \ one : added[t] = 0
      OBVIOUS
    <3> HIDE DEF added, one
    <3> QED
      BY <3>1, LotsOfPart
  <2>2. CASE id \in TargetIds
    <3>1. one = {id} /\ added[id] = more
      BY <2>2
    <3> HIDE DEF added, one
    <3>2. Lots(added, {id}) = more
      BY <3>1, LotsOfOne
    <3> QED
      BY <2>1, <3>1, <3>2
  <2>3. CASE id \notin TargetIds
    <3>1. one = {}
      BY <2>3
    <3>2. Lots(added, {}) = 0
      BY NoUnits, FS_EmptySet DEF Lots
    <3> HIDE DEF added, one
    <3> QED
      BY <2>1, <3>1, <3>2
  <2> QED
    BY <2>2, <2>3
<1>6. Lots(open, TargetIds) \in Nat
  BY <1>4
<1> HIDE DEF live, open, added, all
<1> QED
  BY <1>2, <1>3, <1>4, <1>5 DEF live, all

\* What the journals know of a target when a decision finds none in doubt.
LEMMA TargetsKnown ==
  ASSUME RefinementInv, Journals, Sizes, Deciding,
         \A x \in ExitIds : Evidence[x].status # "UNKNOWN", NEW t \in TargetIds
  PROVE  /\ Evidence[t].filled \in Nat /\ Outstanding(Evidence, t) \in Nat
         /\ ~OnWire("PLACE", t)
         /\ \/ Taken(t) <= Evidence[t].filled
            \/ /\ t \in LiveTargets(Evidence, Role(t)) /\ Role(t) \in {"TP1", "TP2"}
               /\ Taken(t) <= Evidence[t].filled + Outstanding(Evidence, t)
<1> DEFINE c == <<"PLACE", t>>
<1>0. /\ Inv /\ Agreement /\ t \in Ids /\ t \in ExitIds /\ c \in Commands /\ c[2] = t
      /\ Evidence[t] = rec[c]
      /\ RecordIsObserved /\ Sized /\ TargetsPlain /\ QuantitiesAgree
  BY TargetFacts DEF RefinementInv, Journals, Sizes, Evidence
<1>1. rec[c] \in Records /\ book[t] \in Records
  BY <1>0, InvParts
<1>2. /\ rec[c].filled \in Nat /\ rec[c].quantity \in Nat /\ rec[c].filled <= rec[c].quantity
      /\ book[t].filled \in Nat /\ book[t].quantity \in Nat /\ book[t].filled <= book[t].quantity
  BY <1>0, <1>1 DEF Sized, Records, Quantities
<1>3. rec[c].status \notin {"UNKNOWN", "SUBMITTING", "CONDITIONAL_NEW", "TRIGGERED"}
  <2>1. rec[c].status # "SUBMITTING"
    BY <1>0 DEF Sizes, AllLookedFor, Deciding
  <2> QED
    BY <1>0, <2>1 DEF TargetsPlain
<1>4. ~OnWire("PLACE", t)
  <2> SUFFICES ASSUME NEW m \in wire, m.op = "PLACE", m.id = t PROVE FALSE
    BY DEF OnWire
  <2>1. c \in sent /\ book[t].status = "none"
    BY <1>0 DEF Agreement, WireSent, WireNew, Command
  <2>2. rec[c].status # "none"
    BY <1>0, <2>1 DEF Inv, SentIsRecorded, Recorded
  <2> QED
    BY <1>0, <1>3, <2>1, <2>2 DEF RecordIsObserved
<1>5. CASE rec[c].status = "none"
  <2>1. book[t].status = "none"
    BY <1>0, <1>5 DEF Inv, SentIsRecorded, Recorded, Agreement, BookSent
  <2>2. Taken(t) = 0
    BY <1>0, <2>1 DEF Inv, NoFillsBeforeOrder, Taken
  <2> QED
    BY <1>0, <1>2, <1>4, <2>2 DEF Outstanding
<1>6. CASE rec[c].status \in Terminal
  <2>1. rec[c] = book[t]
    BY <1>0, <1>6 DEF Inv, EvidenceIsConservative, Recorded, Terminal
  <2>2. Taken(t) = rec[c].filled
    BY <1>6, <2>1 DEF Taken, Terminal
  <2> QED
    BY <1>0, <1>2, <1>4, <2>2 DEF Outstanding
<1>7. CASE rec[c].status = "NEW"
  <2>1. rec[c].quantity = book[t].quantity
    BY <1>0, <1>7 DEF RecordIsObserved, QuantitiesAgree
  <2>2. t \in LiveTargets(Evidence, Role(t)) /\ Role(t) \in {"TP1", "TP2"}
    BY <1>0, <1>7 DEF LiveTargets, Active, TargetIds, TargetRoles, Role
  <2>3. Taken(t) <= book[t].quantity
    BY <1>2 DEF Taken
  <2> QED
    BY <1>0, <1>2, <1>4, <2>1, <2>2, <2>3 DEF Outstanding
<1> QED
  BY <1>1, <1>3, <1>5, <1>6, <1>7 DEF Records, Statuses, Active

\* A decision asks for no more than is owned: every target it counts on is open, so
\* that what it adds makes up the share of its role, and the shares what is owned.
LEMMA ProtectClaims ==
  ASSUME RefinementInv, Inv', Journals, Sizes, BookGrows, Protect, ClaimsFit
  PROVE  ClaimsFit'
<1>0. /\ Inv /\ UNCHANGED <<book, wire>> /\ Deciding /\ Recorded(EntryPlace)
  BY DEF RefinementInv, Protect
<1>1. PICK exited \in Quantities, closedBelow \in BOOLEAN :
        LET owned   == Evidence[EntryId].filled - exited
            invalid == Staged /\ snap.position # 0 /\ (latched \/ closedBelow)
        IN  /\ exited = ExitFilled(Evidence)
            /\ snap.position = owned
            /\ batch' = ProtectiveActions(Evidence, exited, owned, snap.daily \/ risk,
                          invalid, "expired" \in flags, "holdOver" \in flags)
  BY DEF Protect
<1> DEFINE ev == Evidence
           bought == Evidence[EntryId].filled
           owned == bought - exited
<1>2. CASE ~\E a \in Planned' : a.op = "PLACE" /\ a.id \in TargetIds
  <2>1. \A claim : Respected(claim) => Respected(claim)'
    BY <1>0, <1>2 DEF Respected, Taken
  <2> QED
    BY <1>0, <2>1, ClaimServes
<1>3. CASE \E a \in Planned' : a.op = "PLACE" /\ a.id \in TargetIds
  <2>1. /\ owned \in Nat /\ bought \in Nat /\ exited \in Nat /\ exited = ExitFilled(ev)
        /\ bought <= book[EntryId].filled /\ book[EntryId].filled \in Nat
    <3>1. <<"PLACE", EntryId>> = EntryPlace /\ EntryPlace \in Commands /\ EntryPlace[2] = EntryId
          /\ ev[EntryId] = rec[EntryPlace]
      BY IdFacts, PlaceCommands DEF EntryPlace, Evidence
    <3>2. rec[EntryPlace] \in Records /\ book[EntryId] \in Records
      BY <1>0, <3>1, IdFacts, InvParts
    <3>3. rec[EntryPlace].filled <= book[EntryId].filled
      BY <1>0, <3>1 DEF Inv, EvidenceIsConservative
    <3>4. owned \in Nat
      BY <1>0, <1>1, InvParts DEF Control, Quantities
    <3> QED
      BY <1>1, <3>1, <3>2, <3>3, <3>4 DEF Records, Quantities
  <2>2. /\ \A x \in ExitIds : ev[x].status # "UNKNOWN"
        /\ \A role \in {"TP1", "TP2"} :
             ~(OutstandingOf(ev, LiveTargets(ev, role)) > Desired(ev, owned, role))
        /\ \A a \in Planned' :
             \E role \in {"TP1", "TP2"} : a \in PlaceTarget(ev, exited, owned, role)
    <3> HIDE DEF owned
    <3>1. \E a \in batch'.first \cup batch'.next : a.op = "PLACE" /\ a.id \in TargetIds
      BY <1>3 DEF Planned
    <3>2. batch' = ProtectiveActions(Evidence, exited, owned, snap.daily \/ risk,
                     Staged /\ snap.position # 0 /\ (latched \/ closedBelow),
                     "expired" \in flags, "holdOver" \in flags)
      BY <1>1 DEF owned
    <3> QED
      BY <3>1, <3>2, DecisionTargets DEF Planned
  <2>3. \A t \in TargetIds :
          /\ ev[t].filled \in Nat /\ Outstanding(ev, t) \in Nat
          /\ ~OnWire("PLACE", t)
          /\ \/ Taken(t) <= ev[t].filled
             \/ /\ t \in LiveTargets(ev, Role(t)) /\ Role(t) \in {"TP1", "TP2"}
                /\ Taken(t) <= ev[t].filled + Outstanding(ev, t)
    BY <1>0, <2>2, TargetsKnown
  <2> DEFINE open(role) == OutstandingOf(ev, LiveTargets(ev, role))
             want(role) == Desired(ev, owned, role)
             lack(role) == want(role) - open(role)
             id(role) == <<role, bought, exited>>
             ask(role) == Asks(ev, role, id(role), lack(role))
             filled == [t \in TargetIds |-> ev[t].filled]
             asked == [t \in TargetIds |-> ask("TP1")[t] + ask("TP2")[t]]
             claim == [t \in TargetIds |-> filled[t] + asked[t]]
  <2>4. /\ want("TP1") \in Nat /\ want("TP2") \in Nat
        /\ want("TP1") + want("TP2") = owned
    BY <2>1, <2>3, DesiredIsShare DEF Desired
  <2>5. ASSUME NEW role \in {"TP1", "TP2"}
        PROVE  /\ lack(role) \in Nat
               /\ \A t \in TargetIds : ask(role)[t] \in Nat
               /\ Lots(ask(role), TargetIds) \in Nat
               /\ Lots(ask(role), TargetIds) <= want(role)
    <3>1. open(role) \in Nat
      <4>1. \A t \in TargetIds : Outstanding(ev, t) \in Nat
        BY <2>3
      <4> QED
        BY <4>1, AsksAddUp
    <3>2. want(role) \in Nat /\ ~(open(role) > want(role))
      BY <2>2, <2>4
    <3>3. lack(role) \in Nat
      BY <3>1, <3>2
    <3>4. /\ \A t \in TargetIds : ask(role)[t] \in Nat
          /\ Lots(ask(role), TargetIds) <= open(role) + lack(role)
      <4>1. \A t \in TargetIds : Outstanding(ev, t) \in Nat
        BY <2>3
      <4> QED
        BY <3>3, <4>1, AsksAddUp
    <3>5. Lots(ask(role), TargetIds) \in Nat
      BY <3>4, TargetsFinite, LotsType
    <3> QED
      BY <3>1, <3>2, <3>3, <3>4, <3>5
  <2>6. \A t \in TargetIds : /\ filled[t] \in Nat /\ asked[t] \in Nat
                             /\ ask("TP1")[t] \in Nat /\ ask("TP2")[t] \in Nat
                             /\ asked[t] = ask("TP1")[t] + ask("TP2")[t]
                             /\ claim[t] = filled[t] + asked[t]
                             /\ claim[t] \in Nat
    BY <2>3, <2>5
  <2>7. claim \in [TargetIds -> Nat]
    BY <2>6
  <2>8. Lots(asked, TargetIds) \in Nat /\ Lots(asked, TargetIds) <= owned
    <3>1. Lots(asked, TargetIds) = Lots(ask("TP1"), TargetIds) + Lots(ask("TP2"), TargetIds)
      <4> HIDE DEF asked, ask
      <4> QED
        BY <2>6, TargetsFinite, LotsAdd
    <3> HIDE DEF asked, ask, want
    <3> QED
      BY <2>1, <2>4, <2>5, <3>1
  <2>9. Lots(filled, TargetIds) \in Nat /\ Lots(filled, TargetIds) <= exited
    <3> DEFINE all == [x \in ExitIds |-> ev[x].filled]
               some == [x \in ExitIds |-> IF x \in TargetIds THEN ev[x].filled ELSE 0]
    <3>1. \A x \in ExitIds : all[x] \in Nat /\ some[x] \in Nat /\ some[x] <= all[x]
      <4>1. \A x \in ExitIds : /\ x \in Ids /\ <<"PLACE", x>> \in Commands
                               /\ ev[x] = rec[<<"PLACE", x>>]
        BY IdFacts, PlaceCommands DEF Evidence
      <4>2. \A x \in ExitIds : ev[x] \in Records
        BY <1>0, <4>1, InvParts
      <4> QED
        BY <4>2 DEF Records, Quantities
    <3>2. TargetIds \in SUBSET ExitIds
      BY DEF ExitIds
    <3>3. Lots(some, ExitIds) = Lots(filled, TargetIds)
      <4>1. /\ \A x \in TargetIds : some[x] = filled[x]
            /\ \A x \in ExitIds \ TargetIds : some[x] = 0
        BY <3>2
      <4> HIDE DEF some, filled
      <4> QED
        BY <3>2, <4>1, LotsOfPart
    <3>4. Lots(some, ExitIds) <= Lots(all, ExitIds)
      <4> HIDE DEF some, all
      <4> QED
        BY <3>1, ExitsFinite, LotsGrow
    <3>5. ExitFilled(ev) = Lots(all, ExitIds)
      BY <3>1, ExitsFinite, FilledByIsLots DEF ExitFilled
    <3>6. Lots(filled, TargetIds) \in Nat
      <4> HIDE DEF filled
      <4> QED
        BY <2>6, TargetsFinite, LotsType
    <3> QED
      BY <2>1, <3>3, <3>4, <3>5, <3>6
  <2>10. Lots(claim, TargetIds) <= book[EntryId].filled
    <3>1. Lots(claim, TargetIds) = Lots(filled, TargetIds) + Lots(asked, TargetIds)
      <4> HIDE DEF claim, filled, asked
      <4> QED
        BY <2>6, TargetsFinite, LotsAdd
    <3> HIDE DEF claim, filled, asked
    <3> QED
      BY <2>1, <2>8, <2>9, <3>1
  <2>11. PICK share \in [TargetIds -> Nat] : share = claim
    BY <2>7
  <2>12. Respected(share)'
    <3>1. ASSUME NEW a \in (Planned \cup wire)', a.op = "PLACE", a.id \in TargetIds
          PROVE  a.quantity <= claim[a.id]
      <4>1. a \notin wire
        BY <2>3, <3>1 DEF OnWire
      <4>2. PICK role \in {"TP1", "TP2"} : a \in PlaceTarget(ev, exited, owned, role)
        BY <1>0, <2>2, <3>1, <4>1
      <4>3. a.id = id(role) /\ a.quantity \in Nat /\ a.quantity + open(role) = want(role)
        BY <4>2, PlanQuantityAssumption DEF PlaceTarget, Placements
      <4>4. open(role) \in Nat
        <5>1. \A t \in TargetIds : Outstanding(ev, t) \in Nat
          BY <2>3
        <5> QED
          BY <5>1, AsksAddUp
      <4>5. lack(role) = a.quantity
        BY <2>4, <4>3, <4>4
      <4>6. ask(role)[a.id] >= a.quantity
        <5>1. a.id \in LiveTargets(ev, role) => Outstanding(ev, a.id) \in Nat
          BY <2>3, <3>1
        <5> QED
          BY <3>1, <4>3, <4>5, <5>1 DEF Asks
      <4>7. claim[a.id] >= ask(role)[a.id]
        BY <2>6, <3>1
      <4>8. /\ claim[a.id] \in Nat /\ ask(role)[a.id] \in Nat
        BY <2>6, <3>1
      <4> HIDE DEF claim, ask
      <4> QED
        BY <4>3, <4>6, <4>7, <4>8
    <3>2. ASSUME NEW t \in TargetIds PROVE Taken(t) <= claim[t]
      <4>1. CASE Taken(t) <= ev[t].filled
        <5>1. Taken(t) \in Nat /\ ev[t].filled = filled[t] /\ filled[t] \in Nat
              /\ asked[t] \in Nat /\ claim[t] = filled[t] + asked[t]
          BY <1>0, <2>6, TakenType
        <5> QED
          BY <4>1, <5>1
      <4>2. CASE /\ t \in LiveTargets(ev, Role(t)) /\ Role(t) \in {"TP1", "TP2"}
                 /\ Taken(t) <= ev[t].filled + Outstanding(ev, t)
        <5>1. /\ Taken(t) \in Nat /\ ev[t].filled = filled[t] /\ filled[t] \in Nat
              /\ asked[t] = ask("TP1")[t] + ask("TP2")[t] /\ claim[t] = filled[t] + asked[t]
              /\ ask("TP1")[t] \in Nat /\ ask("TP2")[t] \in Nat
              /\ Outstanding(ev, t) \in Nat
          BY <1>0, <2>3, <2>6, TakenType
        <5>2. ask(Role(t))[t] >= Outstanding(ev, t)
          BY <2>5, <4>2, <5>1 DEF Asks
        <5>3. ask("TP1")[t] >= Outstanding(ev, t) \/ ask("TP2")[t] >= Outstanding(ev, t)
          BY <4>2, <5>2
        <5> HIDE DEF claim, asked, ask, filled
        <5> QED
          BY <4>2, <5>1, <5>3
      <4> QED
        BY <2>3, <4>1, <4>2
    <3>3. \A t \in TargetIds : Taken(t)' = Taken(t)
      BY <1>0 DEF Taken
    <3>4. \A a \in (Planned \cup wire)' : a.op = "PLACE" /\ a.id \in TargetIds
                                               => a.quantity <= share[a.id]
      <4> HIDE DEF claim
      <4> QED
        BY <2>11, <3>1
    <3>5. \A t \in TargetIds : Taken(t)' <= share[t]
      <4> HIDE DEF claim
      <4> QED
        BY <2>11, <3>2, <3>3
    <3> QED
      BY <3>4, <3>5 DEF Respected
  <2>13. Lots(share, TargetIds) <= book'[EntryId].filled
    <3> HIDE DEF claim
    <3> QED
      BY <1>0, <2>10, <2>11
  <2> HIDE DEF claim
  <2> QED
    BY <2>11, <2>12, <2>13 DEF ClaimsFit
<1> QED
  BY <1>2, <1>3

--------------------------------------------------------------------------------
(* The theorems.                                                           *)

\* Before anything was planned or sent there is nothing to protect or close.
LEMMA ProtectionInit == Init => ProtectionInv
<1> SUFFICES ASSUME Init PROVE ProtectionInv
  OBVIOUS
<1>1. RefinementInv
  BY RefinementInit
<1>2. /\ wire = {} /\ position = 0 /\ pc = "idle" /\ Planned = {}
      /\ \A id \in Ids : book[id] = NoRecord
      /\ \A c \in Commands : rec[c] = NoRecord /\ ~Recorded(c)
  BY DEF Init, VenueInit, Recorded, NoRecord, Planned, NoActions
<1>3. \A id \in Ids : <<"CANCEL", id>> \in Commands
  BY DEF Commands
<1>4. Journals
  BY <1>2, <1>3, IdFacts
  DEF Journals, BookIsPlain, RecordIsObserved, CancelsKnown, Unentered, NoRecord
<1>5. Places
  BY <1>2 DEF Places, PlannedInPass, StopAnswered, LookedFor, Admitting
<1>6. StopsKept /\ OneClosure /\ Prearmed
  BY <1>2, IdFacts
  DEF StopsKept, OneClosure, Closures, Closing, OnWire, Prearmed, EntryCanFill, NoRecord
<1> QED
  BY <1>1, <1>4, <1>5, <1>6 DEF ProtectionInv, Protected

\* Protected is inductive beside what the refinement rests on.
LEMMA ProtectionNext == ProtectionInv /\ [Next]_vars => ProtectionInv'
<1> SUFFICES ASSUME ProtectionInv, [Next]_vars PROVE ProtectionInv'
  OBVIOUS
<1>1. /\ RefinementInv /\ Journals /\ Places /\ StopsKept /\ OneClosure /\ Prearmed
      /\ Kinds
  BY StepKinds DEF ProtectionInv, Protected
<1>2. RefinementInv'
  BY <1>1, RefinementNext
<1>3. Journals' /\ BookGrows
  BY <1>1, JournalsKeep
<1>4. Places'
  BY <1>1, <1>3, PlacesKeep
<1>5. StopsKept' /\ OneClosure' /\ Prearmed'
  BY <1>1, StopsKeep, OneClosureKeeps, PrearmedKeeps
<1> QED
  BY <1>2, <1>3, <1>4, <1>5 DEF ProtectionInv, Protected

\* What the theorems below are read off.
LEMMA ProtectionHolds == Spec => []ProtectionInv
BY ProtectionInit, ProtectionNext, PTL DEF Spec

\* The coordinator never asks the exchange to cancel a stop while there is a position
\* or an entry that could still open one, whatever it remembers, misses or repeats.
THEOREM StopsAreKept == Spec => []StopsIntactUntilFlat
<1>1. ProtectionInv => StopsIntactUntilFlat
  BY DEF ProtectionInv, Protected, StopsKept, Flat, StopsIntactUntilFlat, OnWire
<1> QED
  BY <1>1, ProtectionHolds, PTL

\* At most one market closure is travelling or open, however often the coordinator
\* decides to flatten, and whatever became of the closures before.
THEOREM FlattensOnce == Spec => []FlattenNeverDuplicated
<1>1. ProtectionInv => FlattenNeverDuplicated
  <2> SUFFICES ASSUME ProtectionInv PROVE FlattenNeverDuplicated
    OBVIOUS
  <2> DEFINE working == {f \in FlattenIds : book[f].status = "NEW" \/ OnWire("PLACE", f)}
  <2>1. \A f, g \in working : f = g
    BY DEF ProtectionInv, Protected, OneClosure, Closing
  <2>2. Cardinality(working) <= 1
    <3>1. CASE working = {}
      BY <3>1, FS_EmptySet
    <3>2. CASE working # {}
      <4>1. PICK f : working = {f}
        BY <2>1, <3>2
      <4>2. Cardinality({f}) = 1
        BY FS_Singleton
      <4> HIDE DEF working
      <4> QED
        BY <4>1, <4>2
    <3> QED
      BY <3>1, <3>2
  <2> QED
    BY <2>2 DEF FlattenNeverDuplicated
<1> QED
  BY <1>1, ProtectionHolds, PTL

\* Whenever there is a position, the stops at the exchange cover all of it, unless the
\* exchange itself has triggered or ended a stop: bracketed admission arms the whole
\* plan before its entry, and nothing takes that stop away before the position is flat.
THEOREM PositionsAreCovered == Spec => []PositionCovered
<1>1. ProtectionInv => PositionCovered
  <2> SUFFICES ASSUME ProtectionInv, position > 0,
                      \A s \in StopIds : book[s].status \notin
                        {"TRIGGERED", "NEW", "FILLED", "EXPIRED", "REJECTED"}
               PROVE  StopCoverage(book) >= position
    BY DEF PositionCovered
  <2>0. /\ Inv /\ book \in [Ids -> Records] /\ position \in Quantities
        /\ PrearmId \in StopIds /\ PlanQuantity \in Nat /\ StopIds \subseteq Ids
        /\ BookIsPlain
    BY InvParts, IdFacts DEF ProtectionInv, RefinementInv, Protected, Journals
  <2>1. book[PrearmId].status = "CONDITIONAL_NEW" /\ book[PrearmId].quantity = PlanQuantity
    BY <2>0 DEF ProtectionInv, Protected, Prearmed, Shielded
  <2>2. \A s \in LiveStops(book) : Outstanding(book, s) = book[s].quantity
                                   /\ Outstanding(book, s) \in Nat
    BY <2>0 DEF LiveStops, Outstanding, BookIsPlain, Records, Quantities
  <2>3. IsFiniteSet(LiveStops(book))
    <3>1. LiveStops(book) \subseteq ExitIds
      BY DEF LiveStops, ExitIds
    <3> QED
      BY <3>1, ExitsFinite, FS_Subset
  <2>4. PrearmId \in LiveStops(book)
    BY <2>0, <2>1 DEF LiveStops
  <2>5. StopCoverage(book) >= Outstanding(book, PrearmId)
    BY <2>2, <2>3, <2>4, OutstandingAmong DEF StopCoverage
  <2>6. StopCoverage(book) >= PlanQuantity
    BY <2>1, <2>2, <2>4, <2>5
  <2>7. StopCoverage(book) \in Nat
    BY <2>2, <2>3, OutstandingIsUnits DEF StopCoverage
  <2> QED
    BY <2>0, <2>6, <2>7 DEF Quantities
<1> QED
  BY <1>1, ProtectionHolds, PTL

\* Before anything was prepared there is no exposure to own.
LEMMA OwnedAloneInit == Init => OwnedAlone
<1> SUFFICES ASSUME Init PROVE OwnedAlone
  OBVIOUS
<1>1. wire = {} /\ position = 0 /\ pc = "idle" /\ trade = "none" /\ book[EntryId] = NoRecord
  BY IdFacts DEF Init, VenueInit
<1> QED
  BY <1>1 DEF OwnedAlone, Flat, EntryCanFill, OnWire, NoRecord

\* A crash that has not happened has cut nothing off.
LEMMA NoCrashNoCut ==
  ASSUME ProtectionInv, [Next]_vars, crashes' = 0 PROVE crashes = 0 /\ ~CutOff
<1>0. Inv /\ Control
  BY InvParts DEF ProtectionInv, Protected, RefinementInv
<1>1. CASE Crash
  <2>1. crashes' = crashes + 1 /\ crashes \in Nat
    BY <1>0, <1>1, ConstantTypes DEF Crash, Control
  <2> QED
    BY <2>1
<1>2. CASE ~Crash
  <2>1. UNCHANGED crashes
    BY <1>2
    DEF Next, Cycle, RefreshAccount, ReuseSnapshot, StartCycle, SnapshotTooOld, Reconcile,
        QueryAnswered, QueryFails, QuerySkipped, NothingOwned, PreparedOnly, Protect,
        Unreconciled, ExecuteAction, ReuseRecord, ActionsDone, Respond, RespondError, Timeout,
        EndCycle, Admission, BeginAdmission, SymbolIsFlat, SymbolIsOrderless, Prepare,
        Prearm, PrearmRecorded, ConfirmProtection, SubmitEntry, AbandonAdmission, Exchange,
        LateRequest, LostRequest, NewDay, Happens, vars
  <2> QED
    BY <1>2, <2>1 DEF CutOff
<1> QED
  BY <1>1, <1>2

\* A position or a working entry belongs to a trade that is open: the ownership that
\* is durable before the bracket is not written off before the exposure is over.  For
\* any number of crashes, unless one falls between the registration of a trade and
\* the record of its stop: then the next cycle writes that trade off, and a later
\* admission enters it all the same.
THEOREM ExposureOwned == Spec /\ [][~CutOff]_vars => []ExposureIsOwned
<1>1. Init => ProtectionInv /\ OwnedAlone
  BY ProtectionInit, OwnedAloneInit
<1>2. ProtectionInv /\ OwnedAlone /\ [Next]_vars /\ [~CutOff]_vars
        => ProtectionInv' /\ OwnedAlone'
  <2>1. UNCHANGED vars => ~CutOff
    BY DEF vars, volatile, CutOff, Crash, GiveUp
  <2> QED
    BY <2>1, ProtectionNext, OwnedAloneKeeps
<1>3. ProtectionInv /\ OwnedAlone => ExposureIsOwned
  BY DEF OwnedAlone, Flat, ExposureIsOwned
<1> QED
  BY <1>1, <1>2, <1>3, PTL DEF Spec

\* As long as the process has not crashed, exposure belongs to an open trade.
THEOREM ExposureOwnedAtFirst == Spec => [](crashes = 0 => ExposureIsOwned)
<1>1. Init => ProtectionInv /\ (crashes = 0 => OwnedAlone)
  BY ProtectionInit, OwnedAloneInit
<1>2. ProtectionInv /\ (crashes = 0 => OwnedAlone) /\ [Next]_vars
        => ProtectionInv' /\ (crashes = 0 => OwnedAlone)'
  BY ProtectionNext, OwnedAloneKeeps, NoCrashNoCut
<1>3. ProtectionInv /\ (crashes = 0 => OwnedAlone) => (crashes = 0 => ExposureIsOwned)
  BY DEF OwnedAlone, Flat, ExposureIsOwned
<1> QED
  BY <1>1, <1>2, <1>3, PTL DEF Spec

--------------------------------------------------------------------------------
(* What the targets have and ask for is within what was bought.            *)

TargetInv == ProtectionInv /\ Sizes /\ ClaimsFit

\* Before anything was planned nothing is claimed.
LEMMA TargetInit == Init => TargetInv
<1> SUFFICES ASSUME Init PROVE TargetInv
  OBVIOUS
<1>1. ProtectionInv
  BY ProtectionInit
<1>2. /\ wire = {} /\ pc = "idle" /\ Planned = {}
      /\ \A id \in Ids : book[id] = NoRecord
      /\ \A c \in Commands : rec[c] = NoRecord
  BY DEF Init, VenueInit, Planned, NoActions
<1>3. Sizes
  BY <1>2, TargetFacts
  DEF Sizes, Sized, TargetsPlain, QuantitiesAgree, AllLookedFor, NoRecord
<1>4. ClaimsFit
  <2> DEFINE claim == [t \in TargetIds |-> 0]
  <2>1. Respected(claim)
    <3>1. \A t \in TargetIds : book[t].status = "none" /\ book[t].filled = 0
      <4>1. \A t \in TargetIds : book[t] = NoRecord
        BY <1>2, TargetFacts, Zenon
      <4>2. NoRecord.status = "none" /\ NoRecord.filled = 0
        BY DEF NoRecord
      <4> QED
        BY <4>1, <4>2
    <3>2. \A t \in TargetIds : Taken(t) = 0
      BY <3>1 DEF Taken
    <3> QED
      BY <1>2, <3>2 DEF Respected
  <2>2. Lots(claim, TargetIds) = 0
    <3>1. \A t \in TargetIds \ {} : claim[t] = 0
      OBVIOUS
    <3>2. {} \in SUBSET TargetIds
      OBVIOUS
    <3>3. Lots(claim, {}) = 0
      BY NoUnits, FS_EmptySet DEF Lots
    <3> HIDE DEF claim
    <3> QED
      BY <3>1, <3>2, <3>3, LotsOfPart
  <2>3. claim \in [TargetIds -> Nat] /\ book[EntryId].filled = 0
    BY <1>2, IdFacts DEF NoRecord
  <2> HIDE DEF claim
  <2>4. Lots(claim, TargetIds) <= book[EntryId].filled
    BY <2>2, <2>3
  <2> QED
    BY <2>1, <2>3, <2>4 DEF ClaimsFit
<1> QED
  BY <1>1, <1>3, <1>4 DEF TargetInv

\* The sizes of orders and the claims of the targets are inductive beside what
\* protects the position.
LEMMA TargetNext == TargetInv /\ [Next]_vars => TargetInv'
<1> SUFFICES ASSUME TargetInv, [Next]_vars PROVE TargetInv'
  OBVIOUS
<1>1. ProtectionInv /\ RefinementInv /\ Journals /\ Sizes /\ ClaimsFit /\ Kinds /\ BookGrows
  BY StepKinds, JournalsKeep DEF TargetInv, ProtectionInv, Protected
<1>2. ProtectionInv'
  BY <1>1, ProtectionNext
<1>3. RefinementInv' /\ Inv' /\ BookIsPlain'
  BY <1>2 DEF ProtectionInv, Protected, RefinementInv, Journals
<1>4. Sizes'
  BY <1>1, <1>3, SizedKeeps, QuantitiesKeep, LookedForKeeps DEF Sizes
<1>5. ClaimsFit'
  BY <1>1, <1>3, <1>4, OthersClaim, ProtectClaims DEF Sizes
<1> QED
  BY <1>2, <1>4, <1>5 DEF TargetInv

SolvesQuantities(sum, S) ==
  sum = [s \in SUBSET S |-> IF s = {} THEN 0
                            ELSE rec[<<"PLACE", Pick(s)>>].quantity + sum[s \ {Pick(s)}]]

\* A sum of recorded quantities is the number of lot steps asked for.
LEMMA QuantitiesAreLots ==
  ASSUME NEW S, IsFiniteSet(S), \A t \in S : rec[<<"PLACE", t>>].quantity \in Nat
  PROVE  MapThenSumSet(LAMBDA t : rec[<<"PLACE", t>>].quantity, S)
           = Lots([t \in S |-> rec[<<"PLACE", t>>].quantity], S)
<1> DEFINE f == [t \in S |-> rec[<<"PLACE", t>>].quantity]
           units == [s \in SUBSET S |-> Cardinality(Units(f, s))]
           sum == CHOOSE g : g = [s \in SUBSET S |->
                                    IF s = {} THEN 0
                                    ELSE rec[<<"PLACE", CHOOSE x \in s : TRUE>>].quantity
                                           + g[s \ {CHOOSE x \in s : TRUE}]]
<1>1. \A x \in S : f[x] \in Nat
  OBVIOUS
<1>2. SolvesSum(units, f, S)
  BY <1>1, UnitsSolve
<1>3. ASSUME NEW g
      PROVE  SolvesSum(g, f, S) <=> SolvesQuantities(g, S)
  <2>1. \A s \in SUBSET S : s # {} => f[Pick(s)] = rec[<<"PLACE", Pick(s)>>].quantity
    BY PickFacts
  <2>2. [s \in SUBSET S |-> IF s = {} THEN 0 ELSE f[Pick(s)] + g[s \ {Pick(s)}]]
          = [s \in SUBSET S |->
               IF s = {} THEN 0 ELSE rec[<<"PLACE", Pick(s)>>].quantity + g[s \ {Pick(s)}]]
    BY <2>1
  <2> QED
    BY <2>2 DEF SolvesSum, SolvesQuantities
<1>4. SolvesQuantities(units, S)
  BY <1>2, <1>3
<1>5. SolvesQuantities(sum, S)
  BY <1>4, Zenon DEF SolvesQuantities, Pick
<1>6. sum[S] = units[S]
  BY <1>1, <1>2, <1>3, <1>5, SolutionsAgree
<1>7. MapThenSumSet(LAMBDA t : rec[<<"PLACE", t>>].quantity, S) = sum[S]
  BY DEF MapThenSumSet, MapThenFoldSet
<1> QED
  BY <1>6, <1>7 DEF Lots

\* The two targets together never ask for more than the entry has bought: a target is
\* asked for once, travels or is open or has filled, and has a claim to all of it.
THEOREM TargetsFit == Spec => []TargetsWithinFill
<1>1. TargetInv => TargetsWithinFill
  <2> SUFFICES ASSUME TargetInv PROVE TargetsWithinFill
    OBVIOUS
  <2> DEFINE open == {t \in TargetIds : book[t].status = "NEW"}
             travelling == {t \in TargetIds : OnWire("PLACE", t)}
             filled == [t \in TargetIds |-> book[t].filled]
             rest == [t \in open |-> Outstanding(book, t)]
             left == [t \in TargetIds |-> IF t \in open THEN Outstanding(book, t) ELSE 0]
             asked == [t \in travelling |-> rec[<<"PLACE", t>>].quantity]
             due == [t \in TargetIds |->
                       IF t \in travelling THEN rec[<<"PLACE", t>>].quantity ELSE 0]
             had == [t \in TargetIds |-> filled[t] + left[t]]
             all == [t \in TargetIds |-> had[t] + due[t]]
  <2>0. /\ Inv /\ Agreement /\ Sized /\ QuantitiesAgree
        /\ book \in [Ids -> Records] /\ rec \in [Commands -> Records]
    BY InvParts DEF TargetInv, ProtectionInv, RefinementInv, Sizes
  <2>1. PICK claim \in [TargetIds -> Nat] :
          Respected(claim) /\ Lots(claim, TargetIds) <= book[EntryId].filled
    BY DEF TargetInv, ClaimsFit
  <2>2. \A t \in TargetIds :
          /\ t \in Ids /\ <<"PLACE", t>> \in Commands
          /\ book[t] \in Records /\ rec[<<"PLACE", t>>] \in Records
    BY <2>0, TargetFacts
  <2>3. ASSUME NEW t \in TargetIds
        PROVE  /\ filled[t] \in Nat /\ left[t] \in Nat /\ due[t] \in Nat
               /\ had[t] \in Nat /\ had[t] = filled[t] + left[t]
               /\ all[t] \in Nat /\ all[t] = had[t] + due[t]
               /\ claim[t] \in Nat
               /\ all[t] <= claim[t]
    <3>1. /\ book[t].filled \in Nat /\ book[t].quantity \in Nat
          /\ rec[<<"PLACE", t>>].quantity \in Nat
          /\ book[t].filled <= book[t].quantity
          /\ claim[t] \in Nat /\ Taken(t) <= claim[t]
      BY <2>0, <2>1, <2>2 DEF Sized, Respected, Records, Quantities
    <3>2. CASE t \in travelling
      <4>1. PICK m \in wire : m.op = "PLACE" /\ m.id = t
        BY <3>2 DEF OnWire
      <4>2. /\ book[t].status = "none" /\ rec[<<"PLACE", t>>].quantity = m.quantity
            /\ m.quantity <= claim[t]
        BY <2>0, <2>1, <4>1 DEF Agreement, WireNew, QuantitiesAgree, Command, Respected
      <4>3. book[t].filled = 0 /\ t \notin open
        BY <2>0, <2>2, <4>2 DEF Inv, NoFillsBeforeOrder
      <4> QED
        BY <3>1, <3>2, <4>2, <4>3
    <3>3. CASE t \notin travelling
      <4>1. due[t] = 0
        BY <3>3
      <4>2. CASE t \in open
        <5>1. left[t] = book[t].quantity - book[t].filled /\ Taken(t) = book[t].quantity
          BY <4>2 DEF Taken, Outstanding
        <5> QED
          BY <3>1, <4>1, <5>1
      <4>3. CASE t \notin open
        <5>1. left[t] = 0 /\ Taken(t) = book[t].filled
          BY <4>3 DEF Taken
        <5> QED
          BY <3>1, <4>1, <5>1
      <4> QED
        BY <4>2, <4>3
    <3> QED
      BY <3>2, <3>3
  <2>4. IsFiniteSet(TargetIds) /\ IsFiniteSet(open) /\ IsFiniteSet(travelling)
    BY TargetsFinite, FS_Subset
  <2>5. FilledBy(book, TargetIds) = Lots(filled, TargetIds)
    BY <2>3, <2>4, FilledByIsLots
  <2>6. OutstandingOf(book, open) = Lots(left, TargetIds)
    <3>1. \A t \in open : Outstanding(book, t) \in Nat
      BY <2>3
    <3>2. OutstandingOf(book, open) = Lots(rest, open)
      <4> HIDE DEF open
      <4> QED
        BY <2>4, <3>1, OutstandingIsUnits DEF Lots
    <3>3. /\ open \in SUBSET TargetIds /\ \A t \in open : left[t] = rest[t]
          /\ \A t \in TargetIds \ open : left[t] = 0
      OBVIOUS
    <3>4. Lots(left, TargetIds) = Lots(rest, open)
      <4> HIDE DEF open, left, rest
      <4> QED
        BY <3>3, LotsOfPart
    <3> QED
      BY <3>2, <3>4
  <2>7. MapThenSumSet(LAMBDA t : rec[<<"PLACE", t>>].quantity, travelling)
          = Lots(due, TargetIds)
    <3>1. \A t \in travelling : rec[<<"PLACE", t>>].quantity \in Nat
      BY <2>3
    <3>2. MapThenSumSet(LAMBDA t : rec[<<"PLACE", t>>].quantity, travelling)
            = Lots(asked, travelling)
      <4> HIDE DEF travelling
      <4> QED
        BY <2>4, <3>1, QuantitiesAreLots
    <3>3. /\ travelling \in SUBSET TargetIds /\ \A t \in travelling : due[t] = asked[t]
          /\ \A t \in TargetIds \ travelling : due[t] = 0
      OBVIOUS
    <3>4. Lots(due, TargetIds) = Lots(asked, travelling)
      <4> HIDE DEF travelling, due, asked
      <4> QED
        BY <3>3, LotsOfPart
    <3> QED
      BY <3>2, <3>4
  <2>8. /\ Lots(had, TargetIds) = Lots(filled, TargetIds) + Lots(left, TargetIds)
        /\ Lots(all, TargetIds) = Lots(had, TargetIds) + Lots(due, TargetIds)
        /\ Lots(all, TargetIds) <= Lots(claim, TargetIds)
        /\ Lots(all, TargetIds) \in Nat /\ Lots(claim, TargetIds) \in Nat
    <3> HIDE DEF open, travelling, filled, left, due, had, all
    <3>1. Lots(had, TargetIds) = Lots(filled, TargetIds) + Lots(left, TargetIds)
      BY <2>3, <2>4, LotsAdd
    <3>2. Lots(all, TargetIds) = Lots(had, TargetIds) + Lots(due, TargetIds)
      BY <2>3, <2>4, LotsAdd
    <3>3. Lots(all, TargetIds) <= Lots(claim, TargetIds)
      BY <2>3, <2>4, LotsGrow
    <3>4. Lots(all, TargetIds) \in Nat /\ Lots(claim, TargetIds) \in Nat
      BY <2>3, <2>4, LotsType
    <3> QED
      BY <3>1, <3>2, <3>3, <3>4
  <2>9. book[EntryId].filled \in Nat
    <3>1. book[EntryId] \in Records
      BY <2>0, IdFacts
    <3> QED
      BY <3>1 DEF Records, Quantities
  <2>10. FilledBy(book, TargetIds) + OutstandingOf(book, open)
           + MapThenSumSet(LAMBDA t : rec[<<"PLACE", t>>].quantity, travelling)
           <= book[EntryId].filled
    <3> DEFINE a == FilledBy(book, TargetIds)
               b == OutstandingOf(book, open)
               c == MapThenSumSet(LAMBDA t : rec[<<"PLACE", t>>].quantity, travelling)
    <3>1. a + b + c = Lots(all, TargetIds)
      <4> HIDE DEF a, b, c, all, had, filled, left, due
      <4> QED
        BY <2>5, <2>6, <2>7, <2>8 DEF a, b, c
    <3> HIDE DEF a, b, c, all
    <3>2. a + b + c <= book[EntryId].filled
      BY <2>1, <2>8, <2>9, <3>1
    <3> QED
      BY <3>2 DEF a, b, c
  <2> QED
    BY <2>10 DEF TargetsWithinFill
<1> QED
  BY <1>1, TargetInit, TargetNext, PTL DEF Spec

================================================================================
