------------------------- MODULE TradeLifecycleProofs -------------------------
(***************************************************************************)
(* Theorems about TradeLifecycle, for every plan quantity, exchange        *)
(* behaviour, set of events and number of faults and crashes.              *)
(*                                                                         *)
(* The inductive invariant is Inv.  Its parts beyond the checked           *)
(* invariants are: the position never exceeds what the entry bought        *)
(* (Bought, so that a fill cannot leave the plan's quantities), an order   *)
(* the exchange never saw has no fills (NoFillsBeforeOrder), whatever was  *)
(* sent is on record (SentIsRecorded, the write-ahead rule behind          *)
(* NeverResent), a command without a record carries no fills               *)
(* (UnrecordedIsEmpty), and an awaited command is still SUBMITTING         *)
(* (AwaitedIsSubmitting).                                                  *)
(***************************************************************************)
EXTENDS TradeLifecycle, TLAPS

Bought == position <= book[EntryId].filled

NoFillsBeforeOrder == \A id \in Ids : book[id].status = "none" => book[id].filled = 0

SentIsRecorded == \A c \in sent : Recorded(c)

UnrecordedIsEmpty == \A c \in Commands : Recorded(c) \/ rec[c].filled = 0

AwaitedIsSubmitting == pc = "await" => rec[Command(current)].status = "SUBMITTING"

BookInv == VenueTypeOK /\ Bought /\ NoFillsBeforeOrder

Inv ==
  /\ TypeOK
  /\ Bought
  /\ NoFillsBeforeOrder
  /\ SentIsRecorded
  /\ UnrecordedIsEmpty
  /\ NeverResent
  /\ AwaitedIsSubmitting
  /\ EvidenceIsConservative

\* What every step of the exchange does to its book: fills only grow, an order
\* never becomes unknown again, an order that is over stays as it is, and one that
\* waits no more for its trigger never does again.
BookGrows ==
  \A id \in Ids :
    /\ book'[id].filled >= book[id].filled
    /\ book[id].status # "none" => book'[id].status # "none"
    /\ book[id].status \in Terminal => book'[id] = book[id]
    /\ book[id].status \notin {"none", "CONDITIONAL_NEW"} =>
         book'[id].status # "CONDITIONAL_NEW"

--------------------------------------------------------------------------------
(* Ids, commands and actions.                                              *)

\* The ids the code derives from a plan are client ids of the model.
LEMMA IdFacts ==
  /\ EntryId \in Ids /\ PrearmId \in StopIds
  /\ StopIds \subseteq Ids /\ FlattenIds \subseteq Ids /\ TargetIds \subseteq Ids
  /\ ExitIds \subseteq Ids /\ EntryId \notin ExitIds
  /\ PlanQuantity \in 1..PlanQuantity /\ 0 \in Quantities
  /\ PlanQuantity \in Quantities /\ PlanQuantity \in Nat
<1>1. PlanQuantity \in Nat \ {0}
  BY PlanQuantityAssumption
<1>2. EntryId \notin StopIds /\ EntryId \notin TargetIds /\ EntryId \notin FlattenIds
  BY DEF EntryId, StopIds, TargetIds, FlattenIds, TargetRoles
<1>3. PrearmId \in StopIds
  BY <1>1 DEF PrearmId, StopIds, Quantities
<1> QED
  BY <1>1, <1>2, <1>3 DEF Ids, ExitIds, Quantities

\* The command of an action is a command, about the action's order.
LEMMA CommandFacts ==
  ASSUME NEW a \in Actions
  PROVE  /\ Command(a) \in Commands
         /\ Command(a)[1] = a.op
         /\ Command(a)[2] = a.id
         /\ a.id \in Ids
         /\ a.op \in {"PLACE", "CANCEL"}
         /\ a.quantity \in 1..PlanQuantity
BY DEF Actions, Commands, Command

\* A command names the order of one of the model's ids.
LEMMA CommandIds ==
  ASSUME NEW c \in Commands
  PROVE  c[2] \in Ids /\ <<"PLACE", c[2]>> \in Commands
BY DEF Commands

\* Cancellations and placements are actions, whatever quantities they come from.
LEMMA CancelsType ==
  ASSUME NEW ids \in SUBSET Ids
  PROVE  Cancels(ids) \subseteq Actions
BY IdFacts DEF Cancels, Actions

\* What Placements issues are actions on the id it is given.
LEMMA PlacementsType ==
  ASSUME NEW id \in Ids, NEW total, NEW already
  PROVE  Placements(id, total, already) \subseteq Actions
BY DEF Placements, Actions

--------------------------------------------------------------------------------
(* The decision issues well-formed batches.                                *)

\* A batch built from cancellations of known ids and placements is a batch.
LEMMA BatchType ==
  ASSUME NEW first \in SUBSET Actions, NEW next \in SUBSET Actions
  PROVE  [first |-> first, next |-> next] \in Batches
BY DEF Batches

\* What Cancels and Cancellation issue are actions.
LEMMA CancellationType ==
  ASSUME NEW ev
  PROVE  Cancellation(ev) \subseteq Actions
BY IdFacts, CancelsType DEF Cancellation

\* What the decision does while it owns nothing.
LEMMA WhenFlatType ==
  ASSUME NEW ev, NEW giveUp
  PROVE  WhenFlat(ev, giveUp) \in Batches
<1>1. Cancels({EntryId}) \subseteq Actions /\ Cancels(OpenExits(ev)) \subseteq Actions
  BY IdFacts, CancelsType DEF OpenExits
<1> QED
  BY <1>1 DEF WhenFlat, NoActions, Batches

\* The market closure of what is owned.
LEMMA ClosureType ==
  ASSUME NEW ev, NEW exited \in Quantities, NEW owned \in Quantities \ {0},
         ev[EntryId].filled \in Quantities,
         owned = ev[EntryId].filled - exited
  PROVE  Closure(ev, exited, owned) \in Batches
<1> DEFINE flatten == <<"FLATTEN", ev[EntryId].filled, exited>>
<1>1. flatten \in Ids
  <2>1. exited < ev[EntryId].filled
    BY PlanQuantityAssumption DEF Quantities
  <2>2. flatten \in FlattenIds
    BY <2>1 DEF FlattenIds
  <2> QED
    BY <2>2, IdFacts
<1>2. Placements(flatten, owned, 0) \subseteq Actions
  BY <1>1, PlacementsType
<1> QED
  BY <1>2, CancellationType, BatchType DEF Closure

\* New stops for what the accepted ones do not cover.
LEMMA RearmType ==
  ASSUME NEW ev, NEW owned, ev[EntryId].filled \in Quantities
  PROVE  Rearm(ev, owned) \in Batches
<1> DEFINE stop == <<"STOP", ev[EntryId].filled, 0>>
<1>1. stop \in Ids
  BY IdFacts DEF StopIds
<1>2. Placements(stop, owned, StopCoverage(ev)) \subseteq Actions
  BY <1>1, PlacementsType
<1> QED
  BY <1>2, CancellationType, BatchType DEF Rearm

\* The targets: the excess of one is cancelled, or the lack of both is placed.
LEMMA TargetsType ==
  ASSUME NEW ev, NEW exited \in Quantities, NEW owned \in Quantities \ {0},
         ev[EntryId].filled \in Quantities,
         owned = ev[EntryId].filled - exited
  PROVE  Targets(ev, exited, owned) \in Batches
<1>1. ASSUME NEW role
      PROVE  Cancels(LiveTargets(ev, role)) \subseteq Actions
  BY IdFacts, CancelsType DEF LiveTargets
<1>2. ASSUME NEW role \in TargetRoles
      PROVE  PlaceTarget(ev, exited, owned, role) \subseteq Actions
  <2> DEFINE target == <<role, ev[EntryId].filled, exited>>
  <2>1. exited < ev[EntryId].filled
    BY PlanQuantityAssumption DEF Quantities
  <2>2. target \in TargetIds
    BY <2>1 DEF TargetIds
  <2>3. target \in Ids
    BY <2>2, IdFacts
  <2> QED
    BY <2>3, PlacementsType DEF PlaceTarget
<1>3. "TP1" \in TargetRoles /\ (Staged => "TP2" \in TargetRoles)
  BY DEF TargetRoles
<1> DEFINE oversized(role) ==
      OutstandingOf(ev, LiveTargets(ev, role)) > Desired(ev, owned, role)
<1>4. CASE oversized("TP1")
  BY <1>1, <1>4 DEF Targets, NoActions, Batches
<1>5. CASE ~oversized("TP1") /\ oversized("TP2")
  BY <1>1, <1>5 DEF Targets, NoActions, Batches
<1>6. CASE ~oversized("TP1") /\ ~oversized("TP2")
  BY <1>2, <1>3, <1>6 DEF Targets, NoActions, Batches
<1> QED
  BY <1>4, <1>5, <1>6

\* protective_actions as a whole.
LEMMA ProtectiveActionsType ==
  ASSUME NEW ev, NEW exited \in Quantities, NEW owned \in Quantities,
         ev[EntryId].filled \in Quantities,
         owned = ev[EntryId].filled - exited,
         NEW breach, NEW invalidated, NEW expired, NEW holdOver
  PROVE  ProtectiveActions(ev, exited, owned, breach, invalidated, expired, holdOver)
           \in Batches
<1>1. CASE owned = 0
  BY <1>1, WhenFlatType DEF ProtectiveActions
<1>2. CASE owned # 0
  <2>1. NoActions \in Batches
    BY DEF NoActions, Batches
  <2>2. [NoActions EXCEPT !.first = Cancellation(ev)] \in Batches
    BY CancellationType DEF NoActions, Batches
  <2>3. Closure(ev, exited, owned) \in Batches
    BY <1>2, ClosureType
  <2>4. Rearm(ev, owned) \in Batches
    BY RearmType
  <2>5. Targets(ev, exited, owned) \in Batches
    BY <1>2, TargetsType
  <2>6. ASSUME NEW leave
        PROVE  WhenOwned(ev, exited, owned, breach, leave) \in Batches
    BY <2>1, <2>2, <2>3, <2>4, <2>5 DEF WhenOwned
  <2> QED
    BY <1>2, <2>6 DEF ProtectiveActions
<1> QED
  BY <1>1, <1>2

--------------------------------------------------------------------------------
(* The exchange keeps BookInv and lets its book only grow.                 *)

\* A request that is not refused opens an order the exchange had not seen, or
\* ends one that was working.
LEMMA ExecutedGrows ==
  ASSUME BookInv, NEW m \in Actions, ~Refused(m),
         book' = Executed(m), position' = position, wire' \subseteq wire
  PROVE  BookInv' /\ BookGrows /\ book'[m.id].status # "none"
<1>1. m.id \in Ids /\ m.op \in {"PLACE", "CANCEL"} /\ m.quantity \in 1..PlanQuantity
  BY CommandFacts
<1>2. book \in [Ids -> Records] /\ wire \subseteq Actions /\ position \in Quantities
  BY DEF BookInv, VenueTypeOK
<1>3. CASE m.op = "PLACE"
  <2>1. book[m.id].status = "none" /\ book[m.id].filled = 0
    BY <1>1, <1>3 DEF Refused, BookInv, NoFillsBeforeOrder
  <2>2. book' = [book EXCEPT ![m.id] = Opened(m)]
    BY <1>3 DEF Executed
  <2>3. Opened(m) \in Records /\ Opened(m).filled = 0 /\ Opened(m).status # "none"
    BY <1>1, IdFacts DEF Opened, Records, Statuses, Active, Quantities
  <2>4. book[m.id].status \notin Terminal
    BY <2>1 DEF Terminal
  <2>5. VenueTypeOK'
    BY <1>2, <2>2, <2>3 DEF VenueTypeOK
  <2>6. Bought' /\ NoFillsBeforeOrder'
    BY <1>1, <1>2, <2>1, <2>2, <2>3, IdFacts
    DEF Bought, NoFillsBeforeOrder, BookInv, Records, Quantities
  <2>7. BookGrows /\ book'[m.id].status # "none"
    BY <1>1, <1>2, <2>1, <2>2, <2>3, <2>4 DEF BookGrows, Records, Quantities
  <2> QED
    BY <2>5, <2>6, <2>7 DEF BookInv
<1>4. CASE m.op = "CANCEL"
  <2>1. book[m.id].status \in Active
    BY <1>4 DEF Refused, Cancelable, Active
  <2>2. book' = [book EXCEPT ![m.id].status = "CANCELED"]
    BY <1>4 DEF Executed
  <2>3. VenueTypeOK'
    BY <1>1, <1>2, <2>2 DEF VenueTypeOK, Records, Statuses, Terminal
  <2>4. Bought' /\ NoFillsBeforeOrder'
    BY <1>1, <1>2, <2>2, IdFacts DEF Bought, NoFillsBeforeOrder, BookInv, Records
  <2>5. book'[m.id].status = "CANCELED" /\ \A o \in Ids \ {m.id} : book'[o] = book[o]
    BY <1>1, <1>2, <2>2 DEF Records
  <2>6. BookGrows /\ book'[m.id].status # "none"
    BY <1>1, <1>2, <2>1, <2>2, <2>5 DEF BookGrows, Records, Quantities, Active, Terminal
  <2> QED
    BY <2>3, <2>4, <2>6 DEF BookInv
<1> QED
  BY <1>1, <1>3, <1>4

\* One more lot step of a working order is filled.
LEMMA FilledGrows ==
  ASSUME BookInv, NEW id \in Ids, book[id].status = "NEW",
         book[id].filled < book[id].quantity,
         book' = [book EXCEPT ![id] = Filled(id)]
  PROVE  /\ book' \in [Ids -> Records]
         /\ NoFillsBeforeOrder'
         /\ BookGrows
         /\ book'[id].filled = book[id].filled + 1
         /\ \A other \in Ids \ {id} : book'[other] = book[other]
<1>1. book \in [Ids -> Records] /\ PlanQuantity \in Nat
  BY IdFacts DEF BookInv, VenueTypeOK
<1>2. book[id] \in Records
  BY <1>1
<1>3. Filled(id) \in Records
  BY <1>1, <1>2 DEF Filled, Records, Statuses, Terminal, Active, Quantities
<1>4. Filled(id).filled = book[id].filled + 1 /\ Filled(id).status # "none"
  BY <1>2 DEF Filled, Records
<1>5. book' \in [Ids -> Records]
  BY <1>1, <1>3
<1>6. \A other \in Ids \ {id} : book'[other] = book[other]
  BY <1>1
<1>7. book'[id] = Filled(id)
  BY <1>1
<1>8. NoFillsBeforeOrder'
  BY <1>4, <1>6, <1>7 DEF NoFillsBeforeOrder, BookInv
<1>9. Filled(id).status # "CONDITIONAL_NEW"
  BY DEF Filled
<1>10. BookGrows
  BY <1>1, <1>2, <1>4, <1>6, <1>7, <1>9 DEF BookGrows, Records, Quantities, Terminal
<1> QED
  BY <1>4, <1>5, <1>6, <1>7, <1>8, <1>10

\* A working or triggered order changes its status to another known one.
LEMMA StatusGrows ==
  ASSUME BookInv, NEW id \in Ids, book[id].status \notin Terminal \cup {"none"},
         NEW status \in Statuses \ {"none", "CONDITIONAL_NEW"},
         book' = [book EXCEPT ![id].status = status],
         UNCHANGED <<wire, position>>
  PROVE  BookInv' /\ BookGrows
<1>1. book \in [Ids -> Records]
  BY DEF BookInv, VenueTypeOK
<1>2. \A other \in Ids : /\ book'[other].filled = book[other].filled
                         /\ book'[other].quantity = book[other].quantity
                         /\ other # id => book'[other] = book[other]
  BY <1>1 DEF Records
<1>3. book' \in [Ids -> Records] /\ book'[id].status = status
  BY <1>1 DEF Records
<1>4. Bought' /\ NoFillsBeforeOrder'
  BY <1>2, <1>3, IdFacts DEF BookInv, Bought, NoFillsBeforeOrder
<1>5. BookGrows
  BY <1>1, <1>2, <1>3 DEF BookGrows, Records, Quantities
<1> QED
  BY <1>3, <1>4, <1>5 DEF BookInv, VenueTypeOK

\* Everything the exchange does by itself.
LEMMA MarketGrows ==
  ASSUME BookInv, Market
  PROVE  BookInv' /\ BookGrows /\ wire' = wire
<1> USE DEF BookInv
<1>1. PlanQuantity \in Nat /\ position \in Nat
  BY IdFacts DEF VenueTypeOK, Quantities
<1>2. CASE EntryFills
  <2>1. /\ book' \in [Ids -> Records] /\ NoFillsBeforeOrder' /\ BookGrows
        /\ book'[EntryId].filled = book[EntryId].filled + 1
    BY <1>2, FilledGrows, IdFacts DEF EntryFills
  <2>2. book'[EntryId].filled \in Quantities /\ book[EntryId].filled \in Quantities
    BY <2>1, IdFacts DEF VenueTypeOK, Records
  <2>3. position' \in Quantities /\ Bought'
    BY <1>1, <1>2, <2>1, <2>2 DEF EntryFills, Bought, Quantities
  <2> QED
    BY <1>2, <2>1, <2>3 DEF EntryFills, VenueTypeOK
<1>3. ASSUME NEW x \in ExitIds, ExitFills(x)
      PROVE  BookInv' /\ BookGrows /\ wire' = wire
  <2>1. /\ book' \in [Ids -> Records] /\ NoFillsBeforeOrder' /\ BookGrows
        /\ book'[EntryId] = book[EntryId]
    BY <1>3, FilledGrows, IdFacts DEF ExitFills
  <2>2. position' \in Quantities /\ position' <= position /\ Bought'
    BY <1>1, <1>3, <2>1, IdFacts DEF ExitFills, Bought, Quantities, VenueTypeOK, Records
  <2> QED
    BY <1>3, <2>1, <2>2 DEF ExitFills, VenueTypeOK
<1>4. ASSUME NEW x \in ExitIds, ExcessExpires(x)
      PROVE  BookInv' /\ BookGrows /\ wire' = wire
  BY <1>4, StatusGrows, IdFacts DEF ExcessExpires, Statuses, Terminal
<1>5. ASSUME NEW s \in StopIds, StopTriggers(s)
      PROVE  BookInv' /\ BookGrows /\ wire' = wire
  BY <1>5, StatusGrows, IdFacts DEF StopTriggers, Statuses, Terminal
<1>6. ASSUME NEW s \in StopIds, ChildAppears(s)
      PROVE  BookInv' /\ BookGrows /\ wire' = wire
  BY <1>6, StatusGrows, IdFacts DEF ChildAppears, Statuses, Terminal, Active
<1>7. ASSUME NEW id \in Ids, EndsByItself(id)
      PROVE  BookInv' /\ BookGrows /\ wire' = wire
  BY <1>7, StatusGrows DEF EndsByItself, Statuses, Terminal, Active
<1> QED
  BY <1>2, <1>3, <1>4, <1>5, <1>6, <1>7 DEF Market

--------------------------------------------------------------------------------
(* What the steps of the process do to its journals.                       *)

\* No step takes back what a journal has established.
JournalGrows ==
  \A c \in Commands :
    Recorded(c) => /\ Recorded(c)'
                   /\ rec'[c].filled >= rec[c].filled
                   /\ rec[c].status \in Terminal => rec'[c] = rec[c]

JournalsKept ==
  /\ rec' \in [Commands -> Records]
  /\ SentIsRecorded' /\ UnrecordedIsEmpty' /\ NeverResent'
  /\ EvidenceIsConservative'
  /\ JournalGrows

\* A book that did not change has only grown.
LEMMA BookUnchanged ==
  ASSUME Inv, UNCHANGED <<book, wire, position>>
  PROVE  BookInv' /\ BookGrows
BY DEF Inv, TypeOK, VenueTypeOK, BookInv, Bought, NoFillsBeforeOrder, BookGrows, Records,
       Quantities

\* Journals nobody writes stay true while the exchange's book grows.
LEMMA JournalsUntouched ==
  ASSUME Inv, BookInv', BookGrows, UNCHANGED <<rec, sent, resent>>
  PROVE  JournalsKept
<1>1. /\ rec \in [Commands -> Records] /\ book \in [Ids -> Records]
      /\ book' \in [Ids -> Records]
  BY DEF Inv, TypeOK, VenueTypeOK, BookInv
<1>2. EvidenceIsConservative'
  <2> SUFFICES ASSUME NEW c \in Commands, Recorded(c)
               PROVE  /\ rec[c].filled <= book'[c[2]].filled
                      /\ rec[c].status \in Terminal => rec[c] = book'[c[2]]
    BY DEF EvidenceIsConservative, Recorded
  <2>1. c[2] \in Ids
    BY CommandIds
  <2>2. /\ rec[c].filled <= book[c[2]].filled
        /\ rec[c].status \in Terminal => rec[c] = book[c[2]]
    BY DEF Inv, EvidenceIsConservative
  <2> QED
    BY <1>1, <2>1, <2>2 DEF BookGrows, Records, Quantities
<1>3. SentIsRecorded' /\ UnrecordedIsEmpty' /\ NeverResent'
  BY DEF Inv, SentIsRecorded, UnrecordedIsEmpty, NeverResent, Recorded
<1>4. JournalGrows
  BY <1>1 DEF JournalGrows, Recorded, Records, Quantities
<1> QED
  BY <1>1, <1>2, <1>3, <1>4 DEF JournalsKept

\* An observation of the exchange's order is adopted.
LEMMA AdoptKeeps ==
  ASSUME Inv, BookInv', BookGrows, NEW c \in Commands,
         book'[c[2]].status # "none",
         rec' = Adopt(c, book'[c[2]]),
         UNCHANGED <<sent, resent>>
  PROVE  JournalsKept
<1>1. /\ rec \in [Commands -> Records] /\ book \in [Ids -> Records]
      /\ book' \in [Ids -> Records] /\ c[2] \in Ids /\ sent \subseteq Commands
  BY CommandIds DEF Inv, TypeOK, VenueTypeOK, BookInv
<1>2. rec' \in [Commands -> Records]
  BY <1>1 DEF Adopt
<1>3. \A d \in Commands : \/ rec'[d] = rec[d]
                          \/ rec'[d] = book'[d[2]] /\ rec'[d].status # "none"
  <2> TAKE d \in Commands
  <2>1. CASE d = c
    BY <1>1, <2>1 DEF Adopt
  <2>2. CASE d # c /\ d = <<"PLACE", c[2]>>
    BY <1>1, <2>2 DEF Adopt
  <2>3. CASE d # c /\ d # <<"PLACE", c[2]>>
    BY <1>1, <2>3 DEF Adopt
  <2> QED
    BY <2>1, <2>2, <2>3
<1>4. ASSUME NEW d \in Commands, Recorded(d)
      PROVE  /\ rec[d].filled <= book'[d[2]].filled
             /\ rec[d].status \in Terminal => rec[d] = book'[d[2]]
  <2>1. d[2] \in Ids
    BY CommandIds
  <2>2. /\ rec[d].filled <= book[d[2]].filled
        /\ rec[d].status \in Terminal => rec[d] = book[d[2]]
    BY <1>4 DEF Inv, EvidenceIsConservative
  <2> QED
    BY <1>1, <2>1, <2>2 DEF BookGrows, Records, Quantities
<1>5. EvidenceIsConservative'
  <2> SUFFICES ASSUME NEW d \in Commands, Recorded(d)'
               PROVE  /\ rec'[d].filled <= book'[d[2]].filled
                      /\ rec'[d].status \in Terminal => rec'[d] = book'[d[2]]
    BY DEF EvidenceIsConservative
  <2>1. CASE rec'[d] = rec[d]
    BY <1>4, <2>1 DEF Recorded
  <2>2. CASE rec'[d] = book'[d[2]]
    <3>1. book'[d[2]] \in Records
      BY <1>1, CommandIds
    <3> QED
      BY <2>2, <3>1 DEF Records, Quantities
  <2> QED
    BY <1>3, <2>1, <2>2
<1>6. JournalGrows
  <2> SUFFICES ASSUME NEW d \in Commands, Recorded(d)
               PROVE  /\ Recorded(d)'
                      /\ rec'[d].filled >= rec[d].filled
                      /\ rec[d].status \in Terminal => rec'[d] = rec[d]
    BY DEF JournalGrows
  <2>1. rec[d].filled \in Nat /\ rec'[d].filled \in Nat
    BY <1>1, <1>2 DEF Records, Quantities
  <2>2. CASE rec'[d] = rec[d]
    BY <2>1, <2>2 DEF Recorded
  <2>3. CASE rec'[d] = book'[d[2]] /\ rec'[d].status # "none"
    BY <1>4, <2>1, <2>3 DEF Recorded
  <2> QED
    BY <1>3, <2>2, <2>3
<1>7. SentIsRecorded' /\ UnrecordedIsEmpty' /\ NeverResent'
  <2>1. SentIsRecorded'
    BY <1>1, <1>6 DEF Inv, SentIsRecorded, JournalGrows
  <2>2. UnrecordedIsEmpty'
    BY <1>3 DEF Inv, UnrecordedIsEmpty, Recorded
  <2> QED
    BY <2>1, <2>2 DEF Inv, NeverResent
<1> QED
  BY <1>2, <1>5, <1>6, <1>7 DEF JournalsKept

\* A record that is not over becomes uncertain and keeps its fills.
LEMMA DoubtKeeps ==
  ASSUME Inv, BookInv', BookGrows, NEW c \in Commands, rec[c].status \notin Terminal,
         rec' = Doubt(c), UNCHANGED <<book, sent, resent>>
  PROVE  JournalsKept
<1>1. /\ rec \in [Commands -> Records] /\ book \in [Ids -> Records]
      /\ sent \subseteq Commands
  BY DEF Inv, TypeOK, VenueTypeOK, BookInv
<1>2. /\ rec'[c].status = "UNKNOWN" /\ rec'[c].filled = rec[c].filled
      /\ rec'[c].quantity = rec[c].quantity
      /\ \A d \in Commands \ {c} : rec'[d] = rec[d]
  BY <1>1 DEF Doubt, Records
<1>3. rec' \in [Commands -> Records]
  BY <1>1 DEF Doubt, Records, Statuses
<1>4. rec[c].filled <= book[c[2]].filled
  <2>1. CASE Recorded(c)
    BY <2>1 DEF Inv, EvidenceIsConservative
  <2>2. CASE ~Recorded(c)
    <3>1. book[c[2]] \in Records
      BY <1>1, CommandIds
    <3> QED
      BY <2>2, <3>1 DEF Inv, UnrecordedIsEmpty, Records, Quantities
  <2> QED
    BY <2>1, <2>2
<1>5. EvidenceIsConservative'
  BY <1>2, <1>4 DEF Inv, EvidenceIsConservative, Recorded, Terminal
<1>6. JournalGrows
  BY <1>1, <1>2 DEF JournalGrows, Recorded, Records, Quantities
<1>7. SentIsRecorded' /\ UnrecordedIsEmpty' /\ NeverResent'
  BY <1>1, <1>2 DEF Inv, SentIsRecorded, UnrecordedIsEmpty, NeverResent, Recorded
<1> QED
  BY <1>3, <1>5, <1>6, <1>7 DEF JournalsKept

\* The write-ahead rule: what is sent was not on record, and now is.
LEMMA SendKeeps ==
  ASSUME Inv, NEW a \in Actions, Send(a), UNCHANGED <<book, position>>
  PROVE  /\ BookInv' /\ JournalsKept
         /\ sent' \subseteq Commands /\ resent' \subseteq sent'
         /\ rec'[Command(current')].status = "SUBMITTING"
<1> DEFINE c == Command(a)
<1>1. /\ rec \in [Commands -> Records] /\ book \in [Ids -> Records] /\ c \in Commands
      /\ sent \subseteq Commands /\ a.quantity \in Quantities
      /\ wire \subseteq Actions
  BY CommandFacts DEF Inv, TypeOK, VenueTypeOK, Quantities
<1>2. c \notin sent
  BY DEF Send, Inv, SentIsRecorded
<1>3. /\ rec'[c].status = "SUBMITTING" /\ rec'[c].filled = 0
      /\ \A d \in Commands \ {c} : rec'[d] = rec[d]
  BY <1>1 DEF Send
<1>4. rec' \in [Commands -> Records]
  <2>1. [status |-> "SUBMITTING", filled |-> 0, quantity |-> a.quantity] \in Records
    BY <1>1, IdFacts DEF Records, Statuses
  <2> QED
    BY <1>1, <2>1 DEF Send
<1>5. sent' = sent \cup {c} /\ resent' = resent
  BY <1>2 DEF Send
<1>6. EvidenceIsConservative'
  <2> SUFFICES ASSUME NEW d \in Commands, Recorded(d)'
               PROVE  /\ rec'[d].filled <= book[d[2]].filled
                      /\ rec'[d].status \in Terminal => rec'[d] = book[d[2]]
    BY DEF EvidenceIsConservative
  <2>1. CASE d = c
    <3>1. book[d[2]] \in Records
      BY <1>1, CommandIds
    <3>2. book[d[2]].filled \in Nat
      BY <3>1 DEF Records, Quantities
    <3> QED
      BY <1>3, <2>1, <3>2 DEF Terminal
  <2>2. CASE d # c
    BY <1>3, <2>2 DEF Inv, EvidenceIsConservative, Recorded
  <2> QED
    BY <2>1, <2>2
<1>7. JournalGrows
  BY <1>1, <1>3 DEF JournalGrows, Recorded, Records, Quantities, Send
<1>8. SentIsRecorded' /\ UnrecordedIsEmpty' /\ NeverResent'
  BY <1>1, <1>3, <1>5 DEF Inv, SentIsRecorded, UnrecordedIsEmpty, NeverResent, Recorded
<1>9. BookInv'
  BY <1>1 DEF Send, Inv, TypeOK, VenueTypeOK, BookInv, Bought, NoFillsBeforeOrder
<1> QED
  BY <1>1, <1>3, <1>4, <1>5, <1>6, <1>7, <1>8, <1>9 DEF JournalsKept, Send, Inv, NeverResent

--------------------------------------------------------------------------------
(* Every step keeps Inv and takes nothing back.                            *)

\* What remains of Inv besides the exchange and the journals.
Control ==
  /\ trade \in {"none", "open", "closed"}
  /\ latched \in BOOLEAN
  /\ snap \in [position : Quantities, daily : BOOLEAN]
  /\ pc \in Labels
  /\ todo \subseteq Commands
  /\ batch \in Batches
  /\ current \in Actions
  /\ risk \in BOOLEAN
  /\ fresh \in BOOLEAN
  /\ flags \subseteq EventNames
  /\ sent \subseteq Commands
  /\ resent \subseteq sent
  /\ faults \in 0..MaxFaults
  /\ crashes \in 0..MaxCrashes
  /\ AwaitedIsSubmitting

Stable == BookInv' /\ JournalsKept /\ Control'

\* The invariant by the parts its preservation is proved in.
LEMMA InvParts == Inv => /\ Control /\ BookInv /\ rec \in [Commands -> Records]
                         /\ book \in [Ids -> Records] /\ position \in Quantities
                         /\ wire \subseteq Actions
BY DEF Inv, TypeOK, Control, BookInv, VenueTypeOK

\* A stable step keeps the invariant and lets the journals only grow.
LEMMA StableSuffices == Stable => Inv' /\ JournalGrows
BY DEF Stable, JournalsKept, Control, BookInv, Inv, TypeOK

\* The actions and batches a pass starts and rests with are typed.
LEMMA ConstantTypes == /\ EntryAction \in Actions /\ NoActions \in Batches
                       /\ MaxFaults \in Nat /\ MaxCrashes \in Nat
BY IdFacts, BoundsAssumption DEF EntryAction, Actions, NoActions, Batches

\* A step that touches neither the exchange nor the journals is stable when it
\* keeps Control.
LEMMA QuietStep ==
  ASSUME Inv, UNCHANGED <<book, wire, position, rec, sent, resent>>, Control'
  PROVE  Stable
BY BookUnchanged, JournalsUntouched DEF Stable

\* Ending a pass keeps Control, whatever it counts.
LEMMA GiveUpControl ==
  ASSUME Control, GiveUp, UNCHANGED <<trade, latched, snap, sent, resent>>,
         flags' \subseteq EventNames,
         faults' \in 0..MaxFaults, crashes' \in 0..MaxCrashes
  PROVE  Control'
BY ConstantTypes DEF Control, GiveUp, Rest, Labels, AwaitedIsSubmitting

\* Counting a fault respects the bound on faults.
LEMMA FaultType == Control /\ Fault => faults' \in 0..MaxFaults
BY ConstantTypes DEF Control, Fault

\* What a batch still has to offer are actions.
LEMMA ReadyType ==
  ASSUME Control
  PROVE  /\ Ready \subseteq Actions
         /\ \A a \in Actions : Without(a) \in Batches
BY DEF Control, Batches, Ready, Without

\* prearm_actions issues actions.
LEMMA PrearmType == PrearmActions \subseteq Actions
BY IdFacts, PlacementsType DEF PrearmActions

\* The protective cycle: snapshot, reconciliation and decision.
LEMMA DecisionSteps ==
  ASSUME Inv
  PROVE  /\ RefreshAccount => Stable
         /\ ReuseSnapshot => Stable
         /\ SnapshotTooOld => Stable
         /\ Reconcile => Stable
         /\ NothingOwned => Stable
         /\ PreparedOnly => Stable
         /\ Protect => Stable
         /\ Unreconciled => Stable
<1> USE InvParts
<1>1. RefreshAccount => Stable
  <2> SUFFICES ASSUME RefreshAccount PROVE Control'
    BY QuietStep DEF RefreshAccount, StartCycle, history
  <2>1. pc' = "reconcile" /\ risk' = ("external" \in flags) /\ fresh' = TRUE
    BY DEF RefreshAccount, StartCycle
  <2>4. fresh' \in BOOLEAN
    BY <2>1
  <2>5. risk' \in BOOLEAN
    BY <2>1
  <2>2. todo' \subseteq Commands
    BY DEF RefreshAccount, StartCycle, Unfinished
  <2>3. snap' \in [position : Quantities, daily : BOOLEAN]
    BY DEF RefreshAccount
  <2> QED
    BY <2>1, <2>2, <2>3, <2>4, <2>5
    DEF RefreshAccount, StartCycle, Control, Labels, AwaitedIsSubmitting, history
<1>2. ReuseSnapshot => Stable
  <2> SUFFICES ASSUME ReuseSnapshot PROVE Control'
    BY QuietStep DEF ReuseSnapshot, StartCycle, history
  <2>1. pc' = "reconcile" /\ risk' = ("external" \in flags) /\ fresh' = FALSE
    BY DEF ReuseSnapshot, StartCycle
  <2>4. fresh' \in BOOLEAN
    BY <2>1
  <2>5. risk' \in BOOLEAN
    BY <2>1
  <2>2. todo' \subseteq Commands
    BY DEF ReuseSnapshot, StartCycle, Unfinished
  <2>3. snap' = snap
    BY DEF ReuseSnapshot
  <2> QED
    BY <2>1, <2>2, <2>3, <2>4, <2>5
    DEF ReuseSnapshot, StartCycle, Control, Labels, AwaitedIsSubmitting, history
<1>3. SnapshotTooOld => Stable
  <2> SUFFICES ASSUME SnapshotTooOld PROVE Control'
    BY QuietStep DEF SnapshotTooOld, durable, history
  <2> QED
    BY GiveUpControl, FaultType DEF SnapshotTooOld, Control, durable, history
<1>4. Reconcile => Stable
  <2> SUFFICES ASSUME NEW c \in todo, QueryAnswered(c) \/ QueryFails(c) \/ QuerySkipped(c)
               PROVE  Stable
    BY DEF Reconcile
  <2>1. c \in Commands /\ c[2] \in Ids
    BY CommandIds DEF Control
  <2>2. CASE QueryAnswered(c)
    <3>1. BookInv' /\ BookGrows
      BY <2>2, BookUnchanged DEF QueryAnswered
    <3>2. JournalsKept
      BY <2>1, <2>2, <3>1, AdoptKeeps DEF QueryAnswered, Answerable, history
    <3>3. Control'
      BY <2>2 DEF QueryAnswered, NextQuery, Control, AwaitedIsSubmitting, history
    <3> QED
      BY <3>1, <3>2, <3>3 DEF Stable
  <2>3. CASE QueryFails(c)
    <3>1. BookInv' /\ BookGrows
      BY <2>3, BookUnchanged DEF QueryFails
    <3>2. JournalsKept
      BY <2>1, <2>3, <3>1, DoubtKeeps DEF QueryFails, history
    <3>3. faults' \in 0..MaxFaults
      BY <2>3, FaultType DEF QueryFails, Control
    <3>4. Control'
      BY <2>3, <3>3 DEF QueryFails, NextQuery, Control, AwaitedIsSubmitting, history
    <3> QED
      BY <3>1, <3>2, <3>4 DEF Stable
  <2>4. CASE QuerySkipped(c)
    <3>1. Control'
      BY <2>4 DEF QuerySkipped, NextQuery, Control, AwaitedIsSubmitting, history, durable
    <3> QED
      BY <2>4, <3>1, QuietStep DEF QuerySkipped, history, durable
  <2> QED
    BY <2>2, <2>3, <2>4
<1>5. NothingOwned => Stable
  <2> SUFFICES ASSUME NothingOwned PROVE Control'
    BY QuietStep DEF NothingOwned, durable, history
  <2> QED
    BY DEF NothingOwned, Continue, Control, Labels, AwaitedIsSubmitting, durable, history
<1>6. PreparedOnly => Stable
  <2> SUFFICES ASSUME PreparedOnly PROVE Control'
    BY QuietStep DEF PreparedOnly, history
  <2>1. Cancels(OpenExits(Evidence)) \subseteq Actions
    BY IdFacts, CancelsType DEF OpenExits
  <2>2. batch' \in Batches
    BY <2>1 DEF PreparedOnly, NoActions, Batches
  <2>3. trade' \in {"none", "open", "closed"} /\ pc' = "act"
    BY DEF PreparedOnly
  <2> QED
    BY <2>2, <2>3 DEF PreparedOnly, Control, Labels, AwaitedIsSubmitting, history
<1>7. Protect => Stable
  <2> SUFFICES ASSUME Protect PROVE Control'
    BY QuietStep DEF Protect, history
  <2>1. PICK exited \in Quantities, closedBelow \in BOOLEAN :
          LET owned   == Evidence[EntryId].filled - exited
              invalid == Staged /\ snap.position # 0 /\ (latched \/ closedBelow)
              chosen  == ProtectiveActions(Evidence, exited, owned, snap.daily \/ risk,
                           invalid, "expired" \in flags, "holdOver" \in flags)
          IN  /\ snap.position = owned
              /\ latched' = (latched \/ invalid)
              /\ batch' = chosen
              /\ trade' = IF ~EntryPending(Evidence) /\ owned = 0 /\ chosen = NoActions
                            THEN "closed" ELSE "open"
    BY DEF Protect
  <2>2. snap.position \in Quantities
    BY DEF Control
  <2>3. Evidence[EntryId].filled \in Quantities
    <3>1. <<"PLACE", EntryId>> \in Commands
      BY IdFacts DEF Commands
    <3>2. Evidence[EntryId] = rec[<<"PLACE", EntryId>>]
      BY IdFacts DEF Evidence
    <3> QED
      BY <3>1, <3>2 DEF Records
  <2>4. batch' \in Batches
    BY <2>1, <2>2, <2>3, ProtectiveActionsType
  <2>5. latched' \in BOOLEAN
    BY <2>1 DEF Control
  <2>6. trade' \in {"none", "open", "closed"}
    BY <2>1
  <2> QED
    BY <2>4, <2>5, <2>6 DEF Protect, Control, Labels, AwaitedIsSubmitting, history
<1>8. Unreconciled => Stable
  <2> SUFFICES ASSUME Unreconciled PROVE Control'
    BY QuietStep DEF Unreconciled, history
  <2>1. faults' \in 0..MaxFaults
    BY FaultType DEF Unreconciled, Unresolved, Unaccounted, Control
  <2>2. latched' \in BOOLEAN
    BY DEF Unreconciled, Unresolved, Unaccounted, Control
  <2>3. GiveUp /\ UNCHANGED <<trade, snap, sent, resent, flags, crashes>>
    BY DEF Unreconciled, history
  <2> QED
    BY <2>1, <2>2, <2>3, ConstantTypes
    DEF Control, GiveUp, Rest, Labels, AwaitedIsSubmitting
<1> QED
  BY <1>1, <1>2, <1>3, <1>4, <1>5, <1>6, <1>7, <1>8

\* Sending an action, in a pass or in an admission.
LEMMA SendStep ==
  ASSUME Inv, NEW a \in Actions, Send(a), batch' \in Batches,
         UNCHANGED <<book, position, trade, latched, snap, todo, risk, fresh, flags,
                     faults, crashes>>
  PROVE  Stable
<1>1. /\ BookInv' /\ JournalsKept
      /\ sent' \subseteq Commands /\ resent' \subseteq sent'
      /\ rec'[Command(current')].status = "SUBMITTING"
  BY SendKeeps
<1>2. AwaitedIsSubmitting'
  BY <1>1 DEF AwaitedIsSubmitting, Command
<1>3. pc' = "await" /\ current' = a
  BY DEF Send
<1>4. Control'
  BY <1>1, <1>2, <1>3, InvParts DEF Control, Labels
<1> QED
  BY <1>1, <1>4 DEF Stable

\* Executing the batch, and the fate of the awaited request.
LEMMA ExecutionSteps ==
  ASSUME Inv
  PROVE  /\ \A a \in Ready : ExecuteAction(a) => Stable
         /\ \A a \in Ready : ReuseRecord(a) => Stable
         /\ ActionsDone => Stable
         /\ Respond => Stable
         /\ RespondError => Stable
         /\ Timeout => Stable
         /\ EndCycle => Stable
<1> USE InvParts
<1>1. ASSUME NEW a \in Ready, ExecuteAction(a) PROVE Stable
  <2>1. a \in Actions /\ batch' \in Batches
    BY <1>1, ReadyType DEF ExecuteAction
  <2> QED
    BY <1>1, <2>1, SendStep DEF ExecuteAction
<1>2. ASSUME NEW a \in Ready, ReuseRecord(a) PROVE Stable
  <2> SUFFICES Control'
    BY <1>2, QuietStep DEF ReuseRecord, durable, history
  <2>1. CASE Collides(a)
    BY <1>2, <2>1, GiveUpControl DEF ReuseRecord, Control, durable, history
  <2>2. CASE ~Collides(a)
    <3>1. batch' \in Batches /\ UNCHANGED <<pc, todo, current, risk, fresh>>
      BY <1>2, <2>2, ReadyType DEF ReuseRecord
    <3> QED
      BY <1>2, <3>1 DEF ReuseRecord, Control, AwaitedIsSubmitting, durable, history
  <2> QED
    BY <2>1, <2>2
<1>3. ActionsDone => Stable
  <2> SUFFICES ASSUME ActionsDone PROVE Control'
    BY QuietStep DEF ActionsDone, durable, history
  <2> QED
    BY DEF ActionsDone, Continue, Control, Labels, AwaitedIsSubmitting, durable, history
<1>4. current \in Actions /\ Command(current) \in Commands
      /\ Command(current)[2] = current.id /\ current.id \in Ids
  BY CommandFacts DEF Control
<1>5. ASSUME Respond PROVE Stable
  <2>1. BookInv' /\ BookGrows /\ book'[current.id].status # "none"
    BY <1>4, <1>5, ExecutedGrows DEF Respond
  <2>2. rec' = Adopt(Command(current), book'[Command(current)[2]])
    BY <1>4, <1>5 DEF Respond
  <2>3. JournalsKept
    BY <1>4, <1>5, <2>1, <2>2, AdoptKeeps DEF Respond, history
  <2>4. Control'
    <3>1. CASE GiveUp
      BY <1>5, <3>1, GiveUpControl DEF Respond, Control, history
    <3>2. CASE ~GiveUp
      BY <1>5, <3>2, ConstantTypes
      DEF Respond, Resume, Control, Labels, AwaitedIsSubmitting, history
    <3> QED
      BY <3>1, <3>2
  <2> QED
    BY <2>1, <2>3, <2>4 DEF Stable
<1>6. ASSUME pc = "await" PROVE rec[Command(current)].status \notin Terminal
  BY <1>6 DEF Inv, AwaitedIsSubmitting, Terminal
<1>7. ASSUME RespondError PROVE Stable
  <2>1. BookInv' /\ BookGrows
    BY <1>7 DEF RespondError, BookInv, VenueTypeOK, Bought, NoFillsBeforeOrder, BookGrows,
                Records, Quantities
  <2>2. JournalsKept
    BY <1>4, <1>6, <1>7, <2>1, DoubtKeeps DEF RespondError, history
  <2>3. faults' \in 0..MaxFaults
    BY <1>7, FaultType DEF RespondError, Control
  <2>4. Control'
    BY <1>7, <2>3, GiveUpControl DEF RespondError, Control, history
  <2> QED
    BY <2>1, <2>2, <2>4 DEF Stable
<1>8. ASSUME Timeout PROVE Stable
  <2>1. BookInv' /\ BookGrows
    BY <1>8, BookUnchanged DEF Timeout
  <2>2. JournalsKept
    BY <1>4, <1>6, <1>8, <2>1, DoubtKeeps DEF Timeout, history
  <2>3. faults' \in 0..MaxFaults
    BY <1>8, FaultType DEF Timeout, Control
  <2>4. Control'
    BY <1>8, <2>3, GiveUpControl DEF Timeout, Control, history
  <2> QED
    BY <2>1, <2>2, <2>4 DEF Stable
<1>9. EndCycle => Stable
  <2> SUFFICES ASSUME EndCycle PROVE Control'
    BY QuietStep DEF EndCycle, durable, history
  <2> QED
    BY GiveUpControl DEF EndCycle, AfterRisk, Control, durable, history
<1> QED
  BY <1>1, <1>2, <1>3, <1>5, <1>7, <1>8, <1>9

\* The admission of the entry.
LEMMA AdmissionSteps ==
  ASSUME Inv
  PROVE  /\ BeginAdmission => Stable
         /\ SymbolIsFlat => Stable
         /\ SymbolIsOrderless => Stable
         /\ Prepare => Stable
         /\ \A a \in PrearmActions : Prearm(a) => Stable
         /\ \A a \in PrearmActions : PrearmRecorded(a) => Stable
         /\ ConfirmProtection => Stable
         /\ SubmitEntry => Stable
         /\ AbandonAdmission => Stable
<1> USE InvParts
<1>1. BeginAdmission => Stable
  <2> SUFFICES ASSUME BeginAdmission PROVE Control'
    BY QuietStep DEF BeginAdmission, history
  <2>1. snap' \in [position : Quantities, daily : BOOLEAN]
    BY DEF BeginAdmission
  <2>2. flags' \subseteq EventNames
    BY DEF BeginAdmission, AfterRisk, Control
  <2> QED
    BY <2>1, <2>2 DEF BeginAdmission, Control, Labels, AwaitedIsSubmitting, history
<1>2. Prepare => Stable
  <2> SUFFICES ASSUME Prepare PROVE Control'
    BY QuietStep DEF Prepare, history
  <2> QED
    BY DEF Prepare, Control, Labels, AwaitedIsSubmitting, history
<1>3. ASSUME NEW a \in PrearmActions, Prearm(a) PROVE Stable
  <2>1. a \in Actions /\ batch' \in Batches
    BY <1>3, PrearmType DEF Prearm, Control
  <2> QED
    BY <1>3, <2>1, SendStep DEF Prearm
<1>4. ASSUME NEW a \in PrearmActions, PrearmRecorded(a) PROVE Stable
  <2> SUFFICES Control'
    BY <1>4, QuietStep DEF PrearmRecorded, durable, history
  <2> QED
    BY <1>4 DEF PrearmRecorded, Control, Labels, AwaitedIsSubmitting, durable, history
<1>5. ConfirmProtection => Stable
  <2> SUFFICES ASSUME ConfirmProtection PROVE Control'
    BY QuietStep DEF ConfirmProtection, durable, history
  <2> QED
    BY DEF ConfirmProtection, Control, Labels, AwaitedIsSubmitting, durable, history
<1>6. ASSUME SubmitEntry PROVE Stable
  BY <1>6, ConstantTypes, SendStep DEF SubmitEntry, Control
<1>7. AbandonAdmission => Stable
  <2> SUFFICES ASSUME AbandonAdmission PROVE Control'
    BY QuietStep DEF AbandonAdmission, durable, history
  <2> QED
    BY GiveUpControl DEF AbandonAdmission, Control, durable, history
<1>8. SymbolIsFlat => Stable
  <2> SUFFICES ASSUME SymbolIsFlat PROVE Control'
    BY QuietStep DEF SymbolIsFlat, durable, history
  <2> QED
    BY DEF SymbolIsFlat, Control, Labels, AwaitedIsSubmitting, durable, history
<1>9. SymbolIsOrderless => Stable
  <2> SUFFICES ASSUME SymbolIsOrderless PROVE Control'
    BY QuietStep DEF SymbolIsOrderless, durable, history
  <2> QED
    BY DEF SymbolIsOrderless, Control, Labels, AwaitedIsSubmitting, durable, history
<1> QED
  BY <1>1, <1>2, <1>3, <1>4, <1>5, <1>6, <1>7, <1>8, <1>9

\* The exchange, the wire, crashes and the clock.
LEMMA EnvironmentSteps ==
  ASSUME Inv
  PROVE  /\ Exchange => Stable
         /\ Crash => Stable
         /\ \A e \in Events : Happens(e) => Stable
         /\ NewDay => Stable
<1> USE InvParts
<1>1. ASSUME Market /\ UNCHANGED <<durable, volatile, flags, history, faults, crashes>>
      PROVE  Stable
  <2>1. BookInv' /\ BookGrows
    BY <1>1, MarketGrows
  <2>2. JournalsKept
    BY <1>1, <2>1, JournalsUntouched DEF durable, history
  <2>3. Control'
    BY <1>1 DEF Control, AwaitedIsSubmitting, Command, durable, volatile, history
  <2> QED
    BY <2>1, <2>2, <2>3 DEF Stable
<1>2. ASSUME NEW m \in wire, LateRequest(m) PROVE Stable
  <2>1. BookInv' /\ BookGrows
    <3>1. CASE Refused(m)
      BY <1>2, <3>1 DEF LateRequest, BookInv, VenueTypeOK, Bought, NoFillsBeforeOrder,
                        BookGrows, Records, Quantities
    <3>2. CASE ~Refused(m)
      BY <1>2, <3>2, ExecutedGrows DEF LateRequest
    <3> QED
      BY <3>1, <3>2
  <2>2. JournalsKept
    BY <1>2, <2>1, JournalsUntouched DEF LateRequest, durable, history
  <2>3. Control'
    BY <1>2 DEF LateRequest, Control, AwaitedIsSubmitting, Command, durable, volatile, history
  <2> QED
    BY <2>1, <2>2, <2>3 DEF Stable
<1>3. ASSUME NEW m \in wire, LostRequest(m) PROVE Stable
  <2>1. BookInv' /\ BookGrows
    BY <1>3 DEF LostRequest, BookInv, VenueTypeOK, Bought, NoFillsBeforeOrder,
                BookGrows, Records, Quantities
  <2>2. JournalsKept
    BY <1>3, <2>1, JournalsUntouched DEF LostRequest, durable, history
  <2>3. faults' \in 0..MaxFaults
    BY <1>3, FaultType DEF LostRequest
  <2>4. Control'
    BY <1>3, <2>3
    DEF LostRequest, Control, AwaitedIsSubmitting, Command, durable, volatile, history
  <2> QED
    BY <2>1, <2>2, <2>4 DEF Stable
<1>4. Crash => Stable
  <2> SUFFICES ASSUME Crash PROVE Control'
    BY QuietStep DEF Crash, durable, history
  <2>1. crashes' \in 0..MaxCrashes /\ flags' \subseteq EventNames
    BY ConstantTypes DEF Crash, Control
  <2> QED
    BY <2>1, GiveUpControl DEF Crash, Control, durable, history
<1>5. ASSUME NEW e \in Events, Happens(e) PROVE Stable
  <2> SUFFICES Control'
    BY <1>5, QuietStep DEF Happens, durable, history
  <2>1. flags' \subseteq EventNames
    BY <1>5, EventsAssumption DEF Happens, Control
  <2> QED
    BY <1>5, <2>1 DEF Happens, Control, AwaitedIsSubmitting, durable, volatile, history
<1>6. NewDay => Stable
  <2> SUFFICES ASSUME NewDay PROVE Control'
    BY QuietStep DEF NewDay, durable, history
  <2> QED
    BY DEF NewDay, Control, AwaitedIsSubmitting, durable, volatile, history
<1> QED
  BY <1>1, <1>2, <1>3, <1>4, <1>5, <1>6 DEF Exchange

\* Inv is inductive, and no step takes back what a journal has established.
LEMMA InvNext == Inv /\ [Next]_vars => Inv' /\ JournalGrows
<1> SUFFICES ASSUME Inv, [Next]_vars PROVE Stable
  BY StableSuffices
<1>1. CASE Cycle
  BY <1>1, DecisionSteps, ExecutionSteps DEF Cycle
<1>2. CASE Admission
  BY <1>2, AdmissionSteps DEF Admission
<1>3. CASE Exchange \/ Crash \/ (\E e \in Events : Happens(e)) \/ NewDay
  BY <1>3, EnvironmentSteps
<1>4. CASE UNCHANGED vars
  <2>1. Control'
    BY <1>4, InvParts DEF vars, Control, AwaitedIsSubmitting, Command
  <2> QED
    BY <1>4, <2>1, QuietStep DEF vars
<1> QED
  BY <1>1, <1>2, <1>3, <1>4 DEF Next

\* The invariant holds before anything was journalled or sent.
LEMMA InitInv == Init => Inv
<1> SUFFICES ASSUME Init PROVE Inv
  OBVIOUS
<1>1. NoRecord \in Records
  BY IdFacts DEF NoRecord, Records, Statuses
<1>2. VenueTypeOK /\ Bought /\ NoFillsBeforeOrder
  BY <1>1, IdFacts DEF Init, VenueInit, VenueTypeOK, Bought, NoFillsBeforeOrder, NoRecord
<1>3. Control
  <2>1. snap \in [position : Quantities, daily : BOOLEAN]
    BY IdFacts DEF Init
  <2>2. faults \in 0..MaxFaults /\ crashes \in 0..MaxCrashes
    BY ConstantTypes DEF Init
  <2>3. AwaitedIsSubmitting
    BY DEF Init, AwaitedIsSubmitting
  <2> QED
    BY <2>1, <2>2, <2>3, ConstantTypes DEF Init, Control, Labels
<1>4. rec \in [Commands -> Records]
  BY <1>1 DEF Init
<1>5. SentIsRecorded /\ UnrecordedIsEmpty /\ NeverResent /\ EvidenceIsConservative
  BY DEF Init, SentIsRecorded, UnrecordedIsEmpty, NeverResent, EvidenceIsConservative,
         Recorded, NoRecord
<1> QED
  BY <1>2, <1>3, <1>4, <1>5 DEF Inv, TypeOK, Control

\* The inductive invariant, from which the theorems below follow: what the two
\* journals, the history of sent commands and the exchange's book agree on after
\* every step of lifecycle_coordinator.py and its journals.
THEOREM InvIsInvariant == Spec => []Inv
BY InitInv, InvNext, PTL DEF Spec

--------------------------------------------------------------------------------
(* The theorems.                                                           *)

\* Every variable of the lifecycle keeps its type; in particular no decision
\* of protective_actions issues an order for nothing or for more than the plan.
THEOREM TypeCorrect == Spec => []TypeOK
<1>1. Inv => TypeOK
  BY DEF Inv
<1> QED
  BY <1>1, InvIsInvariant, PTL

\* Neither ProtectiveExecutor.execute nor LiveOrderBook.submit ever sends a
\* command twice, whatever times out, is lost, is retried in a later pass or is
\* interrupted by a crash.
THEOREM CommandsNeverResent == Spec => []NeverResent
<1>1. Inv => NeverResent
  BY DEF Inv
<1> QED
  BY <1>1, InvIsInvariant, PTL

\* The two journals never run ahead of the exchange.
THEOREM EvidenceConservative == Spec => []EvidenceIsConservative
<1>1. Inv => EvidenceIsConservative
  BY DEF Inv
<1> QED
  BY <1>1, InvIsInvariant, PTL

\* No step of the process, no answer and no crash takes back a recorded fill or
\* reopens a record that is over.
THEOREM EvidenceGrows == Spec => EvidenceOnlyGrows
<1>1. Inv /\ [Next]_vars =>
        [\A c \in Commands :
           Recorded(c) => /\ rec'[c].filled >= rec[c].filled
                          /\ rec[c].status \in Terminal => rec'[c] = rec[c]]_vars
  BY InvNext DEF JournalGrows
<1> QED
  BY <1>1, InvIsInvariant, PTL DEF Spec, EvidenceOnlyGrows

================================================================================
