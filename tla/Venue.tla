--------------------------------- MODULE Venue ---------------------------------
(***************************************************************************)
(* The futures exchange, as the code under execution/ uses it through      *)
(* binance_gateway.py: it accepts, refuses, fills, triggers, cancels and   *)
(* ends the orders of one plan, and answers queries by client id.  Nothing *)
(* here is repository code; it is the environment of the lifecycle.        *)
(*                                                                         *)
(*  - Only the entry increases the position; every exit is reduce-only, so *)
(*    it fills while there is a position and what exceeds it expires.      *)
(*  - A STOP is conditional until it triggers; then it has no child order  *)
(*    for a while (queries of it fail) and then a child that fills.        *)
(*  - A request travels on the wire: it may be executed long after the     *)
(*    caller gave up on it, or be lost.                                    *)
(***************************************************************************)
EXTENDS ProtectiveLifecycle

CONSTANTS
  SelfEnding,      \* roles whose orders the exchange may end without a fill
  RefusesWhenFlat  \* TRUE: a reduce-only order at a zero position is refused
                   \* with an error instead of being accepted and expired

ASSUME SelfEndingAssumption ==
  SelfEnding \subseteq {"ENTRY", "STOP", "TP1", "TP2", "FLATTEN"}
ASSUME RefusesWhenFlatAssumption == RefusesWhenFlat \in BOOLEAN

VARIABLES
  book,      \* book[id]: the exchange's order of that client id
  wire,      \* requests sent and not yet executed or lost
  position   \* lot steps of the plan held at the exchange

venueVars == <<book, wire, position>>

Statuses == {"none", "SUBMITTING", "UNKNOWN", "TRIGGERED"} \cup Active \cup Terminal

Records == [status : Statuses, filled : Quantities, quantity : Quantities]

NoRecord == [status |-> "none", filled |-> 0, quantity |-> 0]

VenueTypeOK ==
  /\ book \in [Ids -> Records]
  /\ wire \subseteq Actions
  /\ position \in Quantities

VenueInit ==
  /\ book = [id \in Ids |-> NoRecord]
  /\ wire = {}
  /\ position = 0

--------------------------------------------------------------------------------
(* What the exchange does with a request, and whether it reports success.  *)

Opened(m) ==
  [status   |-> IF Role(m.id) = "STOP" THEN "CONDITIONAL_NEW" ELSE "NEW",
   filled   |-> 0,
   quantity |-> m.quantity]

\* The client id of a triggered stop no longer names a cancelable order: its
\* child has an id of the exchange's own.
Cancelable(id) ==
  book[id].status = IF Role(id) = "STOP" THEN "CONDITIONAL_NEW" ELSE "NEW"

Refused(m) ==
  IF m.op = "PLACE"
    THEN \/ book[m.id].status # "none"
         \/ RefusesWhenFlat /\ position = 0 /\ Role(m.id) \notin {"ENTRY", "STOP"}
    ELSE ~Cancelable(m.id)

Executed(m) ==
  IF m.op = "PLACE" THEN [book EXCEPT ![m.id] = Opened(m)]
                    ELSE [book EXCEPT ![m.id].status = "CANCELED"]

\* A query by client id is answered unless there is no such order, or it is a
\* triggered conditional without a verifiable child.
Answerable(id) == book[id].status \notin {"none", "TRIGGERED"}

--------------------------------------------------------------------------------
(* What the exchange does by itself.                                       *)

Filled(id) ==
  LET filled == book[id].filled + 1
  IN  [status   |-> IF filled = book[id].quantity THEN "FILLED" ELSE "NEW",
       filled   |-> filled,
       quantity |-> book[id].quantity]

EntryFills ==
  /\ book[EntryId].status = "NEW"
  /\ book[EntryId].filled < book[EntryId].quantity
  /\ book' = [book EXCEPT ![EntryId] = Filled(EntryId)]
  /\ position' = position + 1
  /\ UNCHANGED wire

ExitFills(x) ==
  /\ book[x].status = "NEW"
  /\ book[x].filled < book[x].quantity
  /\ position > 0
  /\ book' = [book EXCEPT ![x] = Filled(x)]
  /\ position' = position - 1
  /\ UNCHANGED wire

\* What is left of a reduce-only order when there is nothing left to reduce.
ExcessExpires(x) ==
  /\ book[x].status = "NEW"
  /\ position = 0
  /\ book' = [book EXCEPT ![x].status = "EXPIRED"]
  /\ UNCHANGED <<wire, position>>

StopTriggers(s) ==
  /\ book[s].status = "CONDITIONAL_NEW"
  /\ book' = [book EXCEPT ![s].status = "TRIGGERED"]
  /\ UNCHANGED <<wire, position>>

ChildAppears(s) ==
  /\ book[s].status = "TRIGGERED"
  /\ book' = [book EXCEPT ![s].status = "NEW"]
  /\ UNCHANGED <<wire, position>>

EndsByItself(id) ==
  /\ Role(id) \in SelfEnding
  /\ book[id].status \in Active
  /\ book' = [book EXCEPT ![id].status = "EXPIRED"]
  /\ UNCHANGED <<wire, position>>

Market ==
  \/ EntryFills
  \/ \E x \in ExitIds : ExitFills(x) \/ ExcessExpires(x)
  \/ \E s \in StopIds : StopTriggers(s) \/ ChildAppears(s)
  \/ \E id \in Ids : EndsByItself(id)

================================================================================
