---------------------------- MODULE TradeLifecycle ----------------------------
(***************************************************************************)
(* One trade of the qualified runtime, from admission to closure: the      *)
(* coordinator's protective cycle (execution/lifecycle_coordinator.py),    *)
(* the durable entry journal (live_orders.py), the durable protective      *)
(* journal (protective_executor.py) and the bracketed admission of the     *)
(* entry (entry_admission.py), against the exchange of module Venue.       *)
(*                                                                         *)
(* One command is at most in the hands of the process at a time: the       *)
(* session lock serialises cycles and admissions and lease.io_lock the     *)
(* requests.  What interleaves with it is the market, late or lost         *)
(* requests, the clock, risk events and a crash of the process.            *)
(*                                                                         *)
(* Simplifications: one plan, so the symbol-occupied checks never fire;    *)
(* the admission evidence about qualification, fees, book and feed is one  *)
(* refusal that may happen at any of its steps; a fill history that cannot *)
(* be read is a fault of the pass that needed it.                          *)
(***************************************************************************)
EXTENDS Venue

CONSTANTS
  Events,      \* which of EventNames can happen
  MaxFaults,   \* bound on lost or refused requests, timeouts, failed reads
  MaxCrashes   \* bound on crashes of the process

EventNames == {"daily", "external", "expired", "holdOver", "newDay", "invalidation"}

ASSUME EventsAssumption == Events \subseteq EventNames
ASSUME BoundsAssumption == MaxFaults \in Nat /\ MaxCrashes \in Nat

VARIABLES
  trade,     \* owned-trades.json: "none", "open" or "closed"
  latched,   \* owned-trades.json: strategy_invalidated
  rec,       \* exchange-orders.json (PLACE of the entry) and
             \* protective-orders.json (every other command)
  snap,      \* exchange-account.json: position, daily breach
  pc,        \* where the process is
  todo,      \* commands this pass has still to query
  batch,     \* protective actions this pass has still to execute
  current,   \* the action whose request is awaited
  risk,      \* this cycle started with a force_flatten_reason
  fresh,     \* this cycle refreshed the account snapshot
  flags,     \* facts of the environment that hold now
  sent,      \* history: commands sent to the exchange
  resent,    \* history: commands sent more than once
  faults,    \* faults so far
  crashes    \* crashes so far

durable  == <<trade, latched, rec, snap>>
history  == <<sent, resent>>
volatile == <<pc, todo, batch, current, risk, fresh>>
vars == <<book, wire, position, trade, latched, rec, snap, pc, todo, batch,
          current, risk, fresh, flags, sent, resent, faults, crashes>>

Commands == {"PLACE", "CANCEL"} \X Ids

Command(a) == <<a.op, a.id>>

EntryPlace == <<"PLACE", EntryId>>

EntryAction == [op |-> "PLACE", id |-> EntryId, quantity |-> PlanQuantity]

Labels == {"idle", "reconcile", "act", "await", "settled",
           "flat", "orderless", "prepare", "prearm", "confirm", "submit"}

TypeOK ==
  /\ VenueTypeOK
  /\ trade \in {"none", "open", "closed"}
  /\ latched \in BOOLEAN
  /\ rec \in [Commands -> Records]
  /\ snap \in [position : Quantities, daily : BOOLEAN]
  /\ pc \in Labels
  /\ todo \subseteq Commands
  /\ batch \in Batches
  /\ current \in Actions
  /\ risk \in BOOLEAN
  /\ fresh \in BOOLEAN
  /\ flags \subseteq EventNames
  /\ sent \subseteq Commands
  /\ resent \subseteq sent
  /\ faults \in 0..MaxFaults
  /\ crashes \in 0..MaxCrashes

Init ==
  /\ VenueInit
  /\ trade = "none"
  /\ latched = FALSE
  /\ rec = [c \in Commands |-> NoRecord]
  /\ snap = [position |-> 0, daily |-> FALSE]
  /\ pc = "idle"
  /\ todo = {}
  /\ batch = NoActions
  /\ current = EntryAction
  /\ risk = FALSE
  /\ fresh = FALSE
  /\ flags = {}
  /\ sent = {}
  /\ resent = {}
  /\ faults = 0
  /\ crashes = 0

--------------------------------------------------------------------------------
(* The two journals.                                                       *)

Recorded(c) == rec[c].status # "none"

Unfinished == {c \in Commands : rec[c].status \notin Terminal \cup {"none"}}

\* A response to a cancellation that ended the order is also evidence for the
\* order itself; the entry is journalled elsewhere and waits for its own query.
Adopt(c, observed) ==
  LET order == <<"PLACE", c[2]>>
  IN  [d \in Commands |->
         IF d = c \/ (/\ d = order
                      /\ c[1] = "CANCEL"
                      /\ observed.status \in Terminal
                      /\ d # EntryPlace
                      /\ Recorded(d))
           THEN observed ELSE rec[d]]

\* Mutant: what cannot be confirmed is taken to be over.
DoubtAsCanceled(c) == [rec EXCEPT ![c].status = "CANCELED"]

Doubt(c) == [rec EXCEPT ![c].status = "UNKNOWN"]

\* What advance() reports besides the failures of its trades.
Doubtful(r) == \E c \in Commands \ {EntryPlace} : r[c].status = "UNKNOWN"

Evidence == [id \in Ids |-> rec[<<"PLACE", id>>]]

Fault == faults < MaxFaults /\ faults' = faults + 1

Rest == /\ todo' = {}
        /\ batch' = NoActions
        /\ current' = EntryAction
        /\ risk' = FALSE
        /\ fresh' = FALSE

\* The pass or the admission ends early: an exception reached cycle().
GiveUp == pc' = "idle" /\ Rest

--------------------------------------------------------------------------------
(* A protective cycle: account snapshot, reconciliation, decision, actions. *)

StartCycle ==
  /\ pc = "idle"
  /\ pc' = "reconcile"
  /\ todo' = Unfinished
  /\ risk' = ("external" \in flags)
  /\ UNCHANGED <<book, wire, position, trade, latched, rec, batch, current, flags,
                 history, crashes>>

RefreshAccount ==
  /\ StartCycle
  /\ snap' = [position |-> position, daily |-> "daily" \in flags]
  /\ fresh' = TRUE
  /\ UNCHANGED faults

\* The refresh is not due yet, or failed: the pass uses the snapshot on disk.
ReuseSnapshot ==
  /\ StartCycle
  /\ fresh' = FALSE
  /\ UNCHANGED <<snap, faults>>

\* The snapshot is missing or older than 30 s: advance() raises after it
\* reconciled the journals.
SnapshotTooOld ==
  /\ pc = "reconcile"
  /\ todo = {}
  /\ ~fresh
  /\ Fault
  /\ GiveUp
  /\ UNCHANGED <<book, wire, position, durable, flags, history, crashes>>

\* The entry journal is reconciled before the protective one.
NextQuery(c) ==
  /\ pc = "reconcile"
  /\ c \in todo
  /\ EntryPlace \in todo => c = EntryPlace
  /\ todo' = todo \ {c}

QueryAnswered(c) ==
  /\ NextQuery(c)
  /\ Answerable(c[2])
  /\ rec[c].status \notin Terminal
  /\ rec' = Adopt(c, book[c[2]])
  /\ UNCHANGED <<book, wire, position, trade, latched, snap, pc, batch, current,
                 risk, fresh, flags, history, faults, crashes>>

\* Mutant: a record that its cancellation resolved meanwhile is queried again.
QueryFailsAgain(c) ==
  /\ NextQuery(c)
  /\ IF Answerable(c[2]) THEN Fault ELSE UNCHANGED faults
  /\ rec' = Doubt(c)
  /\ UNCHANGED <<book, wire, position, trade, latched, snap, pc, batch, current,
                 risk, fresh, flags, history, crashes>>

QueryFails(c) ==
  /\ NextQuery(c)
  /\ rec[c].status \notin Terminal
  /\ IF Answerable(c[2]) THEN Fault ELSE UNCHANGED faults
  /\ rec' = Doubt(c)
  /\ UNCHANGED <<book, wire, position, trade, latched, snap, pc, batch, current,
                 risk, fresh, flags, history, crashes>>

\* Resolved meanwhile by the response to its cancellation.
QuerySkipped(c) ==
  /\ NextQuery(c)
  /\ rec[c].status \in Terminal
  /\ UNCHANGED <<book, wire, position, durable, pc, batch, current, risk, fresh,
                 flags, history, faults, crashes>>

Reconcile ==
  \E c \in todo : QueryAnswered(c) \/ QueryFails(c) \/ QuerySkipped(c)

Deciding == pc = "reconcile" /\ todo = {}

Continue(r) == pc' = (IF Doubtful(r) THEN "idle" ELSE "settled")

\* No open trade to look after.
NothingOwned ==
  /\ Deciding
  /\ trade # "open"
  /\ Continue(rec)
  /\ UNCHANGED <<book, wire, position, durable, todo, batch, current, risk, fresh,
                 flags, history, faults, crashes>>

\* The trade was prepared but its entry was never journalled.
PreparedOnly ==
  /\ Deciding
  /\ trade = "open"
  /\ ~Recorded(EntryPlace)
  /\ snap.position = 0
  /\ LET pending == OpenExits(Evidence)
         giveUp  == snap.daily \/ "expired" \in flags
     IN  /\ trade' = IF pending = {} THEN "closed" ELSE "open"
         /\ batch' = [NoActions EXCEPT !.first = IF giveUp THEN Cancels(pending) ELSE {}]
  /\ pc' = "act"
  /\ UNCHANGED <<book, wire, position, latched, rec, snap, todo, current, risk,
                 fresh, flags, history, faults, crashes>>

\* The entry is journalled and its cumulative fills are known: decide from the
\* evidence, if it accounts for exactly the observed position.
Protect ==
  /\ Deciding
  /\ trade = "open"
  /\ Recorded(EntryPlace)
  /\ rec[EntryPlace].status # "UNKNOWN"
  /\ \E exited \in Quantities, closedBelow \in BOOLEAN :
       LET ev      == Evidence
           owned   == ev[EntryId].filled - exited
           invalid == Staged /\ snap.position # 0 /\ (latched \/ closedBelow)
           chosen  == ProtectiveActions(ev, exited, owned, snap.daily \/ risk, invalid,
                                        "expired" \in flags, "holdOver" \in flags)
       IN  /\ closedBelow => "invalidation" \in Events
           /\ exited = ExitFilled(ev)
           /\ snap.position = owned
           /\ latched' = (latched \/ invalid)
           /\ batch' = chosen
           /\ trade' = IF ~EntryPending(ev) /\ owned = 0 /\ chosen = NoActions
                         THEN "closed" ELSE "open"
  /\ pc' = "act"
  /\ UNCHANGED <<book, wire, position, rec, snap, todo, current, risk, fresh, flags,
                 history, faults, crashes>>

\* The trade cannot be judged in this pass: unresolved entry, unreadable fill
\* history, exposure before there is an entry.
Unresolved ==
  /\ IF Recorded(EntryPlace)
       THEN IF rec[EntryPlace].status = "UNKNOWN" THEN UNCHANGED faults ELSE Fault
       ELSE snap.position # 0 /\ UNCHANGED faults
  /\ UNCHANGED latched

\* The position is not what the evidence accounts for, which only the decision
\* finds: an invalidation of the strategy has been saved by then.
Unaccounted ==
  /\ Recorded(EntryPlace)
  /\ rec[EntryPlace].status # "UNKNOWN"
  /\ snap.position # rec[EntryPlace].filled - ExitFilled(Evidence)
  /\ \E closedBelow \in BOOLEAN :
       /\ closedBelow => "invalidation" \in Events
       /\ latched' = (latched \/ (Staged /\ snap.position # 0 /\ closedBelow))
  /\ UNCHANGED faults

Unreconciled ==
  /\ Deciding
  /\ trade = "open"
  /\ Unresolved \/ Unaccounted
  /\ GiveUp
  /\ UNCHANGED <<book, wire, position, trade, rec, snap, flags, history, crashes>>

--------------------------------------------------------------------------------
(* ProtectiveExecutor.execute and LiveOrderBook.submit share their shape:  *)
(* the intention is durable before its request is sent, and a command that *)
(* is on record is never sent again.                                       *)

\* Mutant: the intention is journalled with the response, not before it.
SendUnjournalled(a) ==
  /\ ~Recorded(Command(a))
  /\ rec' = rec
  /\ wire' = wire \cup {a}
  /\ sent' = sent \cup {Command(a)}
  /\ resent' = resent \cup ({Command(a)} \cap sent)
  /\ current' = a
  /\ pc' = "await"

Send(a) ==
  /\ ~Recorded(Command(a))
  /\ rec' = [rec EXCEPT ![Command(a)] =
               [status |-> "SUBMITTING", filled |-> 0, quantity |-> a.quantity]]
  /\ wire' = wire \cup {a}
  /\ sent' = sent \cup {Command(a)}
  /\ resent' = resent \cup ({Command(a)} \cap sent)
  /\ current' = a
  /\ pc' = "await"

Ready == IF batch.first # {} THEN batch.first ELSE batch.next

Without(a) == [first |-> batch.first \ {a}, next |-> batch.next \ {a}]

ExecuteAction(a) ==
  /\ pc = "act"
  /\ a \in Ready
  /\ Send(a)
  /\ batch' = Without(a)
  /\ UNCHANGED <<book, position, trade, latched, snap, todo, risk, fresh, flags,
                 faults, crashes>>

\* The quantity of a cancellation is not compared; all else is fixed by the id.
Collides(a) == a.op = "PLACE" /\ rec[Command(a)].quantity # a.quantity

\* The command is on record: its state is returned and nothing is sent, unless
\* the record was made for another intention.
ReuseRecord(a) ==
  /\ pc = "act"
  /\ a \in Ready
  /\ Recorded(Command(a))
  /\ IF Collides(a) THEN GiveUp
                    ELSE /\ batch' = Without(a)
                         /\ UNCHANGED <<pc, todo, current, risk, fresh>>
  /\ UNCHANGED <<book, wire, position, durable, flags, history, faults, crashes>>

ActionsDone ==
  /\ pc = "act"
  /\ batch = NoActions
  /\ Continue(rec)
  /\ UNCHANGED <<book, wire, position, durable, todo, batch, current, risk, fresh,
                 flags, history, faults, crashes>>

Resume ==
  IF Command(current) = EntryPlace
    THEN GiveUp    \* register_entry finds the prepared trade; admission is over
    ELSE /\ pc' = IF current.id = PrearmId /\ current.op = "PLACE" THEN "confirm" ELSE "act"
         /\ current' = EntryAction
         /\ UNCHANGED <<todo, batch, risk, fresh>>

Respond ==
  /\ pc = "await"
  /\ current \in wire
  /\ ~Refused(current)
  /\ book' = Executed(current)
  /\ rec' = Adopt(Command(current), book'[current.id])
  /\ wire' = wire \ {current}
  /\ Resume
  /\ UNCHANGED <<position, trade, latched, snap, flags, history, faults, crashes>>

\* The exchange answers with an error; the command stays UNKNOWN.
RespondError ==
  /\ pc = "await"
  /\ current \in wire
  /\ IF Refused(current) THEN UNCHANGED faults ELSE Fault
  /\ wire' = wire \ {current}
  /\ rec' = Doubt(Command(current))
  /\ GiveUp
  /\ UNCHANGED <<book, position, trade, latched, snap, flags, history, crashes>>

Timeout ==
  /\ pc = "await"
  /\ Fault
  /\ rec' = Doubt(Command(current))
  /\ GiveUp
  /\ UNCHANGED <<book, wire, position, trade, latched, snap, flags, history, crashes>>

Awaited(m) == pc = "await" /\ current = m

\* A request nobody waits for any more is executed late, refused, or lost.
LateRequest(m) ==
  /\ m \in wire
  /\ ~Awaited(m)
  /\ wire' = wire \ {m}
  /\ book' = IF Refused(m) THEN book ELSE Executed(m)
  /\ UNCHANGED <<position, durable, volatile, flags, history, faults, crashes>>

LostRequest(m) ==
  /\ m \in wire
  /\ ~Awaited(m)
  /\ Fault
  /\ wire' = wire \ {m}
  /\ UNCHANGED <<book, position, durable, volatile, flags, history, crashes>>

--------------------------------------------------------------------------------
(* The end of a clean pass, and the admission of an entry after it.        *)

\* Mutant: the end of any clean pass forgets the risk event.
AfterAnyPass == flags \ {"external"}

\* The risk event is forgotten when the refreshed account shows no position.
AfterRisk ==
  IF risk /\ fresh /\ snap.position = 0 THEN flags \ {"external"} ELSE flags

EndCycle ==
  /\ pc = "settled"
  /\ flags' = AfterRisk
  /\ GiveUp
  /\ UNCHANGED <<book, wire, position, durable, history, faults, crashes>>

\* The intention is young enough and neither the daily budget nor an entry
\* block stands against it.
Authorized(daily, now) == ~daily /\ now \cap {"expired", "external"} = {}

\* A second refresh, because the pass may have changed the account: it reads the
\* positions first.
BeginAdmission ==
  /\ pc = "settled"
  /\ fresh
  /\ snap' = [position |-> position, daily |-> "daily" \in flags]
  /\ flags' = AfterRisk
  /\ pc' = "flat"
  /\ UNCHANGED <<book, wire, position, trade, latched, rec, todo, batch, current,
                 risk, fresh, history, faults, crashes>>

\* ... and the open orders next, triggered stops among them; the plan is judged
\* against both.
SymbolIsFlat ==
  /\ pc = "flat"
  /\ snap.position = 0
  /\ \A id \in Ids : book[id].status # "NEW"
  /\ Authorized(snap.daily, flags)
  /\ pc' = "orderless"
  /\ UNCHANGED <<book, wire, position, durable, todo, batch, current, risk, fresh,
                 flags, history, faults, crashes>>

\* Conditional orders are listed by a request of their own.  Whether one that has
\* just triggered is listed does not matter.
SymbolIsOrderless ==
  /\ pc = "orderless"
  /\ \A s \in StopIds : book[s].status # "CONDITIONAL_NEW"
  /\ pc' = "prepare"
  /\ UNCHANGED <<book, wire, position, durable, todo, batch, current, risk, fresh,
                 flags, history, faults, crashes>>

\* Mutant: ownership is only registered with the entry's response.
PrepareNothing ==
  /\ pc = "prepare"
  /\ pc' = "prearm"
  /\ UNCHANGED <<book, wire, position, durable, todo, batch, current, risk, fresh,
                 flags, history, faults, crashes>>

\* Ownership is durable before any request; a known plan just gets its id back.
Prepare ==
  /\ pc = "prepare"
  /\ trade' = IF trade = "none" THEN "open" ELSE trade
  /\ pc' = "prearm"
  /\ UNCHANGED <<book, wire, position, latched, rec, snap, todo, batch, current,
                 risk, fresh, flags, history, faults, crashes>>

Prearm(a) ==
  /\ pc = "prearm"
  /\ a \in PrearmActions
  /\ Send(a)
  /\ UNCHANGED <<book, position, trade, latched, snap, todo, batch, risk, fresh,
                 flags, faults, crashes>>

PrearmRecorded(a) ==
  /\ pc = "prearm"
  /\ a \in PrearmActions
  /\ Recorded(Command(a))
  /\ pc' = "confirm"
  /\ UNCHANGED <<book, wire, position, durable, todo, batch, current, risk, fresh,
                 flags, history, faults, crashes>>

\* get_conditional_order must show the whole plan covered.
ConfirmProtection ==
  /\ pc = "confirm"
  /\ EntryIsProtected([id \in Ids |-> IF id = PrearmId THEN book[id] ELSE NoRecord])
  /\ pc' = "submit"
  /\ UNCHANGED <<book, wire, position, durable, todo, batch, current, risk, fresh,
                 flags, history, faults, crashes>>

\* entry_guard runs inside submit(), with no await between it and the request.
SubmitEntry ==
  /\ pc = "submit"
  /\ Authorized(snap.daily, flags)
  /\ Send(EntryAction)
  /\ UNCHANGED <<book, position, trade, latched, snap, todo, batch, risk, fresh,
                 flags, faults, crashes>>

\* The entry is on record already, or some evidence does not authorise it.
AbandonAdmission ==
  /\ pc \in {"flat", "orderless", "prepare", "confirm", "submit"}
  /\ GiveUp
  /\ UNCHANGED <<book, wire, position, durable, flags, history, faults, crashes>>

--------------------------------------------------------------------------------
(* The environment of the process.                                         *)

\* The reason of a forced flattening lives in memory only.
Crash ==
  /\ crashes < MaxCrashes
  /\ crashes' = crashes + 1
  /\ flags' = flags \ {"external"}
  /\ GiveUp
  /\ UNCHANGED <<book, wire, position, durable, history, faults>>

\* The hold time starts with the first fill and outlasts the entry's expiry.
Happens(e) ==
  /\ e \in Events \ flags
  /\ e \notin {"newDay", "invalidation"}
  /\ e = "holdOver" => "expired" \in flags /\ book[EntryId].filled > 0
  /\ flags' = flags \cup {e}
  /\ UNCHANGED <<book, wire, position, durable, volatile, history, faults, crashes>>

\* The daily breach is latched until the next UTC day.
NewDay ==
  /\ "newDay" \in Events
  /\ "daily" \in flags
  /\ flags' = flags \ {"daily"}
  /\ UNCHANGED <<book, wire, position, durable, volatile, history, faults, crashes>>

Cycle ==
  \/ RefreshAccount \/ ReuseSnapshot \/ SnapshotTooOld
  \/ Reconcile
  \/ NothingOwned \/ PreparedOnly \/ Protect \/ Unreconciled
  \/ \E a \in Ready : ExecuteAction(a) \/ ReuseRecord(a)
  \/ ActionsDone
  \/ Respond \/ RespondError \/ Timeout
  \/ EndCycle

Admission ==
  \/ BeginAdmission \/ SymbolIsFlat \/ SymbolIsOrderless \/ Prepare
  \/ \E a \in PrearmActions : Prearm(a) \/ PrearmRecorded(a)
  \/ ConfirmProtection \/ SubmitEntry \/ AbandonAdmission

Exchange ==
  \/ Market /\ UNCHANGED <<durable, volatile, flags, history, faults, crashes>>
  \/ \E m \in wire : LateRequest(m) \/ LostRequest(m)

Next ==
  \/ Cycle
  \/ Admission
  \/ Exchange
  \/ Crash
  \/ \E e \in Events : Happens(e)
  \/ NewDay

Spec == Init /\ [][Next]_vars

--------------------------------------------------------------------------------
(* Safety.                                                                 *)

OnWire(op, id) == \E m \in wire : m.op = op /\ m.id = id

EntryCanFill == book[EntryId].status = "NEW" \/ OnWire("PLACE", EntryId)

\* No command is ever sent twice, whatever timed out, crashed or was retried in
\* a later cycle: an order that may already exist is reconciled, not reposted.
NeverResent == resent = {}

\* The journals never run ahead of the exchange: a recorded fill happened, and
\* a record that says an order is over holds the exchange's final word on it
\* (reconcile() never looks at such a record again).
EvidenceIsConservative ==
  \A c \in Commands :
    Recorded(c) =>
      /\ rec[c].filled <= book[c[2]].filled
      /\ rec[c].status \in Terminal => rec[c] = book[c[2]]

\* What the journals have established is never taken back: a recorded fill does
\* not shrink, not even while a record is uncertain, and a record that is over
\* stays as it is.
EvidenceOnlyGrows ==
  [][\A c \in Commands :
       Recorded(c) => /\ rec'[c].filled >= rec[c].filled
                      /\ rec[c].status \in Terminal => rec'[c] = rec[c]]_vars

\* "Leave accepted stops intact until an exchange fill proves the position
\* flat": a request to cancel a stop travels only when there is no position and
\* no entry that could still open one.
StopsIntactUntilFlat ==
  (\E s \in StopIds : OnWire("CANCEL", s)) => position = 0 /\ ~EntryCanFill

\* Whenever there is a position, stops at the exchange cover all of it, unless
\* the exchange itself triggered or ended a stop.
PositionCovered ==
  position > 0 =>
    \/ StopCoverage(book) >= position
    \/ \E s \in StopIds :
         book[s].status \in {"TRIGGERED", "NEW", "FILLED", "EXPIRED", "REJECTED"}

\* "An uncertain or pending market closure is reconciled, never blindly
\* duplicated": at most one market closure is travelling or open.
FlattenNeverDuplicated ==
  Cardinality({f \in FlattenIds : book[f].status = "NEW" \/ OnWire("PLACE", f)}) <= 1

\* The two targets together never ask for more than the entry has bought:
\* what they filled, what is open and what is still travelling.
TargetsWithinFill ==
  LET open == {t \in TargetIds : book[t].status = "NEW"}
      travelling == {t \in TargetIds : OnWire("PLACE", t)}
  IN  FilledBy(book, TargetIds) + OutstandingOf(book, open)
        + MapThenSumSet(LAMBDA t : rec[<<"PLACE", t>>].quantity, travelling)
        <= book[EntryId].filled

\* "Persist complete ownership intent before either bracket or entry network
\* I/O": a position or a working entry belongs to a trade that is open, so that
\* the coordinator looks after it.
ExposureIsOwned == position > 0 \/ EntryCanFill => trade = "open"

--------------------------------------------------------------------------------
(* Refinement.                                                             *)

Owned == INSTANCE OwnedTrade WITH
  armed <- book[PrearmId].status # "none",
  entry <- IF EntryCanFill THEN "live"
           ELSE IF Recorded(EntryPlace) THEN "over" ELSE "unsent",
  held  <- position

\* Journals, requests and cycles implement the owned trade: owned before it is
\* armed, armed before it enters, entered at most once, and written off only when
\* its entry is over and nothing is held.
ImplementsOwnedTrade == Owned!Spec

--------------------------------------------------------------------------------
(* Liveness.  The runtime runs a cycle about every second and refreshes the *)
(* account at least every ten, the wire delivers what it does not lose, and *)
(* market orders execute.  Nothing forces the entry or a target to fill, a  *)
(* stop to trigger, or a fault or a crash to happen.                        *)

Progress ==
  \/ ReuseSnapshot
  \/ \E c \in todo : QueryAnswered(c) \/ QuerySkipped(c)
                     \/ (~Answerable(c[2]) /\ QueryFails(c))
  \/ NothingOwned \/ PreparedOnly \/ Protect
  \/ (Unreconciled /\ UNCHANGED faults)
  \/ \E a \in Ready : ExecuteAction(a) \/ ReuseRecord(a)
  \/ ActionsDone
  \/ Respond \/ (Refused(current) /\ RespondError)
  \/ EndCycle
  \/ SymbolIsFlat \/ SymbolIsOrderless \/ Prepare
  \/ \E a \in PrearmActions : Prearm(a) \/ PrearmRecorded(a)
  \/ ConfirmProtection \/ SubmitEntry \/ AbandonAdmission

\* Market orders are the closures and the children of triggered stops.
MarketProgress ==
  /\ \/ \E x \in FlattenIds \cup StopIds : ExitFills(x)
     \/ \E x \in ExitIds : ExcessExpires(x)
     \/ \E s \in StopIds : ChildAppears(s)
  /\ UNCHANGED <<durable, volatile, flags, history, faults, crashes>>

Fairness ==
  /\ WF_vars(Progress)
  /\ SF_vars(RefreshAccount)
  /\ WF_vars(\E m \in wire : LateRequest(m))
  /\ WF_vars(MarketProgress)

FairSpec == Spec /\ Fairness

\* "Cancel new entries and protectively flatten owned positions when breached":
\* after a breach of the daily loss limit nothing is held and no entry works.
BreachFlattens ==
  "daily" \in flags ~> ("daily" \notin flags \/ (position = 0 /\ ~EntryCanFill))

\* A risk event of the account stream ends every working entry ...
RiskEventStopsEntries == "external" \in flags ~> ~EntryCanFill

\* ... and flattens what is owned.
RiskEventFlattens == "external" \in flags ~> (position = 0 /\ ~EntryCanFill)

\* Once its entry has expired and its hold time is over, a trade is closed.
TradeCloses ==
  (trade = "open" /\ {"expired", "holdOver"} \subseteq flags) ~> trade = "closed"

================================================================================
