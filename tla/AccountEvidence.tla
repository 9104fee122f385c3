---------------------------- MODULE AccountEvidence ----------------------------
(***************************************************************************)
(* The authenticated account observation of the qualified runtime          *)
(* (execution/account_evidence.py) and the daily loss circuit it feeds     *)
(* (execution/daily_risk.py): a chain of separate requests, an income      *)
(* ledger that must explain the wallet, a baseline captured at midnight    *)
(* UTC, and three files written one after the other by a process that may  *)
(* die between any two of them.                                            *)
(*                                                                         *)
(* Simplifications.                                                        *)
(*  - Time is counted in ticks; only the order of requests within a tick   *)
(*    and the tick in which a row is booked matter.                        *)
(*  - The account is flat exactly when its unrealized result is zero.      *)
(*  - One asset, one environment, one policy; well-formed answers.  What   *)
(*    is malformed ends an observation like a failed request.              *)
(*  - daily_loss_usdt, which only the web page shows, is left out.         *)
(***************************************************************************)
EXTENDS Integers, Sequences, FiniteSetsExt

CONSTANTS
  StartWallet,   \* wallet balance at time 0
  PnLs,          \* amounts of REALIZED_PNL, COMMISSION, FUNDING_FEE ... rows
  Transfers,     \* amounts of TRANSFER rows
  Upnls,         \* unrealized results
  LimitPct,      \* daily loss limit in percent of the day's first equity
  Day, Grace,    \* ticks per UTC day; ticks the midnight capture may take
  Overlap,       \* ticks a ledger query reaches back before its cursor
  MayCrash,      \* TRUE: the process may die
  MaxDelay,      \* the income history lists a row within so many ticks
  MaxTime,       \* bound on the clock
  MaxRows        \* bound on income rows

ASSUME AmountsAssumption ==
  StartWallet \in Int /\ PnLs \subseteq Int /\ Transfers \subseteq Int
ASSUME UpnlsAssumption == Upnls \subseteq Int /\ 0 \in Upnls
ASSUME LimitAssumption == LimitPct \in 1..99
ASSUME ClockAssumption == Day \in Nat \ {0} /\ Grace \in Nat /\ MaxTime \in Nat
ASSUME OverlapAssumption == Overlap \in Nat /\ MaxDelay \in 1..Overlap
ASSUME RowsAssumption == MaxRows \in Nat /\ MayCrash \in BOOLEAN

VARIABLES
  now,      \* the clock
  income,   \* income rows by tranId: [kind, amount, time]
  listed,   \* rows the income history shows
  wallet,   \* wallet balance of the account
  upnl,     \* its unrealized result
  ledger,   \* exchange-ledger.json
  saved,    \* daily-risk.json
  snap,     \* exchange-account.json
  tracker,  \* DailyRiskTracker.state
  pc,       \* where observe_account is
  seen,     \* the balance it has read
  stamp,    \* its timestamp_ms
  flat,     \* it found no position and no order
  flows,    \* its daily_external_flows
  exact,    \* history: the income history was up to date when it was read
  draft,    \* the ledger and the snapshot it is about to write
  word      \* history: the last daily verdict that was published

exchange == <<now, income, listed, wallet, upnl>>
files    == <<ledger, saved, snap>>
locals   == <<seen, stamp, flat, flows, exact, draft>>
vars == <<now, income, listed, wallet, upnl, ledger, saved, snap, tracker, pc,
          seen, stamp, flat, flows, exact, draft, word>>

Kinds == {"pnl", "transfer"}
Times == 0..MaxTime
Rows  == DOMAIN income

Row == [kind : Kinds, amount : PnLs \cup Transfers, time : Times]

DayOf(t) == t \div Day

Total(ids) == MapThenSumSet(LAMBDA i : income[i].amount, ids)

--------------------------------------------------------------------------------
(* Evidence at rest.  "rows" of a baseline and "exact" and "hides" of a    *)
(* verdict are history: they are not in the files.                         *)

NoLedger == [started |-> -1, cursor |-> -1, wallet |-> 0, rows |-> {}]

NoDay == [day |-> -1, start |-> 0, captured |-> -1, last |-> -1,
          breached |-> FALSE, exact |-> TRUE, rows |-> {}]

NoVerdict == [day |-> -1, start |-> 0, captured |-> -1, breached |-> FALSE,
              exact |-> TRUE, hides |-> FALSE]

NoSnapshot == [stamp |-> -1, verified |-> FALSE, risk |-> NoVerdict]

Ids == 1..MaxRows

Ledgers == [started : Times \cup {-1}, cursor : Times \cup {-1}, wallet : Int,
            rows : SUBSET Ids]

States == [day : Times \cup {-1}, start : Int, captured : Times \cup {-1},
           last : Times \cup {-1}, breached : BOOLEAN, exact : BOOLEAN,
           rows : SUBSET Ids]

Verdicts == [day : Times \cup {-1}, start : Int, captured : Times \cup {-1},
             breached : BOOLEAN, exact : BOOLEAN, hides : BOOLEAN]

Snapshots == [stamp : Times \cup {-1}, verified : BOOLEAN, risk : Verdicts]

TypeOK ==
  /\ now \in Times
  /\ income \in Seq(Row) /\ Len(income) <= MaxRows
  /\ listed \subseteq Rows
  /\ wallet \in Int
  /\ upnl \in Upnls
  /\ ledger \in Ledgers
  /\ saved \in States
  /\ snap \in Snapshots
  /\ tracker \in States
  /\ pc \in {"idle", "balance", "daily", "ledger", "save", "publish"}
  /\ seen \in [wallet : Int, equity : Int, rows : SUBSET Ids]
  /\ stamp \in Times
  /\ flat \in BOOLEAN
  /\ flows \subseteq Ids
  /\ exact \in BOOLEAN
  /\ draft \in [ledger : Ledgers, snap : Snapshots]
  /\ word \in Verdicts

NoBalance == [wallet |-> 0, equity |-> 0, rows |-> {}]

NoDraft == [ledger |-> NoLedger, snap |-> NoSnapshot]

\* The locals of observe_account that no later step reads.
Spent == seen' = NoBalance /\ stamp' = 0 /\ flat' = FALSE /\ flows' = {} /\ exact' = TRUE

Forgotten == Spent /\ draft' = NoDraft

Init ==
  /\ now = 0
  /\ income = <<>>
  /\ listed = {}
  /\ wallet = StartWallet
  /\ upnl \in Upnls
  /\ ledger = NoLedger
  /\ saved = NoDay
  /\ snap = NoSnapshot
  /\ tracker = NoDay
  /\ pc = "idle"
  /\ seen = NoBalance
  /\ stamp = 0
  /\ flat = FALSE
  /\ flows = {}
  /\ exact = TRUE
  /\ draft = NoDraft
  /\ word = NoVerdict

--------------------------------------------------------------------------------
(* The exchange.                                                           *)

Overdue(i) == income[i].time + MaxDelay <= now + 1

Tick ==
  /\ now < MaxTime
  /\ \A i \in Rows \ listed : ~Overdue(i)
  /\ now' = now + 1
  /\ UNCHANGED <<income, listed, wallet, upnl, files, tracker, pc, locals, word>>

\* The wallet changes at once; the income history may show the row later.
Book(kind, amount) ==
  /\ Len(income) < MaxRows
  /\ income' = Append(income, [kind |-> kind, amount |-> amount, time |-> now])
  /\ wallet' = wallet + amount
  /\ listed' \in {listed, listed \cup {Len(income) + 1}}
  /\ UNCHANGED <<now, files, tracker, pc, locals, word>>

\* A result is realized while a position is held, which may end with it.
Realize == upnl # 0 /\ \E a \in PnLs, u \in Upnls : Book("pnl", a) /\ upnl' = u

Transfer == (\E a \in Transfers : Book("transfer", a)) /\ UNCHANGED upnl

List(i) ==
  /\ i \in Rows \ listed
  /\ listed' = listed \cup {i}
  /\ UNCHANGED <<now, income, wallet, upnl, files, tracker, pc, locals, word>>

Mark ==
  /\ upnl' \in Upnls \ {upnl}
  /\ UNCHANGED <<now, income, listed, wallet, files, tracker, pc, locals, word>>

--------------------------------------------------------------------------------
(* observe_account: its requests, in order.                                *)

ReadBalance ==
  /\ pc = "idle"
  /\ seen' = [wallet |-> wallet, equity |-> wallet + upnl, rows |-> Rows]
  /\ pc' = "balance"
  /\ UNCHANGED <<exchange, files, tracker, stamp, flat, flows, exact, draft, word>>

\* Positions, orders and configuration follow; then the snapshot is dated.
Stamp ==
  /\ pc = "balance"
  /\ stamp' = now
  /\ flat' = (upnl = 0)
  /\ pc' = "daily"
  /\ UNCHANGED <<exchange, files, tracker, seen, flows, exact, draft, word>>

Between(from, to) == {i \in listed : income[i].time \in from..to}

QueryDaily ==
  /\ pc = "daily"
  /\ flows' = {i \in Between(DayOf(stamp) * Day, stamp) : income[i].kind = "transfer"}
  /\ exact' = (\A i \in Rows : income[i].time <= stamp => i \in listed)
  /\ pc' = "ledger"
  /\ UNCHANGED <<exchange, files, tracker, seen, stamp, flat, draft, word>>

\* Mutant: the next query starts where the last one ended.
MergedFromCursor ==
  [ledger EXCEPT !.rows = @ \cup {i \in Between(ledger.cursor, stamp) :
                                    income[i].time > ledger.started},
                 !.cursor = stamp]

\* Mutant: the cursor is set behind the time of the query.
MergedBeyond ==
  LET from == Max({ledger.started, ledger.cursor - Overlap})
  IN  [ledger EXCEPT !.rows = @ \cup {i \in Between(from, stamp) :
                                        income[i].time > ledger.started},
                     !.cursor = stamp + 1]

Merged ==
  LET from == Max({ledger.started, ledger.cursor - Overlap})
  IN  [ledger EXCEPT !.rows = @ \cup {i \in Between(from, stamp) :
                                        income[i].time > ledger.started},
                     !.cursor = stamp]

Opening == [started |-> stamp, cursor |-> stamp, wallet |-> seen.wallet, rows |-> {}]

Updated == IF ledger = NoLedger THEN Opening ELSE Merged

Explained(l) == seen.wallet = l.wallet + Total(l.rows)

\* A first ledger needs a flat account; any request may fail.
GiveUp ==
  /\ \/ pc \in {"balance", "daily"}
     \/ pc = "ledger" /\ (ledger # NoLedger \/ ~flat)
  /\ pc' = "idle"
  /\ Forgotten
  /\ UNCHANGED <<exchange, files, tracker, word>>

--------------------------------------------------------------------------------
(* The daily circuit: DailyRiskTracker.observe, called once the ledger     *)
(* explains the wallet.                                                    *)

Today == DayOf(stamp)

\* No baseline for today, and too late to capture one.
Missed == tracker.day # Today /\ stamp % Day > Grace

\* The state observe works on: today's, or a new one in memory.
Current ==
  IF tracker.day = Today THEN tracker
  ELSE [day |-> Today, start |-> seen.equity, captured |-> stamp, last |-> stamp,
        breached |-> FALSE, exact |-> exact /\ ledger # NoLedger, rows |-> seen.rows]

Refusable(c) ==
  \/ stamp < c.last
  \/ \E i \in flows : income[i].time = c.captured
  \/ c.start <= 0

\* Mutant: deposits are not told from profits.
LossOfEquity(c) == Max({0, c.start - seen.equity})

Loss(c) ==
  Max({0, c.start + Total({i \in flows : income[i].time > c.captured}) - seen.equity})

Exceeds(loss, c) == 100 * loss >= LimitPct * c.start

\* Mutant: the verdict follows the equity back up.
Unlatched(c) == [c EXCEPT !.breached = Exceeds(Loss(c), c), !.last = stamp]

Observed(c) == [c EXCEPT !.breached = @ \/ Exceeds(Loss(c), c), !.last = stamp]

\* What trading has really lost, in the balance that was read.
TrueLoss(c) ==
  c.start + Total({i \in seen.rows \ c.rows : income[i].kind = "transfer"}) - seen.equity

Verdict(c) ==
  [day |-> c.day, start |-> c.start, captured |-> c.captured, breached |-> c.breached,
   exact |-> exact /\ c.exact, hides |-> Loss(c) < TrueLoss(c)]

Drafted(verified, risk) ==
  /\ pc = "ledger"
  /\ ledger = NoLedger => flat
  /\ Explained(Updated) = verified
  /\ draft' = [ledger |-> Updated,
               snap |-> [stamp |-> stamp, verified |-> verified, risk |-> risk]]
  /\ pc' = "save"
  /\ Spent
  /\ UNCHANGED <<exchange, ledger, snap, word>>

JudgeUnreconciled ==
  /\ Drafted(FALSE, NoVerdict)
  /\ UNCHANGED <<tracker, saved>>

JudgeMissed ==
  /\ Missed
  /\ Drafted(TRUE, NoVerdict)
  /\ UNCHANGED <<tracker, saved>>

\* observe raises after it has replaced yesterday's state in memory.
JudgeRefused ==
  /\ ~Missed
  /\ Refusable(Current)
  /\ Drafted(TRUE, NoVerdict)
  /\ tracker' = Current
  /\ UNCHANGED saved

\* Mutant: only a breach is worth a write of daily-risk.json.
ObservedUnsaved ==
  /\ ~Missed
  /\ ~Refusable(Current)
  /\ tracker' = Observed(Current)
  /\ saved' = IF tracker'.breached THEN tracker' ELSE saved
  /\ Drafted(TRUE, Verdict(tracker'))

JudgeObserved ==
  /\ ~Missed
  /\ ~Refusable(Current)
  /\ tracker' = Observed(Current)
  /\ saved' = tracker'
  /\ Drafted(TRUE, Verdict(tracker'))

--------------------------------------------------------------------------------
(* The ledger, then the snapshot.                                          *)

\* Mutant: the ledger is not written.
SkipLedger ==
  /\ pc = "save"
  /\ pc' = "publish"
  /\ UNCHANGED <<exchange, files, tracker, locals, word>>

SaveLedger ==
  /\ pc = "save"
  /\ ledger' = draft.ledger
  /\ pc' = "publish"
  /\ UNCHANGED <<exchange, saved, snap, tracker, locals, word>>

Publish ==
  /\ pc = "publish"
  /\ snap' = draft.snap
  /\ word' = IF draft.snap.risk = NoVerdict THEN word ELSE draft.snap.risk
  /\ pc' = "idle"
  /\ Forgotten
  /\ UNCHANGED <<exchange, ledger, saved, tracker>>

\* The files survive; the new process reads daily-risk.json.
Crash ==
  /\ MayCrash
  /\ pc # "idle" \/ tracker # saved
  /\ tracker' = saved
  /\ pc' = "idle"
  /\ Forgotten
  /\ UNCHANGED <<exchange, files, word>>

Judge == JudgeUnreconciled \/ JudgeMissed \/ JudgeRefused \/ JudgeObserved

Next ==
  \/ Tick \/ Realize \/ Transfer \/ (\E i \in Rows : List(i)) \/ Mark
  \/ ReadBalance \/ Stamp \/ QueryDaily \/ GiveUp
  \/ Judge \/ SaveLedger \/ Publish
  \/ Crash

Spec == Init /\ [][Next]_vars

--------------------------------------------------------------------------------
(* Safety.                                                                 *)

\* "latch a breach until the next day": once a breach has been published, no
\* later verdict of that day grants a budget, whatever the equity does and
\* however often the process dies.
BreachIsFinal == [][word'.day = word.day /\ word.breached => word'.breached]_vars

\* A day is judged against one baseline: a process that died after it had taken
\* a baseline in memory never makes its successor publish another one.
OneBaseline ==
  [][word'.day = word.day =>
       word'.start = word.start /\ word'.captured = word.captured]_vars

\* The re-queried overlap is long enough: income that the cursor has passed by
\* more than the listing delay is in the ledger, whatever request failed and
\* whichever observation was lost before its ledger was written.
NothingForgotten ==
  ledger # NoLedger =>
    \A i \in Rows :
      income[i].time \in (ledger.started + 1)..(ledger.cursor - MaxDelay)
        => i \in ledger.rows

\* A snapshot never knows more than a restarted process would: the ledger it
\* was reconciled with and the verdict it carries are on disk before it is.
SnapshotIsBacked ==
  /\ snap.stamp <= ledger.cursor
  /\ snap.risk # NoVerdict =>
       \/ saved.day > snap.risk.day
       \/ /\ saved.day = snap.risk.day
          /\ saved.start = snap.risk.start
          /\ saved.last >= snap.stamp
          /\ snap.risk.breached => saved.breached

\* "Deposits cannot erase trading losses": a published verdict never shows less
\* than trading has lost ...
DepositsHideNothing == ~snap.risk.hides

\* No two sets of rows have the same total: a drift of zero is no coincidence.
NoCoincidence == \A A, B \in SUBSET Rows : Total(A) = Total(B) => A = B

\* ... at least while the income history is up to date when it is read, the day's
\* baseline was captured from a balance that a ledger explained, and no drift of
\* the ledger is zero by coincidence.
ExactVerdictsHideNothing == NoCoincidence /\ snap.risk.exact => DepositsHideNothing

================================================================================
