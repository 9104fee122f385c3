------------------------- MODULE AccountEvidenceProofs -------------------------
(***************************************************************************)
(* Proofs about AccountEvidence for all amounts, day lengths, delays and   *)
(* bounds: type correctness, the finality of a breach and of a baseline,   *)
(* that neither income nor what has been published is ever lost, and that  *)
(* an exact verdict hides no loss behind a deposit.                        *)
(*                                                                         *)
(* What a published snapshot says is only compared with the next one; that *)
(* they agree across restarts rests on the order of the files.  Chain says *)
(* so: what is published is in the draft before, in daily-risk.json before *)
(* that, and the tracker's memory differs from that file only by a day the *)
(* file does not know yet.                                                 *)
(*                                                                         *)
(* What a verdict tells rests on totals: the ledger is founded on a set of *)
(* rows B, and a drift of zero says that the balance which was read holds  *)
(* B and the rows of the ledger and no others (NoDrift).  A baseline taken *)
(* from such a balance divides the rows of its day into what it holds and  *)
(* what came later (Grounded), so that the flows the circuit adds are the  *)
(* transfers the baseline does not hold (FlowsAreDeposits).                *)
(***************************************************************************)
EXTENDS AccountEvidence, LotSums

\* Evidence of a day that repeats what an earlier verdict said of it.
Backs(t, v) ==
  /\ t.day >= v.day
  /\ t.day = v.day => /\ t.start = v.start
                      /\ t.captured = v.captured
                      /\ v.breached => t.breached

Clocks ==
  /\ \A i \in Rows : income[i].time <= now
  /\ \A i \in Rows \ listed : income[i].time + MaxDelay > now
  /\ stamp <= now
  /\ tracker.day <= DayOf(now)
  /\ pc \in {"daily", "ledger"} => tracker.day <= DayOf(stamp)

Chain ==
  /\ saved.day <= tracker.day
  /\ saved.day = tracker.day => saved = tracker
  /\ Backs(saved, word)
  /\ pc \in {"save", "publish"} /\ draft.snap.risk # NoVerdict =>
       /\ Backs(draft.snap.risk, word)
       /\ Backs(saved, draft.snap.risk)
       /\ saved.day = draft.snap.risk.day
       /\ saved.last >= draft.snap.stamp

Remembers(l) ==
  l # NoLedger =>
    \A i \in Rows :
      income[i].time \in (l.started + 1)..(l.cursor - MaxDelay) => i \in l.rows

Cursors ==
  /\ ledger.cursor <= now
  /\ pc \in {"daily", "ledger"} => ledger.cursor <= stamp
  /\ pc \in {"save", "publish"} => /\ draft.snap.stamp = draft.ledger.cursor
                                   /\ ledger.cursor <= draft.ledger.cursor
                                   /\ draft.ledger.cursor <= now
  /\ pc = "save" => Remembers(draft.ledger)
  /\ pc = "publish" => ledger = draft.ledger

Inv == TypeOK /\ Clocks /\ Chain /\ Cursors /\ NothingForgotten /\ SnapshotIsBacked

\* Days are numbered in the order of time, and never beyond it.
LEMMA DayFacts ==
  \A a, b \in Nat : /\ DayOf(a) \in 0..a
                    /\ a <= b => DayOf(a) <= DayOf(b)
  BY ClockAssumption DEF DayOf

\* The larger of two numbers.
LEMMA MaxOfTwo ==
  \A a, b \in Int : Max({a, b}) \in {a, b} /\ Max({a, b}) >= a /\ Max({a, b}) >= b
  <1> SUFFICES ASSUME NEW a \in Int, NEW b \in Int
               PROVE Max({a, b}) \in {a, b} /\ Max({a, b}) >= a /\ Max({a, b}) >= b
    OBVIOUS
  <1>1. \E x \in {a, b} : \A y \in {a, b} : x >= y
    OBVIOUS
  <1> QED
    BY <1>1 DEF Max

\* A sequence of rows with one more row.
LEMMA AppendFacts ==
  \A q \in Seq(Row), r \in Row :
    /\ Len(q) \in Nat
    /\ DOMAIN q = 1..Len(q)
    /\ \A i \in DOMAIN q : q[i] \in Row
    /\ Append(q, r) \in Seq(Row)
    /\ Len(Append(q, r)) = Len(q) + 1
    /\ DOMAIN Append(q, r) = 1..(Len(q) + 1)
    /\ \A i \in DOMAIN q : Append(q, r)[i] = q[i]
    /\ Append(q, r)[Len(q) + 1] = r
  OBVIOUS

\* The empty evidence is evidence.
LEMMA EmptyFacts ==
  /\ NoLedger \in Ledgers
  /\ NoDay \in States
  /\ NoVerdict \in Verdicts
  /\ NoSnapshot \in Snapshots
  /\ NoBalance \in [wallet : Int, equity : Int, rows : SUBSET Ids]
  /\ NoDraft \in [ledger : Ledgers, snap : Snapshots]
  BY DEF NoLedger, Ledgers, NoDay, States, NoVerdict, Verdicts, NoSnapshot,
         Snapshots, NoBalance, NoDraft, Ids

\* TypeOK by what its variables are for.
Environment ==
  /\ now \in Times
  /\ income \in Seq(Row) /\ Len(income) <= MaxRows
  /\ listed \subseteq Rows
  /\ wallet \in Int
  /\ upnl \in Upnls

Evidence ==
  /\ ledger \in Ledgers
  /\ saved \in States
  /\ snap \in Snapshots
  /\ tracker \in States
  /\ word \in Verdicts

Locals ==
  /\ pc \in {"idle", "balance", "daily", "ledger", "save", "publish"}
  /\ seen \in [wallet : Int, equity : Int, rows : SUBSET Ids]
  /\ stamp \in Times
  /\ flat \in BOOLEAN
  /\ flows \subseteq Ids
  /\ exact \in BOOLEAN
  /\ draft \in [ledger : Ledgers, snap : Snapshots]

\* The invariant holds initially: nothing is known of any day.
LEMMA InitInv == Init => Inv
  <1> SUFFICES ASSUME Init PROVE Inv
    OBVIOUS
  <1>1. income \in Seq(Row) /\ Len(income) = 0 /\ listed \subseteq Rows
    BY DEF Init, Rows
  <1>2. TypeOK
    <2>1. Environment
      BY <1>1, AmountsAssumption, UpnlsAssumption, ClockAssumption, RowsAssumption
      DEF Init, Environment, Times
    <2>2. Evidence
      BY EmptyFacts DEF Init, Evidence
    <2>3. Locals
      <3>1. stamp \in Times
        BY ClockAssumption DEF Init, Times
      <3> QED
        BY <3>1, EmptyFacts, Zenon DEF Init, Locals
    <2> QED
      BY <2>1, <2>2, <2>3 DEF TypeOK, Environment, Evidence, Locals
  <1>3. Clocks /\ Chain /\ Cursors /\ NothingForgotten /\ SnapshotIsBacked
    BY DayFacts
    DEF Init, Clocks, Chain, Backs, Cursors, NothingForgotten, SnapshotIsBacked, NoDay,
        NoLedger, NoVerdict, NoSnapshot, Rows
  <1> QED
    BY <1>2, <1>3 DEF Inv

\* Rows and ledgers are dated by the clock.
LEMMA DatedFacts ==
  ASSUME TypeOK
  PROVE  /\ \A i \in Rows : income[i] \in Row /\ income[i].time \in Nat
         /\ Rows = 1..Len(income) /\ Rows \subseteq Ids
         /\ now \in Nat /\ stamp \in Nat
         /\ \A l \in Ledgers : /\ l.started \in Int /\ l.started >= -1
                               /\ l.cursor \in Int /\ l.cursor >= -1
         /\ MaxDelay \in Nat /\ Overlap \in Nat /\ MaxDelay <= Overlap /\ MaxDelay >= 1
  <1>1. income \in Seq(Row) /\ Len(income) \in Nat /\ Rows = 1..Len(income)
    BY DEF TypeOK, Rows
  <1>2. \A i \in Rows : income[i] \in Row
    BY <1>1
  <1>3. \A r \in Row : r.time \in Nat
    BY ClockAssumption DEF Row, Times
  <1>4. Rows \subseteq Ids
    BY <1>1, RowsAssumption DEF TypeOK, Ids
  <1>5. \A l \in Ledgers : /\ l.started \in Int /\ l.started >= -1
                          /\ l.cursor \in Int /\ l.cursor >= -1
    BY ClockAssumption DEF Ledgers, Times
  <1>6. now \in Nat /\ stamp \in Nat
    BY ClockAssumption DEF TypeOK, Times
  <1> QED
    BY <1>1, <1>2, <1>3, <1>4, <1>5, <1>6, OverlapAssumption

\* The income a ledger query adds: nothing the new cursor has passed by more
\* than the listing delay is missing from the updated ledger.
LEMMA UpdatedFacts ==
  ASSUME Inv, pc = "ledger"
  PROVE  /\ Updated \in Ledgers
         /\ Updated.cursor = stamp
         /\ Remembers(Updated)
  <1> USE OverlapAssumption, ClockAssumption
  <1>1. CASE ledger = NoLedger
    <2>1. Updated = Opening
      BY <1>1 DEF Updated
    <2>2. Opening \in Ledgers /\ Opening.cursor = stamp /\ Opening.started = stamp
      BY DEF Opening, Inv, TypeOK, Ledgers
    <2> QED
      BY <2>1, <2>2 DEF Remembers, Inv, TypeOK, Times
  <1>2. CASE ledger # NoLedger
    <2> DEFINE from == Max({ledger.started, ledger.cursor - Overlap})
               added == {i \in Between(from, stamp) : income[i].time > ledger.started}
    <2>1. Updated = [ledger EXCEPT !.rows = @ \cup added, !.cursor = stamp]
      BY <1>2 DEF Updated, Merged
    <2>2. added \subseteq Ids
      BY AppendFacts, RowsAssumption DEF Between, Inv, TypeOK, Rows, Ids
    <2>3. /\ Updated \in Ledgers
          /\ Updated.cursor = stamp
          /\ Updated.started = ledger.started
          /\ Updated.rows = ledger.rows \cup added
      BY <2>1, <2>2 DEF Inv, TypeOK, Ledgers
    <2>4. /\ ledger.started \in Int /\ ledger.cursor \in Int
          /\ stamp \in Nat
          /\ from \in {ledger.started, ledger.cursor - Overlap}
          /\ from \in Int
      <3>1. TypeOK /\ ledger \in Ledgers
        BY DEF Inv, TypeOK
      <3>2. ledger.started \in Int /\ ledger.cursor - Overlap \in Int
            /\ ledger.cursor \in Int /\ stamp \in Nat
        BY <3>1, DatedFacts
      <3> QED
        BY <3>2, MaxOfTwo
    <2>5. ASSUME NEW i \in Rows,
                 income[i].time \in (ledger.started + 1)..(stamp - MaxDelay)
          PROVE  i \in Updated.rows
      <3>0. /\ income[i].time \in Nat /\ now \in Nat /\ stamp <= now
            /\ MaxDelay \in Nat /\ Overlap \in Nat /\ MaxDelay <= Overlap
            /\ i \notin listed => income[i].time + MaxDelay > now
        BY DatedFacts DEF Inv, Clocks
      <3>1. i \in listed
        BY <2>4, <2>5, <3>0
      <3> HIDE DEF from
      <3>2. CASE income[i].time < from
        <4>1. income[i].time \in (ledger.started + 1)..(ledger.cursor - MaxDelay)
          BY <2>4, <2>5, <3>0, <3>2
        <4>2. i \in ledger.rows
          BY <1>2, <4>1 DEF Inv, NothingForgotten
        <4> QED
          BY <2>3, <4>2
      <3>3. CASE income[i].time >= from
        <4>1. income[i].time \in from..stamp /\ income[i].time > ledger.started
          BY <2>4, <2>5, <3>0, <3>3
        <4> QED
          BY <2>3, <3>1, <4>1 DEF Between
      <3> QED
        BY <2>4, <3>0, <3>2, <3>3
    <2> QED
      BY <2>3, <2>5 DEF Remembers
  <1> QED
    BY <1>1, <1>2

\* A transfer or a result is booked: the row is dated now, after every cursor.
LEMMA BookKeepsInv ==
  ASSUME Inv, NEW kind \in Kinds, NEW amount \in PnLs \cup Transfers,
         Book(kind, amount), upnl' \in Upnls
  PROVE  Inv'
  <1> USE OverlapAssumption, ClockAssumption, AmountsAssumption
  <1> DEFINE row == [kind |-> kind, amount |-> amount, time |-> now]
  <1>1. row \in Row /\ row.time = now
    BY DEF Row, Inv, TypeOK
  <1>2. /\ income' = Append(income, row)
        /\ income' \in Seq(Row)
        /\ Len(income') = Len(income) + 1
        /\ Len(income') <= MaxRows
        /\ Rows' = Rows \cup {Len(income) + 1}
        /\ \A i \in Rows : income'[i] = income[i]
        /\ income'[Len(income) + 1].time = now
    BY <1>1, AppendFacts, RowsAssumption DEF Book, Inv, TypeOK, Rows
  <1>3. listed' \subseteq Rows' /\ listed \subseteq listed'
    BY <1>2 DEF Book, Inv, TypeOK
  <1>4. TypeOK'
    <2>1. Environment'
      BY <1>2, <1>3 DEF Book, Inv, TypeOK, Environment
    <2>2. Evidence' /\ Locals'
      BY DEF Book, Inv, TypeOK, Evidence, Locals, files, locals
    <2> QED
      BY <2>1, <2>2 DEF TypeOK, Environment, Evidence, Locals
  <1>5. Clocks'
    <2>0. now \in Nat /\ MaxDelay \in Nat /\ MaxDelay >= 1
      BY DatedFacts DEF Inv
    <2>1. \A i \in Rows' : income'[i].time <= now
      <3> SUFFICES ASSUME NEW i \in Rows' PROVE income'[i].time <= now
        OBVIOUS
      <3>1. CASE i \in Rows
        BY <1>2, <3>1 DEF Inv, Clocks
      <3>2. CASE i = Len(income) + 1
        BY <1>2, <2>0, <3>2
      <3> QED
        BY <1>2, <3>1, <3>2
    <2>2. \A i \in Rows' \ listed' : income'[i].time + MaxDelay > now
      <3> SUFFICES ASSUME NEW i \in Rows', i \notin listed'
                   PROVE  income'[i].time + MaxDelay > now
        OBVIOUS
      <3>1. CASE i \in Rows
        BY <1>2, <1>3, <3>1 DEF Inv, Clocks
      <3>2. CASE i = Len(income) + 1
        BY <1>2, <2>0, <3>2
      <3> QED
        BY <1>2, <3>1, <3>2
    <2>3. UNCHANGED <<now, stamp, tracker, pc>>
      BY DEF Book, locals
    <2>4. DayOf(now)' = DayOf(now) /\ DayOf(stamp)' = DayOf(stamp)
      BY <2>3 DEF DayOf
    <2> QED
      BY <2>1, <2>2, <2>3, <2>4 DEF Inv, Clocks
  <1>6. ASSUME NEW l \in Ledgers, l.cursor <= now, Remembers(l) PROVE Remembers(l)'
    <2>0. now \in Nat /\ MaxDelay \in Nat /\ MaxDelay >= 1 /\ l.cursor \in Int
          /\ l.started \in Int
      BY DatedFacts DEF Inv
    <2> SUFFICES ASSUME l # NoLedger, NEW i \in Rows',
                        income'[i].time \in (l.started + 1)..(l.cursor - MaxDelay)
                 PROVE  i \in l.rows
      BY DEF Remembers
    <2>1. CASE i \in Rows
      BY <1>2, <1>6, <2>1 DEF Remembers
    <2>2. CASE i = Len(income) + 1
      BY <1>2, <1>6, <2>0, <2>2
    <2> QED
      BY <1>2, <2>1, <2>2
  <1>7. NothingForgotten' /\ Cursors'
    BY <1>6 DEF Inv, TypeOK, NothingForgotten, Cursors, Remembers, Book, files, locals,
                Ledgers, Snapshots
  <1>8. Chain' /\ SnapshotIsBacked'
    BY DEF Inv, Chain, Backs, SnapshotIsBacked, Book, files, locals
  <1> QED
    BY <1>4, <1>5, <1>7, <1>8 DEF Inv

\* What an observation drafts when its verdict, if any, is backed by the state
\* it has saved.
LEMMA DraftKeepsInv ==
  ASSUME Inv, NEW verified \in BOOLEAN, NEW risk \in Verdicts, Drafted(verified, risk),
         tracker' \in States, saved' \in States,
         tracker'.day <= DayOf(stamp),
         saved'.day <= tracker'.day,
         saved'.day = tracker'.day => saved' = tracker',
         Backs(saved', word),
         snap.risk # NoVerdict => SnapshotIsBacked',
         risk # NoVerdict => /\ Backs(risk, word)
                             /\ Backs(saved', risk)
                             /\ saved'.day = risk.day
                             /\ saved'.last >= stamp
  PROVE  Inv'
  <1>1. /\ pc = "ledger" /\ pc' = "save"
        /\ draft' = [ledger |-> Updated,
                     snap |-> [stamp |-> stamp, verified |-> verified, risk |-> risk]]
        /\ UNCHANGED <<now, income, listed, wallet, upnl, ledger, snap, word>>
        /\ seen' = NoBalance /\ stamp' = 0 /\ flat' = FALSE /\ flows' = {} /\ exact' = TRUE
    BY DEF Drafted, Spent, exchange
  <1>2. Updated \in Ledgers /\ Updated.cursor = stamp /\ Remembers(Updated)
    BY <1>1, UpdatedFacts
  <1>3. draft' \in [ledger : Ledgers, snap : Snapshots]
    BY <1>1, <1>2 DEF Inv, TypeOK, Snapshots
  <1>4. TypeOK'
    <2>1. Environment'
      BY <1>1 DEF Inv, TypeOK, Environment, Rows
    <2>2. Evidence'
      BY <1>1 DEF Inv, TypeOK, Evidence
    <2>3. Locals'
      <3>1. stamp' \in Times
        BY <1>1, ClockAssumption DEF Times
      <3> QED
        BY <1>1, <1>3, <3>1, EmptyFacts, Zenon DEF Locals
    <2> QED
      BY <2>1, <2>2, <2>3 DEF TypeOK, Environment, Evidence, Locals
  <1>5. Clocks'
    <2>1. DayOf(stamp) <= DayOf(now) /\ DayOf(stamp) \in Nat /\ DayOf(now) \in Nat
      BY DayFacts DEF Inv, TypeOK, Clocks, Times
    <2> QED
      BY <1>1, <2>1, ClockAssumption DEF Inv, TypeOK, Clocks, Rows, States, Times, DayOf
  <1>6. Cursors' /\ NothingForgotten'
    BY <1>1, <1>2, <1>3
    DEF Inv, TypeOK, Clocks, Cursors, NothingForgotten, Remembers, Rows
  <1>7. Chain'
    BY <1>1 DEF Inv, Chain, Backs
  <1>8. SnapshotIsBacked'
    BY <1>1 DEF Inv, SnapshotIsBacked
  <1> QED
    BY <1>4, <1>5, <1>6, <1>7, <1>8 DEF Inv

\* The state a verdict is computed from is of the day of the observation, and it
\* is what the files say unless the files do not know that day.
LEMMA CurrentFacts ==
  ASSUME Inv, pc = "ledger"
  PROVE  /\ Current \in States
         /\ Current.day = Today
         /\ saved.day \in Int /\ tracker.day \in Int /\ Today \in Nat
         /\ saved.day <= tracker.day /\ tracker.day <= Today
         /\ saved.day = Today => Current = saved
  <1>1. stamp \in Times /\ stamp \in Nat /\ tracker \in States /\ saved \in States
    BY ClockAssumption DEF Inv, TypeOK, Times
  <1>2. Today \in Times /\ Today \in Nat
    <2>1. Today \in 0..stamp
      BY <1>1, DayFacts DEF Today
    <2> QED
      BY <1>1, <2>1, ClockAssumption DEF Times
  <1>3. saved.day \in Int /\ tracker.day \in Int
    BY <1>1, ClockAssumption DEF States, Times
  <1>4. saved.day <= tracker.day /\ tracker.day <= Today
    BY DEF Inv, Chain, Clocks, Today
  <1>5. Current \in States /\ Current.day = Today
    <2>1. CASE tracker.day = Today
      BY <1>1, <2>1 DEF Current
    <2>2. CASE tracker.day # Today
      <3>1. seen.equity \in Int /\ seen.rows \in SUBSET Ids /\ exact \in BOOLEAN
        BY DEF Inv, TypeOK
      <3> QED
        BY <1>1, <1>2, <2>2, <3>1 DEF Current, States
    <2> QED
      BY <2>1, <2>2
  <1>6. saved.day = Today => Current = saved
    BY <1>2, <1>3, <1>4 DEF Current, Inv, Chain
  <1> QED
    BY <1>2, <1>3, <1>4, <1>5, <1>6

\* Each way of judging an observation drafts what is backed.
LEMMA JudgeKeepsInv == Inv /\ Judge => Inv'
  <1> SUFFICES ASSUME Inv, Judge PROVE Inv'
    OBVIOUS
  <1>1. pc = "ledger" /\ ledger' = ledger /\ snap' = snap
    BY DEF Judge, JudgeUnreconciled, JudgeMissed, JudgeRefused, JudgeObserved, Drafted
  <1>2. /\ tracker \in States /\ saved \in States
        /\ tracker.day <= DayOf(stamp)
        /\ saved.day <= tracker.day
        /\ saved.day = tracker.day => saved = tracker
        /\ Backs(saved, word)
        /\ SnapshotIsBacked
    BY <1>1 DEF Inv, TypeOK, Clocks, Chain
  <1>3. ASSUME NEW verified \in BOOLEAN, Drafted(verified, NoVerdict),
               UNCHANGED <<tracker, saved>>
        PROVE  Inv'
    <2>1. SnapshotIsBacked'
      BY <1>1, <1>2, <1>3 DEF SnapshotIsBacked
    <2> QED
      BY <1>2, <1>3, <2>1, EmptyFacts, DraftKeepsInv
  <1>4. CASE JudgeRefused
    <2>1. /\ Drafted(TRUE, NoVerdict)
          /\ tracker' = Current /\ saved' = saved
      BY <1>4 DEF JudgeRefused
    <2>2. SnapshotIsBacked'
      BY <1>1, <1>2, <2>1 DEF SnapshotIsBacked
    <2>3. /\ tracker' \in States /\ saved' \in States
          /\ tracker'.day <= DayOf(stamp)
          /\ saved'.day <= tracker'.day
          /\ saved'.day = tracker'.day => saved' = tracker'
          /\ Backs(saved', word)
      BY <1>1, <1>2, <2>1, CurrentFacts DEF Today
    <2> QED
      BY <2>1, <2>2, <2>3, EmptyFacts, DraftKeepsInv
  <1>5. CASE JudgeObserved
    <2> DEFINE risk == Verdict(tracker')
    <2>1. /\ Drafted(TRUE, risk)
          /\ tracker' = Observed(Current) /\ saved' = Observed(Current)
      BY <1>5 DEF JudgeObserved
    <2>2. /\ Current \in States /\ Current.day = Today
          /\ stamp \in Times /\ stamp \in Nat /\ exact \in BOOLEAN
          /\ word \in Verdicts /\ snap \in Snapshots
      BY <1>1, CurrentFacts, DatedFacts DEF Inv, TypeOK
    <2>3. /\ Observed(Current) \in States
          /\ Observed(Current).day = Today
          /\ Observed(Current).start = Current.start
          /\ Observed(Current).captured = Current.captured
          /\ Observed(Current).last = stamp
          /\ Current.breached => Observed(Current).breached
      BY <2>2 DEF Observed, States
    <2>4. /\ risk \in Verdicts
          /\ risk.day = Today
          /\ risk.start = Current.start
          /\ risk.captured = Current.captured
          /\ risk.breached = Observed(Current).breached
      BY <2>1, <2>2, <2>3 DEF Verdict, Verdicts, States
    <2>5. word.day \in Int /\ snap.risk.day \in Int /\ snap.stamp \in Int
      BY <2>2, ClockAssumption DEF Verdicts, Snapshots, Times
    <2>6. Backs(saved', word) /\ Backs(risk, word) /\ Backs(saved', risk)
      BY <1>1, <1>2, <2>1, <2>3, <2>4, <2>5, CurrentFacts DEF Backs
    <2>7. SnapshotIsBacked'
      <3>1. snap.stamp <= ledger.cursor /\ ledger.cursor <= stamp /\ ledger.cursor \in Int
        BY <1>1, <1>2, DatedFacts DEF Inv, TypeOK, Cursors, SnapshotIsBacked
      <3>2. snap.stamp <= stamp
        BY <2>2, <2>5, <3>1
      <3> QED
        BY <1>1, <1>2, <2>1, <2>2, <2>3, <2>5, <3>1, <3>2, CurrentFacts
        DEF SnapshotIsBacked
    <2>8. /\ tracker' \in States /\ saved' \in States
          /\ tracker'.day <= DayOf(stamp)
          /\ saved'.day <= tracker'.day
          /\ saved'.day = risk.day
          /\ saved'.last >= stamp
      BY <1>1, <2>1, <2>2, <2>3, <2>4, CurrentFacts DEF Today
    <2> HIDE DEF risk
    <2> QED
      BY <2>1, <2>4, <2>6, <2>7, <2>8, DraftKeepsInv
  <1> QED
    BY <1>3, <1>4, <1>5 DEF Judge, JudgeUnreconciled, JudgeMissed

\* Time passes: a row that is not listed yet is not overdue afterwards.
LEMMA TickKeepsInv == Inv /\ Tick => Inv'
  <1> SUFFICES ASSUME Inv, Tick PROVE Inv'
    OBVIOUS
  <1>1. /\ now < MaxTime /\ now' = now + 1
        /\ \A i \in Rows \ listed : income[i].time + MaxDelay > now + 1
        /\ UNCHANGED <<income, listed, wallet, upnl, ledger, saved, snap, tracker, pc,
                       seen, stamp, flat, flows, exact, draft, word>>
    BY DatedFacts DEF Tick, Overdue, files, locals, Inv
  <1>2. now' \in Times /\ now \in Nat
    BY <1>1, ClockAssumption DEF Inv, TypeOK, Times
  <1>3. TypeOK'
    BY <1>1, <1>2 DEF Inv, TypeOK, Rows
  <1>4. Clocks'
    <2>1. DayOf(now) \in Nat /\ DayOf(now') \in Nat /\ DayOf(now) <= DayOf(now')
      BY <1>1, <1>2, DayFacts
    <2>2. tracker.day \in Int
      BY ClockAssumption DEF Inv, TypeOK, States, Times
    <2>3. DayOf(now)' = DayOf(now') /\ DayOf(stamp)' = DayOf(stamp)
      BY <1>1 DEF DayOf
    <2> QED
      BY <1>1, <1>2, <2>1, <2>2, <2>3, DatedFacts DEF Inv, Clocks, Rows
  <1>5. Cursors' /\ NothingForgotten'
    <2>1. draft.ledger.cursor \in Int /\ ledger.cursor \in Int
      BY DatedFacts DEF Inv, TypeOK
    <2> QED
      BY <1>1, <1>2, <2>1 DEF Inv, Cursors, NothingForgotten, Remembers, Rows
  <1>6. Chain' /\ SnapshotIsBacked'
    BY <1>1 DEF Inv, Chain, Backs, SnapshotIsBacked
  <1> QED
    BY <1>3, <1>4, <1>5, <1>6 DEF Inv

\* The exchange: what it books, lists and marks.
LEMMA ExchangeKeepsInv ==
  Inv /\ (Tick \/ Realize \/ Transfer \/ (\E i \in Rows : List(i)) \/ Mark) => Inv'
  <1> SUFFICES ASSUME Inv, Tick \/ Realize \/ Transfer \/ (\E i \in Rows : List(i)) \/ Mark
               PROVE  Inv'
    OBVIOUS
  <1>1. CASE Realize
    BY <1>1, BookKeepsInv DEF Realize, Kinds
  <1>2. CASE Transfer
    BY <1>2, BookKeepsInv DEF Transfer, Kinds, Inv, TypeOK
  <1>3. CASE Mark \/ \E i \in Rows : List(i)
    <2>1. /\ UNCHANGED <<now, income, wallet, ledger, saved, snap, tracker, pc,
                         seen, stamp, flat, flows, exact, draft, word>>
          /\ listed \subseteq listed' /\ listed' \subseteq Rows
          /\ upnl' \in Upnls
      BY <1>3 DEF Mark, List, files, locals, Inv, TypeOK
    <2>2. TypeOK'
      BY <2>1 DEF Inv, TypeOK, Rows
    <2>3. Clocks'
      BY <2>1 DEF Inv, Clocks, Rows, DayOf
    <2>4. Cursors' /\ NothingForgotten' /\ Chain' /\ SnapshotIsBacked'
      BY <2>1 DEF Inv, Cursors, NothingForgotten, Remembers, Chain, Backs,
                  SnapshotIsBacked, Rows
    <2> QED
      BY <2>2, <2>3, <2>4 DEF Inv
  <1> QED
    BY <1>1, <1>2, <1>3, TickKeepsInv

\* The requests of observe_account, whatever they answer.
LEMMA RequestsKeepInv == Inv /\ (ReadBalance \/ Stamp \/ QueryDaily) => Inv'
  <1> SUFFICES ASSUME Inv, ReadBalance \/ Stamp \/ QueryDaily PROVE Inv'
    OBVIOUS
  <1>1. UNCHANGED <<now, income, listed, wallet, upnl, ledger, saved, snap, tracker,
                    draft, word>>
    BY DEF ReadBalance, Stamp, QueryDaily, exchange, files
  <1>2. /\ pc' \in {"balance", "daily", "ledger"}
        /\ seen' \in [wallet : Int, equity : Int, rows : SUBSET Ids]
        /\ stamp' \in Times /\ stamp' <= now
        /\ flat' \in BOOLEAN /\ flows' \subseteq Ids /\ exact' \in BOOLEAN
        /\ \/ pc' = "balance"
           \/ stamp' = now
           \/ pc = "daily" /\ stamp' = stamp
    <2>1. CASE ReadBalance
      <3>1. wallet + upnl \in Int /\ wallet \in Int /\ Rows \in SUBSET Ids
        BY DatedFacts, UpnlsAssumption DEF Inv, TypeOK
      <3> QED
        BY <2>1, <3>1 DEF ReadBalance, Inv, TypeOK, Clocks
    <2>2. CASE Stamp
      <3>1. stamp' = now /\ pc' = "daily" /\ seen' = seen /\ flows' = flows
            /\ exact' = exact
        BY <2>2 DEF Stamp
      <3>2. flat' \in BOOLEAN
        BY <2>2 DEF Stamp
      <3> QED
        <4>1. now \in Nat
          BY DatedFacts DEF Inv
        <4>2. /\ now \in Times /\ flows \subseteq Ids /\ exact \in BOOLEAN
              /\ seen \in [wallet : Int, equity : Int, rows : SUBSET Ids]
          BY DEF Inv, TypeOK
        <4> QED
          BY <3>1, <3>2, <4>1, <4>2
    <2>3. CASE QueryDaily
      BY <2>3, DatedFacts DEF QueryDaily, Between, Inv, TypeOK, Clocks
    <2> QED
      BY <2>1, <2>2, <2>3
  <1>3. TypeOK'
    BY <1>1, <1>2 DEF Inv, TypeOK, Rows
  <1>4. Clocks'
    <2>1. DayOf(now)' = DayOf(now) /\ DayOf(stamp)' = DayOf(stamp')
      BY <1>1 DEF DayOf
    <2> QED
      BY <1>1, <1>2, <2>1 DEF Inv, Clocks, Rows
  <1>5. Cursors' /\ NothingForgotten'
    BY <1>1, <1>2 DEF Inv, Cursors, NothingForgotten, Rows
  <1>6. Chain' /\ SnapshotIsBacked'
    BY <1>1, <1>2 DEF Inv, Chain, Backs, SnapshotIsBacked
  <1> QED
    BY <1>3, <1>4, <1>5, <1>6 DEF Inv

\* An observation ends: with its locals forgotten, with nothing but the ledger,
\* or with the snapshot it drafted.
LEMMA EndsKeepInv == Inv /\ (GiveUp \/ SaveLedger \/ Publish \/ Crash) => Inv'
  <1> SUFFICES ASSUME Inv, GiveUp \/ SaveLedger \/ Publish \/ Crash PROVE Inv'
    OBVIOUS
  <1>1. UNCHANGED <<now, income, listed, wallet, upnl, saved>>
    BY DEF GiveUp, SaveLedger, Publish, Crash, exchange, files
  <1>2. Environment'
    BY <1>1 DEF Inv, TypeOK, Environment, Rows
  <1>3. /\ draft.ledger \in Ledgers /\ draft.snap \in Snapshots
        /\ draft.snap.risk \in Verdicts
        /\ 0 \in Times /\ DayOf(now)' = DayOf(now) /\ DayOf(stamp)' = DayOf(stamp')
        /\ now \in Nat
    BY <1>1, ClockAssumption, DatedFacts DEF Inv, TypeOK, Snapshots, DayOf, Times
  <1>4. CASE SaveLedger
    <2>1. /\ pc = "save" /\ pc' = "publish" /\ ledger' = draft.ledger
          /\ UNCHANGED <<snap, tracker, seen, stamp, flat, flows, exact, draft, word>>
      BY <1>4 DEF SaveLedger, locals
    <2>2. TypeOK'
      <3>1. Evidence'
        BY <1>1, <1>3, <2>1 DEF Inv, TypeOK, Evidence
      <3>2. Locals'
        BY <2>1 DEF Inv, TypeOK, Locals
      <3> QED
        BY <1>2, <3>1, <3>2 DEF TypeOK, Environment, Evidence, Locals
    <2>3. Clocks' /\ Chain' /\ NothingForgotten'
      <3>1. Clocks'
        BY <1>1, <1>3, <2>1 DEF Inv, Clocks, Rows, DayOf
      <3>2. Chain'
        BY <1>1, <2>1 DEF Inv, Chain, Backs
      <3>3. NothingForgotten'
        BY <1>1, <2>1 DEF Inv, Cursors, NothingForgotten, Remembers, Rows
      <3> QED
        BY <3>1, <3>2, <3>3
    <2>4. Cursors'
      <3>1. draft.ledger.cursor \in Int
        BY <1>3, DatedFacts DEF Inv
      <3> QED
        BY <1>1, <2>1, <3>1 DEF Inv, Cursors
    <2>5. SnapshotIsBacked'
      <3>1. draft.ledger.cursor \in Int /\ ledger.cursor \in Int /\ snap.stamp \in Int
        BY <1>3, DatedFacts, ClockAssumption DEF Inv, TypeOK, Snapshots, Times
      <3> QED
        BY <1>1, <2>1, <3>1 DEF Inv, Cursors, SnapshotIsBacked
    <2> QED
      BY <2>2, <2>3, <2>4, <2>5 DEF Inv
  <1>5. CASE GiveUp \/ Publish \/ Crash
    <2>1. /\ pc' = "idle" /\ ledger' = ledger
          /\ seen' = NoBalance /\ stamp' = 0 /\ flat' = FALSE /\ flows' = {}
          /\ exact' = TRUE /\ draft' = NoDraft
          /\ tracker' \in {tracker, saved}
      BY <1>5 DEF GiveUp, Publish, Crash, Forgotten, Spent, files
    <2>2. \/ UNCHANGED <<snap, word>>
          \/ /\ pc = "publish" /\ snap' = draft.snap /\ UNCHANGED <<ledger, tracker>>
             /\ word' = IF draft.snap.risk = NoVerdict THEN word ELSE draft.snap.risk
      BY <1>5 DEF GiveUp, Publish, Crash, files
    <2>3. TypeOK'
      <3>1. Evidence'
        BY <1>1, <1>3, <2>1, <2>2 DEF Inv, TypeOK, Evidence
      <3>2. Locals'
        BY <1>3, <2>1, EmptyFacts, Zenon DEF Locals
      <3> QED
        BY <1>2, <3>1, <3>2 DEF TypeOK, Environment, Evidence, Locals
    <2>4. Clocks'
      <3>1. saved.day \in Int /\ tracker.day \in Int /\ DayOf(now) \in Nat
        BY <1>3, DayFacts, ClockAssumption DEF Inv, TypeOK, States, Times
      <3> QED
        BY <1>1, <1>3, <2>1, <3>1 DEF Inv, Clocks, Chain, Rows
    <2>5. Cursors' /\ NothingForgotten'
      BY <1>1, <2>1 DEF Inv, Cursors, NothingForgotten, Rows
    <2>6. Chain'
      <3>1. saved.day \in Int
        BY ClockAssumption DEF Inv, TypeOK, States, Times
      <3> QED
        BY <1>1, <2>1, <2>2, <3>1 DEF Inv, Chain, Backs
    <2>7. SnapshotIsBacked'
      <3>1. CASE UNCHANGED <<snap, word>>
        BY <1>1, <2>1, <3>1 DEF Inv, SnapshotIsBacked
      <3>2. CASE pc = "publish" /\ snap' = draft.snap
        <4>1. ledger.cursor \in Int
          BY DatedFacts DEF Inv, TypeOK
        <4> QED
          BY <1>1, <2>1, <3>2, <4>1 DEF Inv, SnapshotIsBacked, Chain, Backs, Cursors
      <3> QED
        BY <2>2, <3>1, <3>2
    <2> QED
      BY <2>3, <2>4, <2>5, <2>6, <2>7 DEF Inv
  <1> QED
    BY <1>4, <1>5

\* The invariant is inductive.
LEMMA StepInv == Inv /\ [Next]_vars => Inv'
  <1> SUFFICES ASSUME Inv, [Next]_vars PROVE Inv'
    OBVIOUS
  <1>1. CASE UNCHANGED vars
    <2>1. TypeOK'
      BY <1>1 DEF vars, Inv, TypeOK, Rows
    <2>2. Clocks' /\ Chain'
      BY <1>1 DEF vars, Inv, Clocks, Chain, Backs, Rows, DayOf
    <2>3. Cursors' /\ NothingForgotten' /\ SnapshotIsBacked'
      BY <1>1 DEF vars, Inv, Cursors, NothingForgotten, SnapshotIsBacked, Remembers, Rows
    <2> QED
      BY <2>1, <2>2, <2>3 DEF Inv
  <1>2. CASE Next
    BY <1>2, ExchangeKeepsInv, RequestsKeepInv, JudgeKeepsInv, EndsKeepInv DEF Next
  <1> QED
    BY <1>1, <1>2

LEMMA Invariance == Spec => []Inv
  BY InitInv, StepInv, PTL DEF Spec

--------------------------------------------------------------------------------
(* What verdicts tell.                                                     *)

Summed(q, ids) == MapThenSumSet(LAMBDA i : q[i].amount, ids)

SolvesTotal(sum, q, S) ==
  sum = [s \in SUBSET S |-> IF s = {} THEN 0 ELSE q[Pick(s)].amount + sum[s \ {Pick(s)}]]

\* A total is a sum of integers.
LEMMA SummedIsNet ==
  ASSUME NEW q, NEW S, IsFiniteSet(S), \A i \in S : q[i].amount \in Int
  PROVE  Summed(q, S) = Net([i \in S |-> q[i].amount], S)
  <1> DEFINE f == [i \in S |-> q[i].amount]
             nets == [s \in SUBSET S |-> Net(f, s)]
             sum == CHOOSE g : g = [s \in SUBSET S |->
                                      IF s = {} THEN 0
                                      ELSE q[CHOOSE x \in s : TRUE].amount
                                             + g[s \ {CHOOSE x \in s : TRUE}]]
  <1>1. SolvesSum(nets, f, S)
    BY NetSolves
  <1>2. ASSUME NEW g
        PROVE  SolvesSum(g, f, S) <=> SolvesTotal(g, q, S)
    <2>1. \A s \in SUBSET S : s # {} => f[Pick(s)] = q[Pick(s)].amount
      BY PickFacts
    <2>2. [s \in SUBSET S |-> IF s = {} THEN 0 ELSE f[Pick(s)] + g[s \ {Pick(s)}]]
            = [s \in SUBSET S |->
                 IF s = {} THEN 0 ELSE q[Pick(s)].amount + g[s \ {Pick(s)}]]
      BY <2>1
    <2> QED
      BY <2>2 DEF SolvesSum, SolvesTotal
  <1>3. SolvesTotal(nets, q, S)
    BY <1>1, <1>2
  <1>4. SolvesTotal(sum, q, S)
    BY <1>3, Zenon DEF SolvesTotal, Pick
  <1>5. sum[S] = nets[S]
    BY <1>1, <1>2, <1>4, SolutionsAgree
  <1>6. Summed(q, S) = sum[S]
    BY DEF Summed, MapThenSumSet, MapThenFoldSet
  <1> QED
    BY <1>5, <1>6

\* The total depends on nothing but the amounts.
LEMMA SummedSame ==
  ASSUME NEW q, NEW r, NEW S, IsFiniteSet(S),
         \A i \in S : q[i].amount \in Int /\ r[i].amount = q[i].amount
  PROVE  Summed(r, S) = Summed(q, S)
  <1> DEFINE f == [i \in S |-> q[i].amount]
             g == [i \in S |-> r[i].amount]
  <1>1. Summed(r, S) = Net(g, S) /\ Summed(q, S) = Net(f, S)
    BY SummedIsNet
  <1>2. \A i \in S : g[i] = f[i]
    OBVIOUS
  <1>3. Net(g, S) = Net(f, S)
    <2> HIDE DEF f, g
    <2> QED
      BY <1>2, NetSame
  <1> QED
    BY <1>1, <1>3

\* A total is an integer.
LEMMA SummedType ==
  ASSUME NEW q, NEW S, IsFiniteSet(S), \A i \in S : q[i].amount \in Int
  PROVE  Summed(q, S) \in Int
  <1> DEFINE f == [i \in S |-> q[i].amount]
  <1>1. Summed(q, S) = Net(f, S)
    BY SummedIsNet
  <1>2. \A i \in S : f[i] \in Int
    OBVIOUS
  <1>3. Net(f, S) \in Int
    <2> HIDE DEF f
    <2> QED
      BY <1>2, NetType
  <1> QED
    BY <1>1, <1>3

\* Totals of rows that are apart add up.
LEMMA SummedApart ==
  ASSUME NEW q, NEW A, NEW B, IsFiniteSet(A), IsFiniteSet(B), A \cap B = {},
         \A i \in A \cup B : q[i].amount \in Int
  PROVE  Summed(q, A \cup B) = Summed(q, A) + Summed(q, B)
  <1> DEFINE f == [i \in A \cup B |-> q[i].amount]
             g == [i \in A |-> q[i].amount]
             h == [i \in B |-> q[i].amount]
  <1>1. IsFiniteSet(A \cup B)
    BY FS_Union
  <1>2. /\ Summed(q, A \cup B) = Net(f, A \cup B)
        /\ Summed(q, A) = Net(g, A) /\ Summed(q, B) = Net(h, B)
    <2>1. \A C : C \subseteq A \cup B => \A i \in C : q[i].amount \in Int
      OBVIOUS
    <2> QED
      BY <1>1, <2>1, SummedIsNet
  <1>3. /\ \A i \in A \cup B : f[i] \in Int
        /\ \A i \in A : g[i] = f[i]
        /\ \A i \in B : h[i] = f[i]
    OBVIOUS
  <1> HIDE DEF f, g, h
  <1>4. Net(g, A) = Net(f, A) /\ Net(h, B) = Net(f, B)
    BY <1>3, NetSame
  <1>5. Net(f, A \cup B) = Net(f, A) + Net(f, B)
    BY <1>3, NetApart
  <1> QED
    BY <1>2, <1>4, <1>5

\* The total of one row is its amount.
LEMMA SummedOne ==
  ASSUME NEW q, NEW i, q[i].amount \in Int PROVE Summed(q, {i}) = q[i].amount
  <1> DEFINE f == [j \in {i} |-> q[j].amount]
  <1>1. Summed(q, {i}) = Net(f, {i})
    BY FS_Singleton, SummedIsNet
  <1>2. f[i] = q[i].amount /\ f[i] \in Int
    OBVIOUS
  <1>3. Net(f, {i}) = f[i]
    <2> HIDE DEF f
    <2> QED
      BY <1>2, NetOfOne
  <1> QED
    BY <1>1, <1>2, <1>3

\* The totals of the rows that are booked.
LEMMA TotalFacts ==
  ASSUME TypeOK
  PROVE  /\ IsFiniteSet(Rows) /\ StartWallet \in Int /\ \A i \in Rows : income[i].amount \in Int
         /\ \A A \in SUBSET Rows : IsFiniteSet(A) /\ Total(A) \in Int
         /\ \A A, B \in SUBSET Rows :
              A \cap B = {} => Total(A \cup B) = Total(A) + Total(B)
  <1>1. \A i \in Rows : income[i].amount \in Int
    BY DatedFacts, AmountsAssumption DEF Row
  <1>2. IsFiniteSet(Rows)
    <2>1. Rows = 1..Len(income) /\ Len(income) \in Nat
      BY DatedFacts DEF TypeOK
    <2> QED
      BY <2>1, FS_Interval
  <1>3. \A A : Total(A) = Summed(income, A)
    BY DEF Total, Summed
  <1>4. ASSUME NEW A \in SUBSET Rows PROVE IsFiniteSet(A) /\ Total(A) \in Int
    <2>1. IsFiniteSet(A) /\ \A i \in A : income[i].amount \in Int
      BY <1>1, <1>2, FS_Subset
    <2> QED
      BY <1>3, <2>1, SummedType
  <1>5. ASSUME NEW A \in SUBSET Rows, NEW B \in SUBSET Rows, A \cap B = {}
        PROVE  Total(A \cup B) = Total(A) + Total(B)
    <2>1. IsFiniteSet(A) /\ IsFiniteSet(B) /\ \A i \in A \cup B : income[i].amount \in Int
      BY <1>1, <1>4
    <2>2. Summed(income, A \cup B) = Summed(income, A) + Summed(income, B)
      BY <1>5, <2>1, SummedApart
    <2> QED
      BY <1>3, <2>2
  <1> QED
    BY <1>1, <1>2, <1>4, <1>5, AmountsAssumption


\* The rows B were booked before the ledger was opened, on the balance it was opened
\* with; what it holds was booked afterwards.
Founded(l, B) ==
  l # NoLedger =>
    /\ l.wallet = StartWallet + Total(B)
    /\ l.started <= l.cursor
    /\ \A i \in B : income[i].time <= l.started
    /\ \A i \in l.rows : i \in Rows /\ income[i].time > l.started

\* An exact baseline was taken from a balance that holds all that was booked before
\* it and nothing that was booked after it.
Grounded(c, l, B) ==
  c.day >= 0 /\ c.exact =>
    /\ l # NoLedger
    /\ B \subseteq c.rows
    /\ l.started <= c.captured /\ c.captured <= now
    /\ DayOf(c.captured) = c.day
    /\ \A i \in c.rows : i \in Rows /\ income[i].time <= c.captured
    /\ \A i \in Rows : income[i].time > l.started /\ income[i].time < c.captured
                         => i \in c.rows

Books(B) ==
  /\ Founded(ledger, B)
  /\ pc \in {"save", "publish"} => Founded(draft.ledger, B)
  /\ Grounded(tracker, ledger, B)
  /\ Grounded(saved, ledger, B)

Balanced == wallet = StartWallet + Total(Rows)

\* What an observation has read is what the exchange had booked.
Reading ==
  /\ pc \in {"balance", "daily", "ledger"} =>
       seen.rows \subseteq Rows /\ seen.wallet = StartWallet + Total(seen.rows)
  /\ pc \in {"daily", "ledger"} => \A i \in seen.rows : income[i].time <= stamp
  /\ pc = "ledger" =>
       /\ \A i \in flows : /\ i \in listed /\ income[i].kind = "transfer"
                           /\ income[i].time \in DayOf(stamp) * Day .. stamp
       /\ exact => /\ \A i \in Rows : income[i].time < stamp => i \in listed
                   /\ \A i \in seen.rows : /\ income[i].kind = "transfer"
                                           /\ income[i].time >= DayOf(stamp) * Day
                                           => i \in flows

\* No verdict hides a loss, neither the one that is published nor the next.
Told ==
  /\ snap.risk.exact => ~snap.risk.hides
  /\ pc \in {"save", "publish"} => (draft.snap.risk.exact => ~draft.snap.risk.hides)

\* A ledger is opened once.
Drafts ==
  pc \in {"save", "publish"} /\ ledger # NoLedger =>
    /\ draft.ledger # NoLedger
    /\ draft.ledger.started = ledger.started
    /\ draft.ledger.wallet = ledger.wallet

Truth == Balanced /\ Reading /\ Told /\ Drafts /\ \E B \in SUBSET Rows : Books(B)

TruthInv == Inv /\ (NoCoincidence => Truth)

\* What the exchange adds is dated now.
LEMMA ExchangeAdds ==
  ASSUME Inv,
         Tick \/ Realize \/ Transfer \/ (\E i \in Rows : List(i)) \/ Mark \/ UNCHANGED vars
  PROVE  /\ UNCHANGED <<ledger, saved, snap, tracker, pc, seen, stamp, flat, flows, exact,
                        draft>>
         /\ now \in Nat /\ now' \in Nat /\ now <= now' /\ listed \subseteq listed'
         /\ Rows \subseteq Rows' /\ \A i \in Rows : income'[i] = income[i]
         /\ \A i \in Rows' \ Rows : income'[i].time = now
         /\ Balanced => Balanced'
  <1>0. TypeOK /\ now \in Nat
    BY DatedFacts DEF Inv
  <1>1. CASE Tick \/ (\E i \in Rows : List(i)) \/ Mark \/ UNCHANGED vars
    <2>1. /\ UNCHANGED <<income, wallet, ledger, saved, snap, tracker, pc, seen, stamp, flat,
                         flows, exact, draft>>
          /\ now' \in {now, now + 1} /\ listed \subseteq listed'
      BY <1>1 DEF Tick, List, Mark, vars, files, locals
    <2>2. now' \in Nat /\ now <= now'
      <3>1. now' = now \/ now' = now + 1
        BY <2>1
      <3> QED
        BY <1>0, <3>1
    <2>3. Rows' = Rows
      BY <2>1 DEF Rows
    <2>4. Balanced' = Balanced
      BY <2>1 DEF Rows, Balanced, Total, MapThenSumSet, MapThenFoldSet
    <2> QED
      BY <1>0, <2>1, <2>2, <2>3, <2>4
  <1>2. ASSUME NEW kind \in Kinds, NEW amount \in PnLs \cup Transfers, Book(kind, amount)
        PROVE  /\ UNCHANGED <<ledger, saved, snap, tracker, pc, seen, stamp, flat, flows,
                              exact, draft>>
               /\ now' \in Nat /\ now <= now' /\ listed \subseteq listed'
               /\ Rows \subseteq Rows' /\ \A i \in Rows : income'[i] = income[i]
               /\ \A i \in Rows' \ Rows : income'[i].time = now
               /\ Balanced => Balanced'
    <2> DEFINE row == [kind |-> kind, amount |-> amount, time |-> now]
               new == Len(income) + 1
    <2>1. row \in Row /\ row.time = now /\ row.amount = amount
      BY <1>0 DEF Row, TypeOK
    <2>2. /\ income' = Append(income, row) /\ wallet' = wallet + amount
          /\ listed \subseteq listed'
          /\ UNCHANGED <<now, ledger, saved, snap, tracker, pc, seen, stamp, flat, flows,
                         exact, draft>>
      BY <1>2 DEF Book, files, locals
    <2>3. /\ Rows' = Rows \cup {new} /\ new \notin Rows
          /\ \A i \in Rows : income'[i] = income[i]
          /\ income'[new] = row /\ income'[new].time = now
      BY <1>0, <2>1, <2>2, AppendFacts DEF TypeOK, Rows
    <2> HIDE DEF row, new
    <2>4. Balanced => Balanced'
      <3>1. /\ IsFiniteSet(Rows) /\ StartWallet \in Int /\ Total(Rows) \in Int
            /\ \A i \in Rows : income[i].amount \in Int
        BY <1>0, TotalFacts
      <3>2. amount \in Int
        BY AmountsAssumption
      <3>3. \A i \in Rows \cup {new} : income'[i].amount \in Int
        BY <2>1, <2>3, <3>1, <3>2
      <3>4. Summed(income', Rows \cup {new}) = Summed(income', Rows) + Summed(income', {new})
        <4>1. IsFiniteSet(Rows) /\ IsFiniteSet({new}) /\ Rows \cap {new} = {}
          BY <2>3, <3>1, FS_Singleton
        <4> QED
          BY <3>3, <4>1, SummedApart
      <3>5. Summed(income', {new}) = amount
        <4>1. income'[new].amount = amount
          BY <2>1, <2>3
        <4> QED
          BY <3>2, <4>1, SummedOne
      <3>6. Summed(income', Rows) = Summed(income, Rows)
        <4>1. \A i \in Rows : income[i].amount \in Int /\ income'[i].amount = income[i].amount
          BY <2>3, <3>1
        <4> QED
          BY <3>1, <4>1, SummedSame
      <3>7. Total(Rows) = Summed(income, Rows) /\ Total(Rows)' = Summed(income', Rows')
        <4>1. Total(Rows) = Summed(income, Rows)
          BY DEF Total, Summed
        <4>2. Total(Rows)' = Summed(income', Rows')
          BY DEF Total, Summed, MapThenSumSet, MapThenFoldSet
        <4> QED
          BY <4>1, <4>2
      <3>8. Total(Rows)' = Total(Rows) + amount
        BY <2>3, <3>4, <3>5, <3>6, <3>7
      <3> QED
        BY <2>2, <3>1, <3>2, <3>8 DEF Balanced
    <2>5. \A i \in Rows' \ Rows : income'[i].time = now
      BY <2>3
    <2>6. now' \in Nat /\ now <= now'
      BY <1>0, <2>2
    <2> QED
      BY <2>2, <2>3, <2>4, <2>5, <2>6
  <1>3. CASE Realize \/ Transfer
    BY <1>0, <1>2, <1>3 DEF Realize, Transfer, Kinds
  <1> QED
    BY <1>0, <1>1, <1>3

\* Rows are never changed, and neither is the total of any of them.
LEMMA OldTotals ==
  ASSUME TypeOK, Rows \subseteq Rows', \A i \in Rows : income'[i] = income[i]
  PROVE  \A A \in SUBSET Rows : Total(A)' = Total(A)
  <1> SUFFICES ASSUME NEW A \in SUBSET Rows PROVE Total(A)' = Total(A)
    OBVIOUS
  <1>1. Total(A)' = Summed(income', A)
    BY DEF Total, Summed, MapThenSumSet, MapThenFoldSet
  <1>2. Total(A) = Summed(income, A)
    BY DEF Total, Summed
  <1>3. Summed(income', A) = Summed(income, A)
    <2>1. /\ IsFiniteSet(A)
          /\ \A i \in A : income[i].amount \in Int /\ income'[i].amount = income[i].amount
      BY TotalFacts
    <2> QED
      BY <2>1, SummedSame
  <1> QED
    BY <1>1, <1>2, <1>3

\* A coincidence among the old rows stays one.
LEMMA CoincidenceStays ==
  ASSUME TypeOK, Rows \subseteq Rows', \A i \in Rows : income'[i] = income[i],
         NoCoincidence'
  PROVE  NoCoincidence
  <1> SUFFICES ASSUME NEW A \in SUBSET Rows, NEW B \in SUBSET Rows, Total(A) = Total(B)
               PROVE  A = B
    BY DEF NoCoincidence
  <1>1. Total(A)' = Total(B)'
    BY OldTotals
  <1>2. A \in SUBSET (Rows') /\ B \in SUBSET (Rows')
    OBVIOUS
  <1> QED
    BY <1>1, <1>2 DEF NoCoincidence

\* What is booked afterwards changes nothing in what has been read.
LEMMA ExchangeKeepsTruth ==
  ASSUME Inv, Truth,
         Tick \/ Realize \/ Transfer \/ (\E i \in Rows : List(i)) \/ Mark \/ UNCHANGED vars
  PROVE  Truth'
  <1>1. /\ UNCHANGED <<ledger, saved, snap, tracker, pc, seen, stamp, flat, flows, exact,
                       draft>>
        /\ now \in Nat /\ now' \in Nat /\ now <= now' /\ listed \subseteq listed'
        /\ Rows \subseteq Rows' /\ \A i \in Rows : income'[i] = income[i]
        /\ \A i \in Rows' \ Rows : income'[i].time = now
        /\ Balanced => Balanced'
    BY ExchangeAdds
  <1>2. /\ TypeOK /\ stamp \in Nat /\ stamp <= now
        /\ DayOf(stamp)' = DayOf(stamp) /\ listed \subseteq Rows
        /\ \A A \in SUBSET Rows : Total(A)' = Total(A)
    BY <1>1, DatedFacts, OldTotals DEF Inv, TypeOK, Clocks, DayOf
  <1>3. Reading'
    <2>1. pc \in {"balance", "daily", "ledger"} =>
            seen.rows \subseteq Rows' /\ seen.wallet = StartWallet + Total(seen.rows)'
      <3> SUFFICES ASSUME pc \in {"balance", "daily", "ledger"}
                   PROVE  seen.rows \subseteq Rows'
                          /\ seen.wallet = StartWallet + Total(seen.rows)'
        OBVIOUS
      <3>1. seen.rows \subseteq Rows /\ seen.wallet = StartWallet + Total(seen.rows)
        BY DEF Truth, Reading
      <3>2. PICK A \in SUBSET Rows : A = seen.rows
        BY <3>1
      <3>3. Total(seen.rows)' = Total(A)'
        BY <1>1, <3>2 DEF Total, MapThenSumSet, MapThenFoldSet
      <3> QED
        BY <1>1, <1>2, <3>1, <3>2, <3>3
    <2>2. pc \in {"daily", "ledger"} => \A i \in seen.rows : income'[i].time <= stamp
      BY <1>1 DEF Truth, Reading
    <2>3. pc = "ledger" =>
            /\ \A i \in flows : /\ i \in listed' /\ income'[i].kind = "transfer"
                                /\ income'[i].time \in DayOf(stamp) * Day .. stamp
            /\ exact => /\ \A i \in Rows' : income'[i].time < stamp => i \in listed'
                        /\ \A i \in seen.rows : /\ income'[i].kind = "transfer"
                                                /\ income'[i].time >= DayOf(stamp) * Day
                                                => i \in flows
      BY <1>1, <1>2 DEF Truth, Reading
    <2> QED
      BY <1>1, <1>2, <2>1, <2>2, <2>3 DEF Reading
  <1>4. Told' /\ Drafts'
    BY <1>1 DEF Truth, Told, Drafts
  <1>5. PICK B \in SUBSET Rows : Books(B)
    BY DEF Truth
  <1>6. Books(B)'
    <2>1. Total(B)' = Total(B)
      BY <1>2
    <2>2. Founded(ledger, B)'
      BY <1>1, <1>5, <2>1 DEF Books, Founded
    <2>3. pc \in {"save", "publish"} => Founded(draft.ledger, B)'
      BY <1>1, <1>5, <2>1 DEF Books, Founded
    <2>4. Grounded(tracker, ledger, B)' /\ Grounded(saved, ledger, B)'
      <3>1. /\ tracker.captured \in Int /\ saved.captured \in Int /\ now' \in Int
            /\ ledger.started \in Int
        BY <1>1, <1>2, DatedFacts, ClockAssumption DEF TypeOK, States, Times
      <3> QED
        BY <1>1, <1>2, <1>5, <3>1 DEF Books, Grounded, DayOf
    <2> QED
      BY <1>1, <2>2, <2>3, <2>4 DEF Books
  <1> QED
    <2>1. B \in SUBSET (Rows')
      BY <1>1
    <2>2. Balanced'
      BY <1>1 DEF Truth
    <2> QED
      BY <1>3, <1>4, <1>6, <2>1, <2>2 DEF Truth

\* An observation reads what is booked, dates it and asks for the flows of the day.
LEMMA RequestsKeepTruth ==
  ASSUME Inv, Truth, ReadBalance \/ Stamp \/ QueryDaily
  PROVE  Truth'
  <1>1. UNCHANGED <<now, income, listed, wallet, upnl, ledger, saved, snap, tracker,
                    draft, word>>
    BY DEF ReadBalance, Stamp, QueryDaily, exchange, files
  <1>2. /\ pc' \in {"balance", "daily", "ledger"}
        /\ Rows' = Rows /\ listed \subseteq Rows /\ stamp \in Nat /\ now \in Nat
        /\ \A i \in Rows : income[i].time \in Nat /\ income[i].time <= now
    BY <1>1, DatedFacts DEF ReadBalance, Stamp, QueryDaily, Rows, Inv, TypeOK, Clocks
  <1>3. ASSUME NEW A PROVE Total(A)' = Total(A)
    BY <1>1 DEF Total, MapThenSumSet, MapThenFoldSet
  <1>4. Balanced'
    BY <1>1 DEF Truth, Balanced, Rows, Total, MapThenSumSet, MapThenFoldSet
  <1>5. seen'.rows \subseteq Rows /\ seen'.wallet = StartWallet + Total(seen'.rows)
    <2>1. CASE ReadBalance
      <3>1. seen'.rows = Rows /\ seen'.wallet = wallet
        BY <2>1 DEF ReadBalance
      <3> QED
        BY <3>1 DEF Truth, Balanced
    <2>2. CASE Stamp \/ QueryDaily
      <3>1. seen' = seen /\ pc \in {"balance", "daily"}
        BY <2>2 DEF Stamp, QueryDaily
      <3> QED
        BY <3>1 DEF Truth, Reading
    <2> QED
      BY <2>1, <2>2
  <1>6. seen'.rows \subseteq Rows' /\ seen'.wallet = StartWallet + Total(seen.rows)'
    <2>1. PICK A \in SUBSET Rows : A = seen'.rows
      BY <1>5
    <2>2. Total(seen.rows)' = Total(A)'
      BY <2>1 DEF Total, MapThenSumSet, MapThenFoldSet
    <2> QED
      BY <1>2, <1>3, <1>5, <2>1, <2>2
  <1>7. Reading'
    <2>1. CASE ReadBalance
      BY <1>6, <2>1 DEF ReadBalance, Reading
    <2>2. CASE Stamp
      <3>1. pc' = "daily" /\ stamp' = now /\ seen' = seen
        BY <2>2 DEF Stamp
      <3>2. \A i \in seen'.rows : income'[i].time <= stamp'
        BY <1>1, <1>2, <1>5, <3>1
      <3> QED
        BY <1>6, <3>1, <3>2 DEF Reading
    <2>3. CASE QueryDaily
      <3>1. /\ pc = "daily" /\ pc' = "ledger" /\ stamp' = stamp /\ seen' = seen
            /\ flows' = {i \in listed : /\ income[i].time \in DayOf(stamp) * Day .. stamp
                                        /\ income[i].kind = "transfer"}
            /\ exact' = \A i \in Rows : income[i].time <= stamp => i \in listed
        BY <2>3 DEF QueryDaily, Between
      <3>2. /\ DayOf(stamp) * Day \in Nat /\ DayOf(stamp)' = DayOf(stamp)
            /\ \A i \in seen.rows : i \in Rows /\ income[i].time <= stamp
        BY <1>1, <1>2, <1>5, <3>1, DayFacts, ClockAssumption DEF Truth, Reading, DayOf
      <3>3. exact' => \A i \in seen.rows : /\ income[i].kind = "transfer"
                                           /\ income[i].time >= DayOf(stamp) * Day
                                           => i \in flows'
        <4> SUFFICES ASSUME exact', NEW i \in seen.rows, income[i].kind = "transfer",
                            income[i].time >= DayOf(stamp) * Day
                     PROVE  i \in flows'
          OBVIOUS
        <4>1. i \in Rows /\ income[i].time <= stamp /\ income[i].time \in Nat
          BY <1>2, <3>2
        <4>2. i \in listed
          <5>1. \A j \in Rows : income[j].time <= stamp => j \in listed
            BY <3>1, Zenon
          <5> QED
            BY <4>1, <5>1
        <4>3. income[i].time \in DayOf(stamp) * Day .. stamp
          <5> DEFINE midnight == DayOf(stamp) * Day
          <5>1. midnight \in Nat /\ income[i].time >= midnight
            BY <3>2
          <5> HIDE DEF midnight
          <5>2. income[i].time \in midnight .. stamp
            BY <1>2, <4>1, <5>1
          <5> QED
            BY <5>2 DEF midnight
        <4> QED
          BY <3>1, <4>2, <4>3
      <3> QED
        BY <1>1, <1>2, <1>6, <3>1, <3>2, <3>3 DEF Reading
    <2> QED
      BY <2>1, <2>2, <2>3
  <1>8. Told' /\ Drafts'
    BY <1>1, <1>2 DEF Truth, Told, Drafts
  <1>9. PICK B \in SUBSET Rows : Books(B)
    BY DEF Truth
  <1>10. Books(B)'
    BY <1>1, <1>2, <1>3, <1>9 DEF Books, Founded, Grounded, DayOf
  <1> QED
    BY <1>2, <1>4, <1>7, <1>8, <1>9, <1>10 DEF Truth

\* Whatever ends an observation keeps what its files are founded on.
LEMMA EndsKeepTruth ==
  ASSUME Inv, Truth, GiveUp \/ SaveLedger \/ Publish \/ Crash
  PROVE  Truth'
  <1>1. UNCHANGED <<now, income, listed, wallet, upnl, saved>>
    BY DEF GiveUp, SaveLedger, Publish, Crash, exchange, files
  <1>2. Rows' = Rows
    BY <1>1 DEF Rows
  <1>3. ASSUME NEW A PROVE Total(A)' = Total(A)
    BY <1>1 DEF Total, MapThenSumSet, MapThenFoldSet
  <1>4. Balanced'
    BY <1>1 DEF Truth, Balanced, Rows, Total, MapThenSumSet, MapThenFoldSet
  <1>5. PICK B \in SUBSET Rows : Books(B)
    BY DEF Truth
  <1>6. CASE SaveLedger
    <2>1. /\ pc = "save" /\ pc' = "publish" /\ ledger' = draft.ledger
          /\ UNCHANGED <<snap, tracker, draft>>
      BY <1>6 DEF SaveLedger, locals
    <2>2. Reading' /\ Told' /\ Drafts'
      BY <2>1 DEF Truth, Reading, Told, Drafts
    <2>3. /\ Founded(draft.ledger, B)
          /\ Grounded(tracker, ledger, B) /\ Grounded(saved, ledger, B)
      BY <1>5, <2>1 DEF Books
    <2>4. Founded(ledger, B)' /\ Founded(draft.ledger, B)'
      BY <1>1, <1>2, <1>3, <2>1, <2>3 DEF Founded
    <2>5. Grounded(tracker, ledger, B)' /\ Grounded(saved, ledger, B)'
      BY <1>1, <1>2, <2>1, <2>3 DEF Truth, Drafts, Grounded, DayOf
    <2>6. Books(B)'
      BY <2>4, <2>5 DEF Books
    <2> QED
      BY <1>2, <1>4, <2>2, <2>6 DEF Truth
  <1>7. CASE GiveUp \/ Publish \/ Crash
    <2>1. /\ pc' = "idle" /\ ledger' = ledger /\ tracker' \in {tracker, saved}
          /\ \/ snap' = snap
             \/ pc = "publish" /\ snap' = draft.snap
      BY <1>7 DEF GiveUp, Publish, Crash, files
    <2>2. Reading' /\ Told' /\ Drafts'
      BY <2>1 DEF Truth, Reading, Told, Drafts
    <2>3. Founded(ledger, B) /\ Grounded(tracker, ledger, B) /\ Grounded(saved, ledger, B)
      BY <1>5 DEF Books
    <2>4. Founded(ledger, B)'
      BY <1>1, <1>2, <1>3, <2>1, <2>3 DEF Founded
    <2>5. Grounded(tracker, ledger, B)' /\ Grounded(saved, ledger, B)'
      BY <1>1, <1>2, <2>1, <2>3 DEF Grounded, DayOf
    <2>6. Books(B)'
      BY <2>1, <2>4, <2>5 DEF Books
    <2> QED
      BY <1>2, <1>4, <2>2, <2>6 DEF Truth
  <1> QED
    BY <1>6, <1>7

\* A day begins no later than any of its ticks.
LEMMA DayBegins == \A t \in Int : DayOf(t) * Day \in Int /\ DayOf(t) * Day <= t
  BY ClockAssumption DEF DayOf

\* What a ledger query leaves of the ledger, and what it adds to it.
LEMMA UpdatedParts ==
  ASSUME Inv, pc = "ledger"
  PROVE  /\ Updated # NoLedger /\ stamp \in Nat /\ listed \subseteq Rows
         /\ \A i \in Rows : income[i].time \in Nat
         /\ ledger.started \in Int /\ ledger.cursor \in Int /\ ledger.cursor <= stamp
         /\ Updated.cursor = stamp
         /\ ledger = NoLedger => /\ Updated.started = stamp
                                 /\ Updated.wallet = seen.wallet
                                 /\ Updated.rows = {}
         /\ ledger # NoLedger =>
              /\ Updated.started = ledger.started
              /\ Updated.wallet = ledger.wallet
              /\ \A i \in Updated.rows \ ledger.rows :
                   i \in listed /\ income[i].time > ledger.started
              /\ \A i \in listed :
                   income[i].time > ledger.started /\ income[i].time <= stamp
                     => i \in Updated.rows
  <1>1. /\ TypeOK /\ stamp \in Nat /\ ledger.started \in Int /\ ledger.cursor \in Int
        /\ \A i \in Rows : income[i].time \in Nat
        /\ listed \subseteq Rows /\ ledger.cursor <= stamp
        /\ MaxDelay \in Nat /\ Overlap \in Nat /\ MaxDelay <= Overlap
    BY DatedFacts DEF Inv, TypeOK, Cursors
  <1>2. Updated.cursor = stamp /\ Updated # NoLedger
    BY <1>1, UpdatedFacts DEF NoLedger
  <1>3. CASE ledger = NoLedger
    BY <1>1, <1>2, <1>3 DEF Updated, Opening
  <1>4. CASE ledger # NoLedger
    <2> DEFINE from == Max({ledger.started, ledger.cursor - Overlap})
               added == {i \in Between(from, stamp) : income[i].time > ledger.started}
    <2>1. Updated = [ledger EXCEPT !.rows = @ \cup added, !.cursor = stamp]
      BY <1>4 DEF Updated, Merged
    <2>2. /\ Updated.started = ledger.started
          /\ Updated.wallet = ledger.wallet
          /\ Updated.rows = ledger.rows \cup added
      BY <1>1, <2>1 DEF TypeOK, Ledgers
    <2>3. added \subseteq listed /\ \A i \in added : income[i].time > ledger.started
      BY DEF Between
    <2>4. from \in {ledger.started, ledger.cursor - Overlap} /\ from \in Int
      <3>1. ledger.started \in Int /\ ledger.cursor - Overlap \in Int
        BY <1>1
      <3> QED
        BY <3>1, MaxOfTwo
    <2>5. ASSUME NEW i \in listed, income[i].time > ledger.started, income[i].time <= stamp
          PROVE  i \in Updated.rows
      <3>0. i \in Rows /\ income[i].time \in Nat
        BY <1>1, <2>5
      <3>1. CASE income[i].time < from
        <4>1. income[i].time < ledger.cursor - Overlap
          <5> HIDE DEF from
          <5> QED
            BY <1>1, <2>4, <2>5, <3>0, <3>1
        <4>2. income[i].time \in (ledger.started + 1)..(ledger.cursor - MaxDelay)
          BY <1>1, <2>5, <3>0, <4>1
        <4>3. i \in ledger.rows
          BY <1>4, <3>0, <4>2 DEF Inv, NothingForgotten
        <4> QED
          BY <2>2, <4>3
      <3>2. CASE income[i].time >= from
        <4>1. income[i].time \in from..stamp
          <5> HIDE DEF from
          <5> QED
            BY <1>1, <2>4, <2>5, <3>0, <3>2
        <4>2. i \in added
          BY <2>5, <4>1 DEF Between
        <4> QED
          BY <2>2, <4>2
      <3>3. income[i].time < from \/ income[i].time >= from
        <4> HIDE DEF from
        <4> QED
          BY <2>4, <3>0
      <3> QED
        BY <3>1, <3>2, <3>3
    <2> HIDE DEF added, from
    <2>6. \A i \in Updated.rows \ ledger.rows :
            i \in listed /\ income[i].time > ledger.started
      BY <2>2, <2>3
    <2> QED
      BY <1>1, <1>2, <1>4, <2>2, <2>5, <2>6
  <1> QED
    BY <1>3, <1>4

\* The updated ledger is founded on the rows its predecessor is founded on; the first
\* ledger on the rows of the balance that was read.
LEMMA LedgerGrows ==
  ASSUME Inv, Truth, pc = "ledger"
  PROVE  \E B \in SUBSET Rows : Books(B) /\ Founded(Updated, B)
  <1>1. PICK B \in SUBSET Rows : Books(B)
    BY DEF Truth
  <1>2. CASE ledger = NoLedger
    <2>1. /\ seen.rows \subseteq Rows /\ seen.wallet = StartWallet + Total(seen.rows)
          /\ \A i \in seen.rows : income[i].time <= stamp
      BY DEF Truth, Reading
    <2>2. Founded(Updated, seen.rows)
      BY <1>2, <2>1, UpdatedParts DEF Founded
    <2>3. Books(seen.rows)
      BY <1>1, <1>2 DEF Books, Founded, Grounded
    <2> QED
      BY <2>1, <2>2, <2>3
  <1>3. CASE ledger # NoLedger
    <2>1. Founded(ledger, B)
      BY <1>1 DEF Books
    <2>2. Founded(Updated, B)
      BY <1>3, <2>1, UpdatedParts DEF Founded
    <2> QED
      BY <1>1, <2>2
  <1> QED
    BY <1>2, <1>3

\* A drift of zero that is no coincidence: the balance holds what the ledger is founded
\* on and what it lists, and nothing else.
LEMMA NoDrift ==
  ASSUME Inv, Truth, NoCoincidence, pc = "ledger", Explained(Updated),
         NEW B \in SUBSET Rows, Founded(Updated, B)
  PROVE  seen.rows = B \cup Updated.rows
  <1>1. /\ Updated.wallet = StartWallet + Total(B)
        /\ \A i \in B : income[i].time <= Updated.started
        /\ \A i \in Updated.rows : i \in Rows /\ income[i].time > Updated.started
    BY UpdatedParts DEF Founded
  <1>2. seen.rows \in SUBSET Rows /\ seen.wallet = StartWallet + Total(seen.rows)
    BY DEF Truth, Reading
  <1>3. Updated.rows \in SUBSET Rows /\ B \cap Updated.rows = {}
    <2>1. Updated.started \in Int /\ \A i \in Rows : income[i].time \in Nat
      BY UpdatedParts, UpdatedFacts, DatedFacts DEF Inv
    <2> QED
      BY <1>1, <2>1
  <1>4. /\ Total(B \cup Updated.rows) = Total(B) + Total(Updated.rows)
        /\ Total(B) \in Int /\ Total(Updated.rows) \in Int /\ Total(seen.rows) \in Int
        /\ StartWallet \in Int
    BY <1>2, <1>3, TotalFacts DEF Inv
  <1>5. seen.wallet = Updated.wallet + Total(Updated.rows)
    BY DEF Explained
  <1>6. Total(seen.rows) = Total(B \cup Updated.rows)
    <2>1. \A s, a, b, d \in Int : s + a = (s + b) + d => a = b + d
      OBVIOUS
    <2>2. StartWallet + Total(seen.rows) = (StartWallet + Total(B)) + Total(Updated.rows)
      BY <1>1, <1>2, <1>5
    <2> QED
      BY <1>4, <2>1, <2>2
  <1> QED
    BY <1>2, <1>3, <1>6 DEF NoCoincidence

\* The baseline a verdict is computed from is the day's, or the balance just explained.
LEMMA CurrentIsGrounded ==
  ASSUME Inv, Truth, NoCoincidence, pc = "ledger", Explained(Updated),
         NEW B \in SUBSET Rows, Books(B), Founded(Updated, B)
  PROVE  Grounded(Current, ledger, B)
  <1>1. CASE tracker.day = Today
    BY <1>1 DEF Current, Books
  <1>2. CASE tracker.day # Today
    <2>1. /\ Current.day = DayOf(stamp) /\ Current.captured = stamp
          /\ Current.exact = (exact /\ ledger # NoLedger)
          /\ Current.rows = seen.rows
      BY <1>2 DEF Current, Today
    <2> SUFFICES ASSUME exact, ledger # NoLedger PROVE Grounded(Current, ledger, B)
      BY <2>1 DEF Grounded
    <2>2. seen.rows = B \cup Updated.rows
      BY NoDrift
    <2>3. ledger.started <= stamp /\ stamp <= now
      <3>1. ledger.started <= ledger.cursor
        BY DEF Books, Founded
      <3> QED
        BY <3>1, UpdatedParts DEF Inv, Clocks
    <2>4. \A i \in seen.rows : i \in Rows /\ income[i].time <= stamp
      BY DEF Truth, Reading
    <2>5. ASSUME NEW i \in Rows, income[i].time > ledger.started, income[i].time < stamp
          PROVE  i \in seen.rows
      <3>1. i \in listed
        BY <2>5 DEF Truth, Reading
      <3>2. income[i].time <= stamp
        BY <2>5, UpdatedParts
      <3>3. i \in Updated.rows
        BY <2>5, <3>1, <3>2, UpdatedParts
      <3> QED
        BY <2>2, <3>3
    <2> QED
      BY <2>1, <2>2, <2>3, <2>4, <2>5 DEF Grounded
  <1> QED
    BY <1>1, <1>2

\* Against a grounded baseline the flows of the day are all that was paid in since, and
\* nothing else.
LEMMA FlowsAreDeposits ==
  ASSUME Inv, Truth, NoCoincidence, pc = "ledger", Explained(Updated), exact,
         NEW B \in SUBSET Rows, Founded(Updated, B),
         NEW c \in States, c.day = Today, c.exact, Grounded(c, ledger, B),
         \A i \in flows : income[i].time # c.captured
  PROVE  {i \in flows : income[i].time > c.captured}
           = {i \in seen.rows \ c.rows : income[i].kind = "transfer"}
  <1>1. /\ stamp \in Nat /\ c.captured \in Int /\ Today = DayOf(stamp) /\ c.day >= 0
    <2>1. c.captured \in Int
      BY ClockAssumption DEF States, Times
    <2>2. stamp \in Nat /\ Today \in Nat
      BY UpdatedParts, CurrentFacts
    <2> QED
      BY <2>1, <2>2 DEF Today
  <1>2. /\ ledger # NoLedger
        /\ B \subseteq c.rows
        /\ ledger.started <= c.captured
        /\ DayOf(c.captured) = c.day
        /\ \A i \in c.rows : i \in Rows /\ income[i].time <= c.captured
        /\ \A i \in Rows : income[i].time > ledger.started /\ income[i].time < c.captured
                             => i \in c.rows
    BY <1>1 DEF Grounded
  <1>3. seen.rows = B \cup Updated.rows
    BY NoDrift
  <1>4. /\ Updated.started = ledger.started /\ ledger.started \in Int
        /\ listed \subseteq Rows /\ \A i \in Rows : income[i].time \in Nat
        /\ \A i \in listed : income[i].time > ledger.started /\ income[i].time <= stamp
                               => i \in Updated.rows
        /\ \A i \in Updated.rows : i \in Rows /\ income[i].time > ledger.started
    BY <1>2, UpdatedParts DEF Founded
  <1>5. /\ \A i \in flows : /\ i \in listed /\ income[i].kind = "transfer"
                            /\ income[i].time \in DayOf(stamp) * Day .. stamp
        /\ \A i \in seen.rows : /\ income[i].kind = "transfer"
                                /\ income[i].time >= DayOf(stamp) * Day
                                => i \in flows
    BY DEF Truth, Reading
  <1>6. ASSUME NEW i \in flows, income[i].time > c.captured
        PROVE  i \in seen.rows /\ i \notin c.rows /\ income[i].kind = "transfer"
    <2>1. /\ i \in listed /\ i \in Rows /\ income[i].kind = "transfer"
          /\ income[i].time \in Nat
      BY <1>4, <1>5
    <2>2. income[i].time <= stamp
      <3> DEFINE midnight == DayOf(stamp) * Day
      <3>1. income[i].time \in midnight .. stamp
        BY <1>5
      <3> HIDE DEF midnight
      <3> QED
        BY <3>1
    <2>3. income[i].time > ledger.started
      BY <1>1, <1>2, <1>4, <1>6, <2>1
    <2>4. i \in Updated.rows
      BY <1>4, <2>1, <2>2, <2>3
    <2>5. i \notin c.rows
      BY <1>1, <1>2, <1>6, <2>1
    <2> QED
      BY <1>3, <2>1, <2>4, <2>5
  <1>7. ASSUME NEW i \in seen.rows, i \notin c.rows, income[i].kind = "transfer"
        PROVE  i \in flows /\ income[i].time > c.captured
    <2>1. i \in Updated.rows
      BY <1>2, <1>3, <1>7
    <2>2. i \in Rows /\ income[i].time > ledger.started /\ income[i].time \in Nat
      BY <1>4, <2>1
    <2>3. income[i].time >= c.captured
      BY <1>1, <1>2, <1>7, <2>2
    <2>4. income[i].time >= DayOf(stamp) * Day
      <3> DEFINE midnight == DayOf(stamp) * Day
      <3>1. midnight \in Int /\ midnight <= c.captured
        BY <1>1, <1>2, DayBegins
      <3> HIDE DEF midnight
      <3>2. income[i].time >= midnight
        BY <1>1, <2>2, <2>3, <3>1
      <3> QED
        BY <3>2 DEF midnight
    <2>5. i \in flows
      BY <1>5, <1>7, <2>4
    <2> QED
      BY <1>1, <2>2, <2>3, <2>5
  <1> QED
    BY <1>6, <1>7

\* An exact verdict shows at least what trading has lost.
LEMMA ExactVerdict ==
  ASSUME Inv, Truth, NoCoincidence, pc = "ledger", Explained(Updated), ~Refusable(Current),
         NEW B \in SUBSET Rows, Books(B), Founded(Updated, B)
  PROVE  Verdict(Observed(Current)).exact => ~Verdict(Observed(Current)).hides
  <1> DEFINE c == Current
  <1>1. /\ c \in States /\ c.day = Today
        /\ Observed(c).start = c.start /\ Observed(c).captured = c.captured
        /\ Observed(c).rows = c.rows /\ Observed(c).exact = c.exact
    BY CurrentFacts DEF Observed, States
  <1> HIDE DEF c
  <1>2. /\ Verdict(Observed(c)).exact <=> exact /\ c.exact
        /\ Verdict(Observed(c)).hides <=> Loss(c) < TrueLoss(c)
    BY <1>1, Zenon DEF Verdict, Loss, TrueLoss
  <1> SUFFICES ASSUME exact, c.exact PROVE ~(Loss(c) < TrueLoss(c))
    BY <1>2 DEF c
  <1>3. {i \in flows : income[i].time > c.captured}
          = {i \in seen.rows \ c.rows : income[i].kind = "transfer"}
    <2>1. Grounded(c, ledger, B)
      BY CurrentIsGrounded DEF c
    <2>2. \A i \in flows : income[i].time # c.captured
      BY DEF Refusable, c
    <2> QED
      BY <1>1, <2>1, <2>2, FlowsAreDeposits
  <1> DEFINE paid == Total({i \in seen.rows \ c.rows : income[i].kind = "transfer"})
  <1>4. paid \in Int /\ c.start \in Int /\ seen.equity \in Int
    <2>1. {i \in seen.rows \ c.rows : income[i].kind = "transfer"} \in SUBSET Rows
      BY DEF Truth, Reading
    <2>2. paid \in Int
      BY <2>1, TotalFacts DEF Inv
    <2> QED
      BY <1>1, <2>2 DEF States, Inv, TypeOK
  <1>5. Loss(c) = Max({0, c.start + paid - seen.equity})
        /\ TrueLoss(c) = c.start + paid - seen.equity
    BY <1>3, Zenon DEF Loss, TrueLoss
  <1> HIDE DEF paid
  <1>6. c.start + paid - seen.equity \in Int
    BY <1>4
  <1>7. Loss(c) >= c.start + paid - seen.equity /\ Loss(c) \in Int
    <2> DEFINE lost == c.start + paid - seen.equity
    <2>1. lost \in Int /\ Loss(c) = Max({0, lost})
      BY <1>5, <1>6
    <2> HIDE DEF lost
    <2>2. Max({0, lost}) \in {0, lost} /\ Max({0, lost}) >= lost
      BY <2>1, MaxOfTwo
    <2>3. Loss(c) >= lost /\ Loss(c) \in Int
      BY <2>1, <2>2
    <2> QED
      BY <2>3 DEF lost
  <1> QED
    BY <1>4, <1>5, <1>6, <1>7

\* A draft keeps the truth when it is grounded and tells it.
LEMMA DraftKeepsTruth ==
  ASSUME Inv, Truth, NEW verified, NEW risk, Drafted(verified, risk),
         risk.exact => ~risk.hides,
         NEW B \in SUBSET Rows, Books(B), Founded(Updated, B),
         Grounded(tracker', ledger, B), Grounded(saved', ledger, B)
  PROVE  Truth'
  <1>1. /\ pc = "ledger" /\ pc' = "save"
        /\ draft'.ledger = Updated /\ draft'.snap.risk = risk
        /\ UNCHANGED <<now, income, listed, wallet, upnl, ledger, snap>>
    BY DEF Drafted, exchange
  <1>2. Rows' = Rows
    BY <1>1 DEF Rows
  <1>3. Total(B)' = Total(B)
    BY <1>1 DEF Total, MapThenSumSet, MapThenFoldSet
  <1>4. Balanced'
    BY <1>1 DEF Truth, Balanced, Rows, Total, MapThenSumSet, MapThenFoldSet
  <1>5. Reading' /\ Told'
    BY <1>1 DEF Truth, Reading, Told
  <1>6. Drafts'
    BY <1>1, UpdatedParts DEF Drafts
  <1>7. Founded(ledger, B)' /\ Founded(draft.ledger, B)'
    BY <1>1, <1>2, <1>3 DEF Books, Founded
  <1>8. Grounded(tracker, ledger, B)' /\ Grounded(saved, ledger, B)'
    BY <1>1, <1>2 DEF Grounded, DayOf
  <1>9. Books(B)'
    BY <1>7, <1>8 DEF Books
  <1> QED
    BY <1>2, <1>4, <1>5, <1>6, <1>9 DEF Truth

\* The judgement of an observation tells the truth about an explained balance.
LEMMA JudgeKeepsTruth ==
  ASSUME Inv, Truth, NoCoincidence, Judge
  PROVE  Truth'
  <1>1. pc = "ledger"
    BY DEF Judge, JudgeUnreconciled, JudgeMissed, JudgeRefused, JudgeObserved, Drafted
  <1>2. PICK B \in SUBSET Rows : Books(B) /\ Founded(Updated, B)
    BY <1>1, LedgerGrows
  <1>3. Grounded(tracker, ledger, B) /\ Grounded(saved, ledger, B)
    BY <1>2 DEF Books
  <1>4. NoVerdict.exact => ~NoVerdict.hides
    BY DEF NoVerdict
  <1>5. CASE JudgeUnreconciled \/ JudgeMissed
    <2>1. \E v \in BOOLEAN : Drafted(v, NoVerdict)
      BY <1>5 DEF JudgeUnreconciled, JudgeMissed
    <2>2. tracker' = tracker /\ saved' = saved
      BY <1>5 DEF JudgeUnreconciled, JudgeMissed
    <2> QED
      BY <1>2, <1>3, <1>4, <2>1, <2>2, DraftKeepsTruth
  <1>6. ASSUME Explained(Updated) PROVE Grounded(Current, ledger, B)
    BY <1>1, <1>2, <1>6, CurrentIsGrounded
  <1>7. CASE JudgeRefused
    <2>1. /\ Drafted(TRUE, NoVerdict)
          /\ tracker' = Current /\ saved' = saved
      BY <1>7 DEF JudgeRefused
    <2>2. Grounded(Current, ledger, B)
      BY <1>6, <2>1 DEF Drafted
    <2> QED
      BY <1>2, <1>3, <1>4, <2>1, <2>2, DraftKeepsTruth
  <1>8. CASE JudgeObserved
    <2>1. /\ Drafted(TRUE, Verdict(Observed(Current))) /\ ~Refusable(Current)
          /\ tracker' = Observed(Current) /\ saved' = Observed(Current)
      BY <1>8 DEF JudgeObserved
    <2>2. Explained(Updated)
      BY <2>1 DEF Drafted
    <2>3. Grounded(Observed(Current), ledger, B)
      <3>1. /\ Observed(Current).day = Current.day
            /\ Observed(Current).captured = Current.captured
            /\ Observed(Current).rows = Current.rows
            /\ Observed(Current).exact = Current.exact
        BY <1>1, CurrentFacts DEF Observed, States
      <3> QED
        BY <1>6, <2>2, <3>1 DEF Grounded
    <2>4. Verdict(Observed(Current)).exact => ~Verdict(Observed(Current)).hides
      BY <1>1, <1>2, <2>1, <2>2, ExactVerdict
    <2> QED
      BY <1>2, <2>1, <2>3, <2>4, DraftKeepsTruth
  <1> QED
    BY <1>5, <1>7, <1>8 DEF Judge

\* At first nothing is booked, known or published.
LEMMA InitTruth == Init => TruthInv
  <1> SUFFICES ASSUME Init PROVE TruthInv
    OBVIOUS
  <1>1. Inv
    BY InitInv
  <1>2. Rows = {}
    BY DEF Init, Rows
  <1>3. Total({}) = 0
    <2>1. Total({}) = Summed(income, {})
      BY DEF Total, Summed
    <2>2. Summed(income, {}) = Net([i \in {} |-> income[i].amount], {})
      <3>1. IsFiniteSet({}) /\ \A i \in {} : income[i].amount \in Int
        BY FS_EmptySet
      <3> QED
        BY <3>1, SummedIsNet
    <2> QED
      BY <2>1, <2>2, NetOfNothing
  <1>4. Balanced
    BY <1>2, <1>3, AmountsAssumption DEF Init, Balanced
  <1>5. Reading /\ Told /\ Drafts
    BY DEF Init, Reading, Told, Drafts, NoSnapshot, NoVerdict
  <1>6. Books({})
    BY DEF Init, Books, Founded, Grounded, NoDay
  <1> QED
    BY <1>1, <1>4, <1>5, <1>6 DEF TruthInv, Truth

\* The truth is kept for as long as there is no coincidence.
LEMMA StepTruth == TruthInv /\ [Next]_vars => TruthInv'
  <1> SUFFICES ASSUME TruthInv, [Next]_vars, NoCoincidence' PROVE Inv' /\ Truth'
    BY StepInv DEF TruthInv
  <1>1. Inv /\ Inv'
    BY StepInv DEF TruthInv
  <1>2. Rows \subseteq Rows' /\ \A i \in Rows : income'[i] = income[i]
    <2>1. CASE \/ Tick \/ Realize \/ Transfer \/ (\E i \in Rows : List(i)) \/ Mark
               \/ UNCHANGED vars
      BY <1>1, <2>1, ExchangeAdds
    <2>2. CASE \/ ReadBalance \/ Stamp \/ QueryDaily \/ GiveUp
               \/ Judge \/ SaveLedger \/ Publish \/ Crash
      <3>1. income' = income
        BY <2>2 DEF ReadBalance, Stamp, QueryDaily, GiveUp, Judge, JudgeUnreconciled,
                    JudgeMissed, JudgeRefused, JudgeObserved, Drafted, SaveLedger, Publish,
                    Crash, exchange
      <3> QED
        BY <3>1 DEF Rows
    <2> QED
      BY <2>1, <2>2 DEF Next
  <1>3. NoCoincidence
    BY <1>1, <1>2, CoincidenceStays DEF Inv
  <1>4. Truth
    BY <1>3 DEF TruthInv
  <1>5. Truth'
    <2>1. CASE \/ Tick \/ Realize \/ Transfer \/ (\E i \in Rows : List(i)) \/ Mark
               \/ UNCHANGED vars
      BY <1>1, <1>4, <2>1, ExchangeKeepsTruth
    <2>2. CASE ReadBalance \/ Stamp \/ QueryDaily
      BY <1>1, <1>4, <2>2, RequestsKeepTruth
    <2>3. CASE GiveUp \/ SaveLedger \/ Publish \/ Crash
      BY <1>1, <1>4, <2>3, EndsKeepTruth
    <2>4. CASE Judge
      BY <1>1, <1>3, <1>4, <2>4, JudgeKeepsTruth
    <2> QED
      BY <2>1, <2>2, <2>3, <2>4 DEF Next
  <1> QED
    BY <1>1, <1>5

--------------------------------------------------------------------------------

\* Every variable of the observation has its type for all amounts and bounds.
THEOREM TypeCorrect == Spec => []TypeOK
  <1>1. Inv => TypeOK
    BY DEF Inv
  <1> QED
    BY <1>1, Invariance, PTL

\* No income that the cursor of the ledger has passed by more than the listing
\* delay is missing from it, whatever request failed and wherever the process
\* died: the queries of _ledger_update overlap by enough.
THEOREM LedgerForgetsNothing == Spec => []NothingForgotten
  <1>1. Inv => NothingForgotten
    BY DEF Inv
  <1> QED
    BY <1>1, Invariance, PTL

\* The order of the three saves of observe_account: what a snapshot tells its
\* readers is on disk before it is.
THEOREM SnapshotComesLast == Spec => []SnapshotIsBacked
  <1>1. Inv => SnapshotIsBacked
    BY DEF Inv
  <1> QED
    BY <1>1, Invariance, PTL

\* What is published next of the same day repeats baseline and breach.
LEMMA WordIsKept ==
  Inv /\ [Next]_vars => word' = word \/ Backs(word', word)
  <1> SUFFICES ASSUME Inv, [Next]_vars, word' # word PROVE Backs(word', word)
    OBVIOUS
  <1>1. Publish
    <2>1. CASE UNCHANGED vars
      BY <2>1 DEF vars
    <2>2. CASE Next
      BY <2>2 DEF Next, Tick, Realize, Transfer, Book, List, Mark, ReadBalance, Stamp,
                  QueryDaily, GiveUp, Judge, JudgeUnreconciled, JudgeMissed,
                  JudgeRefused, JudgeObserved, Drafted, SaveLedger, Crash
    <2> QED
      BY <2>1, <2>2
  <1> QED
    BY <1>1 DEF Publish, Inv, Chain

\* A published breach is not taken back on its day, by whatever interleaving of
\* crashes, failed requests and equity.
THEOREM BreachStays == Spec => BreachIsFinal
  <1>1. Inv /\ [Next]_vars =>
          [word'.day = word.day /\ word.breached => word'.breached]_vars
    BY WordIsKept DEF Backs
  <1> QED
    BY <1>1, Invariance, PTL DEF Spec, BreachIsFinal

\* All verdicts published for a day are against the same baseline.
THEOREM BaselineStays == Spec => OneBaseline
  <1>1. Inv /\ [Next]_vars =>
          [word'.day = word.day =>
             word'.start = word.start /\ word'.captured = word.captured]_vars
    BY WordIsKept DEF Backs
  <1> QED
    BY <1>1, Invariance, PTL DEF Spec, OneBaseline

\* "Deposits cannot erase trading losses": whatever is paid in or out, whichever request
\* fails and wherever the process dies, a published verdict does not show less than
\* trading has lost while the income history is up to date when it is read, the day's
\* baseline comes from an explained balance, and no drift is zero by coincidence.
THEOREM ExactVerdictsTell == Spec => []ExactVerdictsHideNothing
  <1>1. TruthInv => ExactVerdictsHideNothing
    BY DEF TruthInv, Truth, Told, ExactVerdictsHideNothing, DepositsHideNothing
  <1> QED
    BY <1>1, InitTruth, StepTruth, PTL DEF Spec

================================================================================
