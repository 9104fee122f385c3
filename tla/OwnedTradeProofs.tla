---------------------------- MODULE OwnedTradeProofs ----------------------------
(***************************************************************************)
(* TradeLifecycle implements OwnedTrade, for every plan quantity, exchange *)
(* behaviour, set of events and number of faults and crashes.              *)
(*                                                                         *)
(* What the journals, the wire and the exchange's book know of each other  *)
(* is Agreement; what the process may rely on at each place is Standing.   *)
(* Both hold beside Inv of TradeLifecycleProofs.  The hard step is to      *)
(* write the trade off: the journals' sum of exits equals the entry's      *)
(* fills, and the books' sum is not less (LotSums), so nothing is held.    *)
(***************************************************************************)
EXTENDS TradeLifecycleProofs, LotSums

--------------------------------------------------------------------------------
(* Sums of fills.                                                          *)

\* The lot steps that the exits of a journal or of the book have filled.
FillUnits(ev) == {u \in ExitIds \X (Nat \ {0}) : u[2] <= ev[u[1]].filled}

SolvesFills(sum, ev, S) ==
  sum = [s \in SUBSET S |-> IF s = {} THEN 0
                                      ELSE ev[Pick(s)].filled + sum[s \ {Pick(s)}]]

\* The client ids of one plan are finitely many.
LEMMA ExitsFinite == IsFiniteSet(ExitIds)
<1>1. IsFiniteSet(Quantities)
  BY PlanQuantityAssumption, FS_Interval DEF Quantities
<1>2. /\ IsFiniteSet({"STOP"}) /\ IsFiniteSet({"FLATTEN"}) /\ IsFiniteSet({0})
      /\ IsFiniteSet({"TP1"}) /\ IsFiniteSet({"TP2"})
  BY FS_Singleton
<1>3. IsFiniteSet(TargetRoles)
  <2>1. TargetRoles \subseteq {"TP1"} \cup {"TP2"}
    BY DEF TargetRoles
  <2>2. IsFiniteSet({"TP1"} \cup {"TP2"})
    BY <1>2, FS_Union
  <2> QED
    BY <2>1, <2>2, FS_Subset
<1>4. ASSUME NEW A, NEW B, NEW C, IsFiniteSet(A), IsFiniteSet(B), IsFiniteSet(C)
      PROVE  IsFiniteSet(A \X B \X C)
  <2>1. IsFiniteSet(A \X B)
    BY <1>4, FS_Product
  <2>2. IsFiniteSet((A \X B) \X C)
    BY <1>4, <2>1, FS_Product
  <2> DEFINE f == [t \in (A \X B) \X C |-> <<t[1][1], t[1][2], t[2]>>]
  <2>3. f \in Surjection((A \X B) \X C, A \X B \X C)
    <3>1. f \in [(A \X B) \X C -> A \X B \X C]
      OBVIOUS
    <3>2. \A u \in A \X B \X C : \E t \in (A \X B) \X C : f[t] = u
      <4> TAKE u \in A \X B \X C
      <4> WITNESS <<<<u[1], u[2]>>, u[3]>> \in (A \X B) \X C
      <4> QED
        OBVIOUS
    <3> QED
      BY <3>1, <3>2 DEF Surjection
  <2> QED
    BY <2>2, <2>3, FS_Surjection
<1>5. /\ IsFiniteSet(StopIds)
      /\ IsFiniteSet(TargetRoles \X Quantities \X Quantities)
      /\ IsFiniteSet({"FLATTEN"} \X Quantities \X Quantities)
  BY <1>1, <1>2, <1>3, <1>4 DEF StopIds
<1>6. IsFiniteSet(TargetIds) /\ IsFiniteSet(FlattenIds)
  BY <1>5, FS_Subset DEF TargetIds, FlattenIds
<1>7. IsFiniteSet(StopIds \cup TargetIds)
  BY <1>5, <1>6, FS_Union
<1> QED
  BY <1>6, <1>7, FS_Union DEF ExitIds

\* A sum of fills is the number of lot steps that were filled.
LEMMA FilledByIsLots ==
  ASSUME NEW ev, NEW ids, IsFiniteSet(ids), \A x \in ids : ev[x].filled \in Nat
  PROVE  FilledBy(ev, ids) = Lots([x \in ids |-> ev[x].filled], ids)
<1> DEFINE S == {i \in ids : ev[i].filled > 0}
           f == [i \in S |-> ev[i].filled]
           units == [s \in SUBSET S |-> Cardinality(Units(f, s))]
           sum == CHOOSE g : g = [s \in SUBSET S |->
                                    IF s = {} THEN 0
                                    ELSE ev[CHOOSE x \in s : TRUE].filled
                                           + g[s \ {CHOOSE x \in s : TRUE}]]
<1>1. IsFiniteSet(S)
  BY FS_Subset
<1>2. \A x \in S : f[x] \in Nat
  OBVIOUS
<1>3. SolvesSum(units, f, S)
  BY <1>1, <1>2, UnitsSolve
<1>4. ASSUME NEW g
      PROVE  SolvesSum(g, f, S) <=> SolvesFills(g, ev, S)
  <2>1. \A s \in SUBSET S : s # {} => f[Pick(s)] = ev[Pick(s)].filled
    BY PickFacts
  <2>2. [s \in SUBSET S |-> IF s = {} THEN 0 ELSE f[Pick(s)] + g[s \ {Pick(s)}]]
          = [s \in SUBSET S |->
               IF s = {} THEN 0 ELSE ev[Pick(s)].filled + g[s \ {Pick(s)}]]
    BY <2>1
  <2> QED
    BY <2>2 DEF SolvesSum, SolvesFills
<1>5. SolvesFills(units, ev, S)
  BY <1>3, <1>4
<1>6. SolvesFills(sum, ev, S)
  BY <1>5, Zenon DEF SolvesFills, Pick
<1>7. sum[S] = units[S]
  BY <1>1, <1>3, <1>4, <1>6, SolutionsAgree
<1>8. FilledBy(ev, ids) = sum[S]
  BY DEF FilledBy, MapThenSumSet, MapThenFoldSet
<1>9. Units(f, S) = Units([x \in ids |-> ev[x].filled], ids)
  BY DEF Units
<1> QED
  BY <1>7, <1>8, <1>9 DEF Lots

\* The sum of the exits' fills is the number of lot steps they filled.
LEMMA FilledIsUnits ==
  ASSUME NEW ev, \A x \in ExitIds : ev[x].filled \in Nat
  PROVE  /\ ExitFilled(ev) = Cardinality(FillUnits(ev))
         /\ IsFiniteSet(FillUnits(ev))
         /\ Cardinality(FillUnits(ev)) \in Nat
<1> DEFINE f == [x \in ExitIds |-> ev[x].filled]
<1>1. ExitFilled(ev) = Lots(f, ExitIds)
  BY ExitsFinite, FilledByIsLots DEF ExitFilled
<1>2. IsFiniteSet(Units(f, ExitIds)) /\ Lots(f, ExitIds) \in Nat
  BY ExitsFinite, LotsType
<1>3. Units(f, ExitIds) = FillUnits(ev)
  BY DEF Units, FillUnits
<1> QED
  BY <1>1, <1>2, <1>3 DEF Lots

\* What no exit filled more of, does not add up to more.
LEMMA FilledGrowsSum ==
  ASSUME NEW ev, NEW later,
         \A x \in ExitIds : /\ ev[x].filled \in Nat /\ later[x].filled \in Nat
                            /\ ev[x].filled <= later[x].filled
  PROVE  ExitFilled(ev) \in Nat /\ ExitFilled(later) \in Nat
         /\ ExitFilled(ev) <= ExitFilled(later)
<1>1. FillUnits(ev) \subseteq FillUnits(later)
  BY DEF FillUnits
<1>2. /\ ExitFilled(ev) = Cardinality(FillUnits(ev))
      /\ Cardinality(FillUnits(ev)) \in Nat
  BY FilledIsUnits
<1>3. /\ ExitFilled(later) = Cardinality(FillUnits(later))
      /\ IsFiniteSet(FillUnits(later)) /\ Cardinality(FillUnits(later)) \in Nat
  BY FilledIsUnits
<1>4. Cardinality(FillUnits(ev)) <= Cardinality(FillUnits(later))
  BY <1>1, <1>3, FS_Subset
<1> QED
  BY <1>2, <1>3, <1>4

\* One more lot step of one exit adds one.
LEMMA FilledOneMore ==
  ASSUME NEW ev, NEW later, NEW x \in ExitIds,
         \A y \in ExitIds : ev[y].filled \in Nat,
         \A y \in ExitIds \ {x} : later[y].filled = ev[y].filled,
         later[x].filled = ev[x].filled + 1
  PROVE  ExitFilled(ev) \in Nat /\ ExitFilled(later) = ExitFilled(ev) + 1
<1> DEFINE u == <<x, ev[x].filled + 1>>
<1>1. FillUnits(later) = FillUnits(ev) \cup {u}
  BY DEF FillUnits
<1>2. u \notin FillUnits(ev)
  BY DEF FillUnits
<1>3. /\ ExitFilled(ev) = Cardinality(FillUnits(ev))
      /\ IsFiniteSet(FillUnits(ev)) /\ Cardinality(FillUnits(ev)) \in Nat
  BY FilledIsUnits
<1>4. ExitFilled(later) = Cardinality(FillUnits(later))
  BY FilledIsUnits
<1>5. Cardinality(FillUnits(ev) \cup {u}) = Cardinality(FillUnits(ev)) + 1
  <2> HIDE DEF u
  <2> QED
    BY <1>2, <1>3, FS_AddElement
<1> QED
  BY <1>1, <1>3, <1>4, <1>5

\* Nothing outstanding adds up to nothing.
LEMMA NothingOutstanding == ASSUME NEW ev PROVE OutstandingOf(ev, {}) = 0
<1> DEFINE sum == CHOOSE g : g = [s \in SUBSET {} |->
                                    IF s = {} THEN 0
                                    ELSE Outstanding(ev, CHOOSE x \in s : TRUE)
                                           + g[s \ {CHOOSE x \in s : TRUE}]]
           none == [s \in SUBSET {} |-> 0]
<1>1. none = [s \in SUBSET {} |-> IF s = {} THEN 0
                                  ELSE Outstanding(ev, CHOOSE x \in s : TRUE)
                                         + none[s \ {CHOOSE x \in s : TRUE}]]
  OBVIOUS
<1>2. sum = [s \in SUBSET {} |-> IF s = {} THEN 0
                                 ELSE Outstanding(ev, CHOOSE x \in s : TRUE)
                                        + sum[s \ {CHOOSE x \in s : TRUE}]]
  BY <1>1, Zenon
<1>3. sum[{}] = 0
  BY <1>2
<1>4. OutstandingOf(ev, {}) = sum[{}]
  BY DEF OutstandingOf, MapThenSumSet, MapThenFoldSet
<1> QED
  BY <1>3, <1>4

--------------------------------------------------------------------------------
(* What the wire, the book, the journals and the history know of each      *)
(* other.                                                                  *)

\* The intention is on record before its request travels.
WireSent == \A m \in wire : Command(m) \in sent

\* An order whose request still travels is unknown to the exchange.
WireNew == \A m \in wire : m.op = "PLACE" => book[m.id].status = "none"

\* One request travels for one command.
WireOnce == \A m, n \in wire : Command(m) = Command(n) => m = n

\* The exchange has the orders of this process only.
BookSent == \A id \in Ids : book[id].status # "none" => <<"PLACE", id>> \in sent

\* What the entry bought was sold by an exit or is held.
Accounting == position + ExitFilled(book) = book[EntryId].filled

Agreement == WireSent /\ WireNew /\ WireOnce /\ BookSent /\ Accounting

\* The book's fills are numbers.
LEMMA BookFills ==
  ASSUME Inv
  PROVE  /\ \A id \in Ids : book[id] \in Records /\ book[id].filled \in Nat
         /\ position \in Nat
BY InvParts DEF Records, Quantities

\* A sum over a book whose fills did not change is the same.
LEMMA SameSum ==
  ASSUME Inv, \A x \in ExitIds : book'[x].filled = book[x].filled
  PROVE  ExitFilled(book)' = ExitFilled(book)
<1>1. \A x \in ExitIds : book[x].filled \in Nat
  BY BookFills, IdFacts
<1>2. ExitFilled(book) <= ExitFilled(book') /\ ExitFilled(book') <= ExitFilled(book)
  BY <1>1, FilledGrowsSum
<1>3. ExitFilled(book) \in Nat /\ ExitFilled(book') \in Nat
  BY <1>1, FilledGrowsSum
<1>4. ExitFilled(book)' = ExitFilled(book')
  OBVIOUS
<1> QED
  BY <1>2, <1>3, <1>4

\* The write-ahead rule keeps the agreement.
LEMMA SendAgrees ==
  ASSUME Inv, Agreement, NEW a \in Actions, Send(a), UNCHANGED <<book, position>>
  PROVE  Agreement'
<1>1. /\ wire \subseteq Actions /\ Command(a) \notin sent
      /\ wire' = wire \cup {a} /\ sent' = sent \cup {Command(a)}
  BY InvParts DEF Send, Inv, SentIsRecorded
<1>2. \A m \in wire : Command(m) # Command(a)
  BY <1>1 DEF Agreement, WireSent
<1>3. a.op = "PLACE" => book[a.id].status = "none"
  BY <1>1, CommandFacts DEF Agreement, BookSent, Command
<1>4. WireSent' /\ WireNew' /\ WireOnce' /\ BookSent'
  BY <1>1, <1>2, <1>3 DEF Agreement, WireSent, WireNew, WireOnce, BookSent, Command
<1>5. Accounting'
  BY DEF Agreement, Accounting
<1> QED
  BY <1>4, <1>5 DEF Agreement

\* A request that arrives, is refused or is lost keeps the agreement.
LEMMA RequestAgrees ==
  ASSUME Inv, Agreement, NEW m \in wire, wire' = wire \ {m},
         book' = book \/ (~Refused(m) /\ book' = Executed(m)),
         UNCHANGED <<position, sent>>
  PROVE  /\ Agreement'
         /\ \A id \in Ids : book[id].status # "none" => book'[id].status # "none"
         /\ \A id \in Ids \ {m.id} : book'[id] = book[id]
<1>1. /\ m \in Actions /\ wire \subseteq Actions /\ m.id \in Ids
      /\ m.op \in {"PLACE", "CANCEL"} /\ book \in [Ids -> Records]
  BY InvParts, CommandFacts
<1>2. /\ \A id \in Ids : book'[id].filled = book[id].filled
      /\ \A id \in Ids : book[id].status # "none" => book'[id].status # "none"
      /\ \A id \in Ids \ {m.id} : book'[id] = book[id]
      /\ book'[m.id].status # "none" =>
           book[m.id].status # "none" \/ m.op = "PLACE"
      /\ m.op = "CANCEL" /\ book[m.id].status = "none" => book'[m.id].status = "none"
  <2>1. CASE book' = book
    BY <2>1
  <2>2. CASE m.op = "PLACE" /\ ~Refused(m) /\ book' = Executed(m)
    <3>1. book[m.id].status = "none" /\ book[m.id].filled = 0
      BY <1>1, <2>2 DEF Refused, Inv, NoFillsBeforeOrder
    <3>2. book' = [book EXCEPT ![m.id] = Opened(m)]
      BY <2>2 DEF Executed
    <3>3. Opened(m).filled = 0 /\ Opened(m).status # "none"
      BY DEF Opened
    <3> QED
      BY <1>1, <2>2, <3>1, <3>2, <3>3
  <2>3. CASE m.op = "CANCEL" /\ ~Refused(m) /\ book' = Executed(m)
    <3>1. book[m.id].status # "none"
      BY <2>3 DEF Refused, Cancelable
    <3>2. book' = [book EXCEPT ![m.id].status = "CANCELED"]
      BY <2>3 DEF Executed
    <3> QED
      BY <1>1, <2>3, <3>1, <3>2 DEF Records
  <2> QED
    BY <1>1, <2>1, <2>2, <2>3
<1>3. WireSent' /\ WireOnce'
  BY DEF Agreement, WireSent, WireOnce, Command
<1>4. WireNew'
  <2> SUFFICES ASSUME NEW n \in wire, n # m, n.op = "PLACE"
               PROVE  book'[n.id].status = "none"
    BY DEF WireNew
  <2>1. n.id \in Ids /\ book[n.id].status = "none"
    BY <1>1, CommandFacts DEF Agreement, WireNew
  <2>2. CASE n.id # m.id
    BY <1>2, <2>1, <2>2
  <2>3. CASE n.id = m.id
    <3>1. m.op = "CANCEL"
      BY <1>1, <2>3 DEF Agreement, WireOnce, Command
    <3> QED
      BY <1>2, <2>1, <2>3, <3>1
  <2> QED
    BY <2>2, <2>3
<1>5. BookSent'
  <2> SUFFICES ASSUME NEW id \in Ids, book'[id].status # "none"
               PROVE  <<"PLACE", id>> \in sent
    BY DEF BookSent
  <2>1. CASE book[id].status # "none"
    BY <2>1 DEF Agreement, BookSent
  <2>2. CASE book[id].status = "none"
    <3>1. id = m.id /\ m.op = "PLACE"
      BY <1>2, <2>2
    <3> QED
      BY <3>1 DEF Agreement, WireSent, Command
  <2> QED
    BY <2>1, <2>2
<1>6. Accounting'
  <2>1. ExitFilled(book)' = ExitFilled(book)
    BY <1>2, SameSum, IdFacts
  <2> QED
    BY <1>2, <2>1, IdFacts DEF Agreement, Accounting
<1> QED
  BY <1>2, <1>3, <1>4, <1>5, <1>6 DEF Agreement

\* What the exchange does by itself keeps the agreement; it buys one lot step
\* with a live entry, sells one, or moves nothing, and it opens no order.
LEMMA MarketAgrees ==
  ASSUME Inv, Agreement, Market, UNCHANGED sent
  PROVE  /\ Agreement'
         /\ \A id \in Ids : book'[id].status # "none" <=> book[id].status # "none"
         /\ book'[EntryId].status = "NEW" => book[EntryId].status = "NEW"
         /\ \/ /\ book[EntryId].status = "NEW"
               /\ position < PlanQuantity
               /\ position' = position + 1
            \/ /\ position > 0
               /\ position' = position - 1
               /\ book'[EntryId] = book[EntryId]
            \/ position' = position
<1>1. /\ book \in [Ids -> Records] /\ position \in Nat /\ PlanQuantity \in Nat
      /\ \A id \in Ids : book[id].filled \in Nat
  BY InvParts, BookFills, IdFacts
<1> DEFINE
      SameOrders == \A id \in Ids : book'[id].status # "none" <=> book[id].status # "none"
<1>2. ASSUME wire' = wire, SameOrders, Accounting'
      PROVE  Agreement'
  <2>1. \A m \in wire : m.id \in Ids
    BY InvParts, CommandFacts
  <2> QED
    BY <1>2, <2>1 DEF Agreement, WireSent, WireNew, WireOnce, BookSent, Command
<1>3. CASE EntryFills
  <2>1. /\ book' = [book EXCEPT ![EntryId] = Filled(EntryId)] /\ wire' = wire
        /\ position' = position + 1 /\ book[EntryId].status = "NEW"
        /\ book[EntryId].filled < book[EntryId].quantity
    BY <1>3 DEF EntryFills
  <2>2. /\ book'[EntryId].filled = book[EntryId].filled + 1
        /\ book'[EntryId].status # "none"
        /\ \A id \in Ids \ {EntryId} : book'[id] = book[id]
    BY <1>1, <2>1, IdFacts DEF Filled
  <2>3. SameOrders
    BY <2>1, <2>2
  <2>4. ExitFilled(book)' = ExitFilled(book)
    BY <2>2, SameSum, IdFacts
  <2>5. Accounting'
    <3>1. ExitFilled(book) \in Nat
      BY <1>1, FilledGrowsSum, IdFacts
    <3> QED
      BY <1>1, <2>1, <2>2, <2>4, <3>1, IdFacts DEF Agreement, Accounting
  <2>6. position < PlanQuantity
    <3>1. position <= book[EntryId].filled /\ book[EntryId] \in Records
      BY BookFills, IdFacts DEF Inv, Bought
    <3>2. book[EntryId].quantity <= PlanQuantity
      BY <1>1, <3>1 DEF Records, Quantities
    <3> QED
      BY <1>1, <2>1, <3>1, <3>2, IdFacts DEF Records, Quantities
  <2> QED
    BY <1>2, <2>1, <2>3, <2>5, <2>6
<1>4. ASSUME NEW x \in ExitIds, ExitFills(x)
      PROVE  /\ wire' = wire /\ SameOrders /\ Accounting'
             /\ position > 0 /\ position' = position - 1
             /\ book'[EntryId] = book[EntryId]
  <2>1. /\ book' = [book EXCEPT ![x] = Filled(x)] /\ wire' = wire
        /\ position' = position - 1 /\ position > 0 /\ book[x].status = "NEW"
    BY <1>4 DEF ExitFills
  <2>2. /\ book'[x].filled = book[x].filled + 1
        /\ book'[x].status # "none"
        /\ \A id \in Ids \ {x} : book'[id] = book[id]
    BY <1>1, <2>1, IdFacts DEF Filled
  <2>3. SameOrders /\ book'[EntryId] = book[EntryId]
    BY <2>1, <2>2, IdFacts
  <2>4. ExitFilled(book) \in Nat /\ ExitFilled(book') = ExitFilled(book) + 1
    BY <1>1, <2>2, FilledOneMore, IdFacts
  <2>5. Accounting'
    BY <1>1, <2>1, <2>3, <2>4, IdFacts DEF Agreement, Accounting
  <2> QED
    BY <2>1, <2>3, <2>5
<1>5. ASSUME NEW id \in Ids, NEW status, status \notin {"none", "NEW"} \/ id # EntryId,
             status # "none", book[id].status # "none",
             book' = [book EXCEPT ![id].status = status],
             UNCHANGED <<wire, position>>
      PROVE  /\ wire' = wire /\ SameOrders /\ Accounting' /\ position' = position
             /\ book'[EntryId].status = "NEW" => book[EntryId].status = "NEW"
  <2>1. /\ \A other \in Ids : book'[other].filled = book[other].filled
        /\ book'[id].status = status
        /\ \A other \in Ids \ {id} : book'[other] = book[other]
    BY <1>1, <1>5 DEF Records
  <2>2. ExitFilled(book)' = ExitFilled(book)
    BY <2>1, SameSum, IdFacts
  <2>3. Accounting'
    BY <1>5, <2>1, <2>2, IdFacts DEF Agreement, Accounting
  <2> QED
    BY <1>5, <2>1, <2>3, IdFacts
<1>6. ASSUME NEW x \in ExitIds, ExcessExpires(x)
      PROVE  /\ wire' = wire /\ SameOrders /\ Accounting' /\ position' = position
             /\ book'[EntryId].status = "NEW" => book[EntryId].status = "NEW"
  BY <1>5, <1>6, IdFacts DEF ExcessExpires
<1>7. ASSUME NEW s \in StopIds, StopTriggers(s) \/ ChildAppears(s)
      PROVE  /\ wire' = wire /\ SameOrders /\ Accounting' /\ position' = position
             /\ book'[EntryId].status = "NEW" => book[EntryId].status = "NEW"
  <2>1. s \in Ids /\ s # EntryId
    BY IdFacts DEF ExitIds
  <2> QED
    BY <1>5, <1>7, <2>1 DEF StopTriggers, ChildAppears
<1>8. ASSUME NEW id \in Ids, EndsByItself(id)
      PROVE  /\ wire' = wire /\ SameOrders /\ Accounting' /\ position' = position
             /\ book'[EntryId].status = "NEW" => book[EntryId].status = "NEW"
  BY <1>5, <1>8 DEF EndsByItself, Active
<1>9. CASE \E x \in ExitIds : ExitFills(x)
  BY <1>2, <1>4, <1>9
<1>10. CASE \/ \E x \in ExitIds : ExcessExpires(x)
            \/ \E s \in StopIds : StopTriggers(s) \/ ChildAppears(s)
            \/ \E id \in Ids : EndsByItself(id)
  BY <1>2, <1>6, <1>7, <1>8, <1>10
<1> QED
  BY <1>3, <1>9, <1>10 DEF Market

--------------------------------------------------------------------------------
(* The abstract state.                                                     *)

Armed == book[PrearmId].status # "none"

Entry == IF EntryCanFill THEN "live" ELSE IF Recorded(EntryPlace) THEN "over" ELSE "unsent"

AbstractStep == [Owned!Next]_(Owned!vars)

\* An entry that is not on record was never sent, nor bought anything.
LEMMA UnsentEntry ==
  ASSUME Inv, Agreement, ~Recorded(EntryPlace)
  PROVE  ~EntryCanFill /\ position = 0
<1>1. EntryPlace \notin sent
  BY DEF Inv, SentIsRecorded
<1>2. book[EntryId].status = "none"
  BY <1>1, IdFacts DEF Agreement, BookSent, EntryPlace
<1>3. ~OnWire("PLACE", EntryId)
  BY <1>1 DEF Agreement, WireSent, OnWire, Command, EntryPlace
<1>4. position = 0
  BY <1>2, BookFills, IdFacts DEF Inv, NoFillsBeforeOrder, Bought
<1> QED
  BY <1>2, <1>3, <1>4 DEF EntryCanFill

\* While its request travels, the exchange does not know the entry.
LEMMA TravellingEntry ==
  ASSUME Agreement, OnWire("PLACE", EntryId)
  PROVE  book[EntryId].status = "none"
BY DEF Agreement, WireNew, OnWire

\* The state of the owned trade, by its four parts.
LEMMA AbstractStutter ==
  ASSUME trade' = trade, Armed' = Armed, Entry' = Entry, position' = position
  PROVE  AbstractStep
BY DEF AbstractStep, Owned!vars, Armed, Entry

--------------------------------------------------------------------------------
(* What the process may rely on at each place.                             *)

Begun == pc \in {"act", "await", "prearm", "confirm", "submit"} \/ sent # {}
           => trade # "none"

TodoRecorded == \A c \in todo : Recorded(c)

PlacesExits(b) ==
  \A a \in b.first \cup b.next : a.op = "PLACE" => a.id \in ExitIds \ {PrearmId}

ArmedBeforeEntry == pc = "submit" => Armed

Standing == Begun /\ TodoRecorded /\ PlacesExits(batch) /\ ArmedBeforeEntry

\* No step but Send puts a command on record.
RecordsKept == \A c \in Commands : Recorded(c)' <=> Recorded(c)

\* Cancellations place nothing.
LEMMA CancelsPlaceNothing ==
  ASSUME NEW ids, NEW a \in Cancels(ids) PROVE a.op = "CANCEL"
BY DEF Cancels

\* Placements on an exit place that exit.
LEMMA PlacementsPlaceExits ==
  ASSUME NEW id, NEW total, NEW already, NEW a \in Placements(id, total, already)
  PROVE  a.id = id
BY DEF Placements

\* The decision places stops, targets and closures, never an entry or its own stop.
LEMMA DecisionPlacesExits ==
  ASSUME NEW ev, NEW exited \in Quantities, NEW owned \in Quantities,
         ev[EntryId].filled \in Quantities,
         owned = ev[EntryId].filled - exited,
         NEW breach, NEW invalidated, NEW expired, NEW holdOver
  PROVE  PlacesExits(ProtectiveActions(ev, exited, owned, breach, invalidated, expired,
                                       holdOver))
<1>1. PlacesExits(NoActions)
  BY DEF PlacesExits, NoActions
<1>2. ASSUME NEW ids PROVE PlacesExits([NoActions EXCEPT !.first = Cancels(ids)])
  BY CancelsPlaceNothing DEF PlacesExits, NoActions
<1>3. \A a \in Cancellation(ev) : a.op = "CANCEL"
  BY CancelsPlaceNothing DEF Cancellation
<1>4. PlacesExits([NoActions EXCEPT !.first = Cancellation(ev)])
  BY <1>3 DEF PlacesExits, NoActions
<1>5. CASE owned = 0
  <2>1. [NoActions EXCEPT !.first = {}] = NoActions
    BY DEF NoActions
  <2>2. PlacesExits(WhenFlat(ev, breach \/ invalidated \/ expired))
    BY <1>1, <1>2, <2>1 DEF WhenFlat
  <2> QED
    BY <1>5, <2>2 DEF ProtectiveActions
<1>6. CASE owned # 0
  <2>1. exited < ev[EntryId].filled
    BY <1>6, PlanQuantityAssumption DEF Quantities
  <2>2. PlacesExits(Closure(ev, exited, owned))
    <3>1. <<"FLATTEN", ev[EntryId].filled, exited>> \in ExitIds \ {PrearmId}
      BY <2>1 DEF FlattenIds, ExitIds, PrearmId
    <3> QED
      BY <1>3, <3>1, PlacementsPlaceExits DEF PlacesExits, Closure
  <2>3. PlacesExits(Rearm(ev, owned))
    <3>1. <<"STOP", ev[EntryId].filled, 0>> \in ExitIds \ {PrearmId}
      BY <2>1, PlanQuantityAssumption DEF StopIds, ExitIds, PrearmId, Quantities
    <3> QED
      BY <1>3, <3>1, PlacementsPlaceExits DEF PlacesExits, Rearm
  <2>4. PlacesExits(Targets(ev, exited, owned))
    <3>1. ASSUME NEW role \in TargetRoles, NEW a \in PlaceTarget(ev, exited, owned, role)
          PROVE  a.id \in ExitIds \ {PrearmId}
      <4>1. a.id = <<role, ev[EntryId].filled, exited>>
        BY <3>1, PlacementsPlaceExits DEF PlaceTarget
      <4> QED
        BY <2>1, <4>1 DEF TargetIds, ExitIds, TargetRoles, PrearmId
    <3>2. "TP1" \in TargetRoles /\ (Staged => "TP2" \in TargetRoles)
      BY DEF TargetRoles
    <3>3. PlacesExits([first |-> PlaceTarget(ev, exited, owned, "TP1"),
                       next  |-> IF Staged THEN PlaceTarget(ev, exited, owned, "TP2")
                                           ELSE {}])
      BY <3>1, <3>2 DEF PlacesExits
    <3>4. ASSUME NEW role
          PROVE  PlacesExits([NoActions EXCEPT !.first = Cancels(LiveTargets(ev, role))])
      BY <1>2
    <3> QED
      BY <3>3, <3>4 DEF Targets
  <2>5. ASSUME NEW leave PROVE PlacesExits(WhenOwned(ev, exited, owned, breach, leave))
    BY <1>1, <1>4, <2>2, <2>3, <2>4 DEF WhenOwned
  <2> QED
    BY <1>6, <2>5 DEF ProtectiveActions
<1> QED
  BY <1>5, <1>6

\* Adopting an observation of a recorded command records no other one.
LEMMA AdoptRecords ==
  ASSUME Inv, NEW c \in Commands, Recorded(c), NEW observed, observed.status # "none",
         rec' = Adopt(c, observed)
  PROVE  RecordsKept
BY DEF RecordsKept, Recorded, Adopt

\* Neither does a doubt.
LEMMA DoubtRecords ==
  ASSUME Inv, NEW c \in Commands, Recorded(c), rec' = Doubt(c)
  PROVE  RecordsKept
<1>1. rec \in [Commands -> Records]
  BY InvParts
<1> QED
  BY <1>1 DEF RecordsKept, Recorded, Doubt, Records

\* The outcome of a step that is proved below, for every action.
Refines == Agreement' /\ Standing' /\ AbstractStep

\* A step that sends nothing, moves nothing at the exchange and leaves the trade.
LEMMA BystanderRefines ==
  ASSUME Agreement, RecordsKept, Standing',
         UNCHANGED <<book, wire, position, sent, trade>>
  PROVE  Refines
<1>1. Agreement'
  BY DEF Agreement, WireSent, WireNew, WireOnce, BookSent, Accounting
<1>2. Armed' = Armed /\ EntryCanFill' = EntryCanFill
  BY DEF Armed, EntryCanFill, OnWire
<1>3. Recorded(EntryPlace)' <=> Recorded(EntryPlace)
  BY IdFacts DEF RecordsKept, EntryPlace, Commands
<1>4. Entry' = Entry
  BY <1>2, <1>3 DEF Entry
<1> QED
  BY <1>1, <1>2, <1>4, AbstractStutter DEF Refines

\* Sending a protective command does not touch the owned trade.
LEMMA SendRefines ==
  ASSUME Inv, Agreement, Standing, NEW a \in Actions, Send(a), Command(a) # EntryPlace,
         trade # "none", PlacesExits(batch'),
         UNCHANGED <<book, position, trade, todo>>
  PROVE  Refines
<1>1. Agreement'
  BY SendAgrees
<1>2. rec \in [Commands -> Records] /\ Command(a) \in Commands /\ EntryPlace \in Commands
  BY InvParts, CommandFacts, IdFacts DEF EntryPlace, Commands
<1>3. /\ \A c \in Commands : Recorded(c) => Recorded(c)'
      /\ Recorded(EntryPlace)' <=> Recorded(EntryPlace)
  BY <1>2 DEF Send, Recorded
<1>4. pc' = "await" /\ wire' = wire \cup {a}
  BY DEF Send
<1>5. OnWire("PLACE", EntryId)' <=> OnWire("PLACE", EntryId)
  BY <1>4 DEF OnWire, Command, EntryPlace
<1>6. Entry' = Entry /\ Armed' = Armed
  BY <1>3, <1>5 DEF Entry, Armed, EntryCanFill
<1>7. Standing'
  BY <1>3, <1>4, InvParts DEF Standing, Begun, TodoRecorded, ArmedBeforeEntry, Control
<1> QED
  BY <1>1, <1>6, <1>7, AbstractStutter DEF Refines

\* An entry that can no longer fill is over; the rest of the trade is as before.
LEMMA EntryEndsRefines ==
  ASSUME Inv, Agreement, EntryCanFill' => EntryCanFill,
         Recorded(EntryPlace)' <=> Recorded(EntryPlace),
         Armed' = Armed, UNCHANGED <<position, trade>>
  PROVE  AbstractStep
<1>1. CASE EntryCanFill' = EntryCanFill
  <2>1. Entry' = Entry
    BY <1>1 DEF Entry
  <2> QED
    BY <2>1, AbstractStutter
<1>2. CASE EntryCanFill /\ ~EntryCanFill'
  <2>1. Recorded(EntryPlace)
    BY <1>2, UnsentEntry
  <2>2. Entry = "live" /\ Entry' = "over"
    BY <1>2, <2>1 DEF Entry
  <2>3. Owned!EntryEnds
    BY <2>2 DEF Owned!EntryEnds, Entry, Armed
  <2> QED
    BY <2>3 DEF AbstractStep, Owned!Next
<1> QED
  BY <1>1, <1>2 DEF EntryCanFill, OnWire

\* A request that leaves the wire arms the trade, ends its entry, or does nothing
\* to it.
LEMMA RequestRefines ==
  ASSUME Inv, Agreement, Standing', NEW m \in wire, wire' = wire \ {m},
         book' = book \/ (~Refused(m) /\ book' = Executed(m)),
         RecordsKept, trade # "none", UNCHANGED <<position, sent, trade>>
  PROVE  Refines
<1>1. /\ Agreement'
      /\ \A id \in Ids : book[id].status # "none" => book'[id].status # "none"
      /\ \A id \in Ids \ {m.id} : book'[id] = book[id]
  BY RequestAgrees
<1>2. /\ m \in Actions /\ m.id \in Ids /\ m.op \in {"PLACE", "CANCEL"}
      /\ book \in [Ids -> Records] /\ PrearmId \in Ids /\ PrearmId # EntryId
  BY InvParts, CommandFacts, IdFacts DEF ExitIds
<1>3. Recorded(EntryPlace)' <=> Recorded(EntryPlace)
  BY IdFacts DEF RecordsKept, EntryPlace, Commands
<1>4. CASE m.id # EntryId
  <2>1. book'[EntryId] = book[EntryId]
    BY <1>1, <1>4, IdFacts
  <2>2. OnWire("PLACE", EntryId)' <=> OnWire("PLACE", EntryId)
    BY <1>4 DEF OnWire
  <2>3. Entry' = Entry
    BY <1>3, <2>1, <2>2 DEF Entry, EntryCanFill
  <2>4. CASE Armed' = Armed
    BY <1>1, <2>3, <2>4, AbstractStutter DEF Refines
  <2>5. CASE Armed' # Armed
    <3>1. Armed' = TRUE /\ Armed = FALSE
      BY <1>1, <1>2, <2>5 DEF Armed
    <3>2. Owned!Arm
      BY <2>3, <3>1 DEF Owned!Arm, Armed, Entry
    <3> QED
      BY <1>1, <3>2 DEF Refines, AbstractStep, Owned!Next
  <2> QED
    BY <2>4, <2>5
<1>5. CASE m.id = EntryId
  <2>1. Armed' = Armed
    BY <1>1, <1>2, <1>5 DEF Armed
  <2>2. OnWire("PLACE", EntryId)' => OnWire("PLACE", EntryId)
    BY DEF OnWire
  <2>3. book'[EntryId].status = "NEW" => EntryCanFill
    <3>1. CASE book' = book
      BY <3>1 DEF EntryCanFill
    <3>2. CASE m.op = "PLACE"
      BY <1>5, <3>2 DEF EntryCanFill, OnWire
    <3>3. CASE m.op = "CANCEL" /\ book' = Executed(m)
      <4>1. book'[EntryId].status = "CANCELED"
        BY <1>2, <1>5, <3>3 DEF Executed, Records
      <4> QED
        BY <4>1
    <3> QED
      BY <1>2, <3>1, <3>2, <3>3
  <2>4. EntryCanFill' => EntryCanFill
    BY <2>2, <2>3 DEF EntryCanFill
  <2> QED
    BY <1>1, <1>3, <2>1, <2>4, EntryEndsRefines DEF Refines
<1> QED
  BY <1>4, <1>5

\* The market buys, sells, ends the entry, or does nothing to the trade.
LEMMA MarketRefines ==
  ASSUME Inv, Agreement, Standing, Market,
         UNCHANGED <<durable, volatile, flags, history, faults, crashes>>
  PROVE  Refines
<1>1. /\ Agreement'
      /\ \A id \in Ids : book'[id].status # "none" <=> book[id].status # "none"
      /\ book'[EntryId].status = "NEW" => book[EntryId].status = "NEW"
      /\ \/ /\ book[EntryId].status = "NEW"
            /\ position < PlanQuantity
            /\ position' = position + 1
         \/ /\ position > 0
            /\ position' = position - 1
            /\ book'[EntryId] = book[EntryId]
         \/ position' = position
  BY MarketAgrees DEF history
<1>2. wire' = wire
  BY MarketGrows, InvParts
<1>3. Armed' = Armed /\ trade' = trade
  BY <1>1, IdFacts DEF Armed, durable
<1>4. Recorded(EntryPlace)' <=> Recorded(EntryPlace)
  BY DEF Recorded, durable
<1>5. EntryCanFill' => EntryCanFill
  BY <1>1, <1>2 DEF EntryCanFill, OnWire
<1>6. Standing'
  BY <1>3 DEF Standing, Begun, TodoRecorded, PlacesExits, ArmedBeforeEntry, Recorded,
              durable, volatile, history
<1>7. CASE position' = position
  BY <1>1, <1>3, <1>4, <1>5, <1>6, <1>7, EntryEndsRefines DEF Refines
<1>8. CASE position > 0 /\ position' = position - 1 /\ book'[EntryId] = book[EntryId]
  <2>1. Entry' = Entry
    BY <1>2, <1>4, <1>8 DEF Entry, EntryCanFill, OnWire
  <2>2. Owned!Sell
    BY <1>3, <1>8, <2>1 DEF Owned!Sell, Armed, Entry
  <2> QED
    BY <1>1, <1>6, <2>2 DEF Refines, AbstractStep, Owned!Next
<1>9. CASE /\ book[EntryId].status = "NEW"
           /\ position < PlanQuantity
           /\ position' = position + 1
  <2>1. Entry = "live" /\ Recorded(EntryPlace)
    BY <1>9, UnsentEntry DEF Entry, EntryCanFill
  <2>2. Entry' \in {"live", "over"}
    BY <1>4, <2>1 DEF Entry
  <2>3. Owned!Buy
    BY <1>3, <1>9, <2>1, <2>2 DEF Owned!Buy, Armed, Entry
  <2> QED
    BY <1>1, <1>6, <2>3 DEF Refines, AbstractStep, Owned!Next
<1> QED
  BY <1>1, <1>7, <1>8, <1>9

--------------------------------------------------------------------------------
(* Every action refines.                                                   *)

\* Where a pass ends, nothing is relied on.
LEMMA GiveUpStanding ==
  ASSUME Standing, GiveUp, UNCHANGED <<trade, sent>> PROVE Standing'
BY DEF Standing, GiveUp, Rest, Begun, TodoRecorded, PlacesExits, ArmedBeforeEntry, NoActions

\* Records that nobody writes are kept.
LEMMA RecordsUntouched == UNCHANGED rec => RecordsKept
BY DEF RecordsKept, Recorded

\* A write-off is allowed: the entry is over and nothing is held.
LEMMA ClosedIsFlat ==
  ASSUME Inv, Agreement, Recorded(EntryPlace), ~EntryPending(Evidence),
         Evidence[EntryId].filled = ExitFilled(Evidence)
  PROVE  ~EntryCanFill /\ position = 0
<1>1. Evidence[EntryId] = rec[EntryPlace] /\ EntryPlace \in Commands /\ EntryPlace[2] = EntryId
  BY IdFacts DEF Evidence, EntryPlace, Commands
<1>2. rec[EntryPlace].status \in Terminal
  BY <1>1 DEF EntryPending
<1>3. rec[EntryPlace] = book[EntryId]
  BY <1>1, <1>2 DEF Inv, EvidenceIsConservative
<1>4. ~EntryCanFill
  BY <1>2, <1>3, TravellingEntry DEF EntryCanFill, Terminal
<1>5. \A x \in ExitIds : /\ Evidence[x].filled \in Nat /\ book[x].filled \in Nat
                         /\ Evidence[x].filled <= book[x].filled
  <2> TAKE x \in ExitIds
  <2>1. x \in Ids /\ <<"PLACE", x>> \in Commands /\ Evidence[x] = rec[<<"PLACE", x>>]
    BY IdFacts DEF Evidence, Commands
  <2>2. rec[<<"PLACE", x>>] \in Records /\ book[x] \in Records
    BY <2>1, InvParts
  <2>3. rec[<<"PLACE", x>>].filled <= book[x].filled
    <3>1. CASE Recorded(<<"PLACE", x>>)
      BY <2>1, <3>1 DEF Inv, EvidenceIsConservative
    <3>2. CASE ~Recorded(<<"PLACE", x>>)
      BY <2>1, <2>2, <3>2 DEF Inv, UnrecordedIsEmpty, Records, Quantities
    <3> QED
      BY <3>1, <3>2
  <2> QED
    BY <2>1, <2>2, <2>3 DEF Records, Quantities
<1>6. /\ ExitFilled(Evidence) \in Nat /\ ExitFilled(book) \in Nat
      /\ ExitFilled(Evidence) <= ExitFilled(book)
  BY <1>5, FilledGrowsSum
<1>7. position = 0
  BY <1>1, <1>3, <1>6, BookFills DEF Agreement, Accounting
<1> QED
  BY <1>4, <1>7

\* Writing off what is flat is a step of the owned trade.
LEMMA CloseRefines ==
  ASSUME Agreement, Standing', RecordsKept, trade = "open", trade' = "closed",
         ~EntryCanFill, position = 0, UNCHANGED <<book, wire, position, sent>>
  PROVE  Refines
<1>1. Agreement'
  BY DEF Agreement, WireSent, WireNew, WireOnce, BookSent, Accounting
<1>2. Recorded(EntryPlace)' <=> Recorded(EntryPlace)
  BY IdFacts DEF RecordsKept, EntryPlace, Commands
<1>3. Armed' = Armed /\ Entry' = Entry /\ Entry # "live"
  BY <1>2 DEF Armed, Entry, EntryCanFill, OnWire
<1>4. Owned!Close
  BY <1>3 DEF Owned!Close, Armed, Entry
<1> QED
  BY <1>1, <1>4 DEF Refines, AbstractStep, Owned!Next

\* The protective cycle: snapshot, reconciliation and decision.
LEMMA DecisionRefines ==
  ASSUME Inv, Agreement, Standing
  PROVE  /\ RefreshAccount => Refines
         /\ ReuseSnapshot => Refines
         /\ SnapshotTooOld => Refines
         /\ Reconcile => Refines
         /\ NothingOwned => Refines
         /\ PreparedOnly => Refines
         /\ Protect => Refines
         /\ Unreconciled => Refines
<1>1. ASSUME RefreshAccount \/ ReuseSnapshot PROVE Refines
  <2>1. /\ UNCHANGED <<book, wire, position, trade, rec, batch, sent>>
        /\ pc' = "reconcile" /\ todo' = Unfinished
    BY <1>1 DEF RefreshAccount, ReuseSnapshot, StartCycle, history
  <2>2. Standing'
    BY <2>1
    DEF Standing, Begun, TodoRecorded, PlacesExits, ArmedBeforeEntry, Unfinished, Recorded
  <2> QED
    BY <2>1, <2>2, RecordsUntouched, BystanderRefines
<1>2. ASSUME SnapshotTooOld \/ Unreconciled PROVE Refines
  <2>1. UNCHANGED <<book, wire, position, trade, rec, sent>> /\ GiveUp
    BY <1>2 DEF SnapshotTooOld, Unreconciled, durable, history
  <2>2. Standing'
    BY <2>1, GiveUpStanding
  <2> QED
    BY <2>1, <2>2, RecordsUntouched, BystanderRefines
<1>3. ASSUME Reconcile PROVE Refines
  <2>1. PICK c \in todo : QueryAnswered(c) \/ QueryFails(c) \/ QuerySkipped(c)
    BY <1>3 DEF Reconcile
  <2>2. c \in Commands /\ Recorded(c)
    BY InvParts DEF Control, Standing, TodoRecorded
  <2>3. /\ UNCHANGED <<book, wire, position, trade, batch, sent, pc>>
        /\ todo' = todo \ {c} /\ pc = "reconcile"
    BY <2>1 DEF QueryAnswered, QueryFails, QuerySkipped, NextQuery, durable, history
  <2>4. RecordsKept
    <3>1. CASE QueryAnswered(c)
      BY <2>2, <3>1, AdoptRecords DEF QueryAnswered, Answerable
    <3>2. CASE QueryFails(c)
      BY <2>2, <3>2, DoubtRecords DEF QueryFails
    <3>3. CASE QuerySkipped(c)
      BY <3>3, RecordsUntouched DEF QuerySkipped, durable
    <3> QED
      BY <2>1, <3>1, <3>2, <3>3
  <2>5. Standing'
    BY <2>3, <2>4, InvParts
    DEF Standing, Begun, TodoRecorded, PlacesExits, ArmedBeforeEntry, RecordsKept, Control
  <2> QED
    BY <2>3, <2>4, <2>5, BystanderRefines
<1>4. ASSUME NothingOwned PROVE Refines
  <2>1. /\ UNCHANGED <<book, wire, position, trade, rec, sent, todo, batch>>
        /\ pc' \in {"idle", "settled"}
    BY <1>4 DEF NothingOwned, Continue, durable, history
  <2>2. Standing'
    BY <2>1 DEF Standing, Begun, TodoRecorded, PlacesExits, ArmedBeforeEntry, Recorded
  <2> QED
    BY <2>1, <2>2, RecordsUntouched, BystanderRefines
<1>5. ASSUME UNCHANGED <<book, wire, position, rec, sent, todo>>,
             trade = "open", trade' \in {"open", "closed"}, pc' = "act",
             PlacesExits(batch'),
             trade' = "closed" => ~EntryCanFill /\ position = 0
      PROVE  Refines
  <2>1. Standing'
    BY <1>5 DEF Standing, Begun, TodoRecorded, ArmedBeforeEntry, Recorded
  <2>2. CASE trade' = "open"
    BY <1>5, <2>1, <2>2, RecordsUntouched, BystanderRefines
  <2>3. CASE trade' = "closed"
    BY <1>5, <2>1, <2>3, RecordsUntouched, CloseRefines
  <2> QED
    BY <1>5, <2>2, <2>3
<1>6. ASSUME PreparedOnly PROVE Refines
  <2>1. /\ UNCHANGED <<book, wire, position, rec, sent, todo>>
        /\ trade = "open" /\ trade' \in {"open", "closed"} /\ pc' = "act"
        /\ ~Recorded(EntryPlace)
    BY <1>6 DEF PreparedOnly, history
  <2>2. PlacesExits(batch')
    BY <1>6, CancelsPlaceNothing DEF PreparedOnly, PlacesExits, NoActions
  <2> QED
    BY <1>5, <2>1, <2>2, UnsentEntry
<1>7. ASSUME Protect PROVE Refines
  <2>1. /\ UNCHANGED <<book, wire, position, rec, sent, todo>>
        /\ trade = "open" /\ pc' = "act" /\ Recorded(EntryPlace)
    BY <1>7 DEF Protect, history
  <2>2. PICK exited \in Quantities, closedBelow \in BOOLEAN :
          LET owned   == Evidence[EntryId].filled - exited
              invalid == Staged /\ snap.position # 0 /\ (latched \/ closedBelow)
              chosen  == ProtectiveActions(Evidence, exited, owned, snap.daily \/ risk,
                           invalid, "expired" \in flags, "holdOver" \in flags)
          IN  /\ exited = ExitFilled(Evidence)
              /\ snap.position = owned
              /\ batch' = chosen
              /\ trade' = IF ~EntryPending(Evidence) /\ owned = 0 /\ chosen = NoActions
                            THEN "closed" ELSE "open"
    BY <1>7 DEF Protect
  <2>3. snap.position \in Quantities
    BY InvParts DEF Control
  <2>4. Evidence[EntryId].filled \in Quantities
    <3>1. <<"PLACE", EntryId>> \in Commands /\ Evidence[EntryId] = rec[<<"PLACE", EntryId>>]
      BY IdFacts DEF Commands, Evidence
    <3> QED
      BY <3>1, InvParts DEF Records
  <2>5. PlacesExits(batch')
    BY <2>2, <2>3, <2>4, DecisionPlacesExits
  <2>6. trade' \in {"open", "closed"}
    BY <2>2
  <2>7. trade' = "closed" => ~EntryCanFill /\ position = 0
    <3> SUFFICES ASSUME trade' = "closed" PROVE ~EntryCanFill /\ position = 0
      OBVIOUS
    <3>1. ~EntryPending(Evidence) /\ Evidence[EntryId].filled - exited = 0
      BY <2>2
    <3>2. Evidence[EntryId].filled = ExitFilled(Evidence)
      BY <2>2, <2>4, <3>1 DEF Quantities
    <3> QED
      BY <2>1, <3>1, <3>2, ClosedIsFlat
  <2> QED
    BY <1>5, <2>1, <2>5, <2>6, <2>7
<1> QED
  BY <1>1, <1>2, <1>3, <1>4, <1>6, <1>7

\* Executing the batch, and the fate of the awaited request.
LEMMA ExecutionRefines ==
  ASSUME Inv, Agreement, Standing
  PROVE  /\ \A a \in Ready : ExecuteAction(a) => Refines
         /\ \A a \in Ready : ReuseRecord(a) => Refines
         /\ ActionsDone => Refines
         /\ Respond => Refines
         /\ RespondError => Refines
         /\ Timeout => Refines
         /\ EndCycle => Refines
<1>1. \A a \in Ready : PlacesExits(Without(a))
  BY DEF Standing, PlacesExits, Without
<1>2. ASSUME NEW a \in Ready, ExecuteAction(a) PROVE Refines
  <2>1. a \in Actions /\ (a.op = "PLACE" => a.id \in ExitIds \ {PrearmId})
    BY ReadyType, InvParts DEF Ready, Standing, PlacesExits
  <2>2. Command(a) # EntryPlace
    BY <2>1, IdFacts DEF Command, EntryPlace
  <2>3. trade # "none"
    BY <1>2 DEF ExecuteAction, Standing, Begun
  <2>4. PlacesExits(batch')
    BY <1>1, <1>2 DEF ExecuteAction
  <2> QED
    BY <1>2, <2>1, <2>2, <2>3, <2>4, SendRefines DEF ExecuteAction
<1>3. ASSUME NEW a \in Ready, ReuseRecord(a) PROVE Refines
  <2>1. UNCHANGED <<book, wire, position, trade, rec, sent>>
    BY <1>3 DEF ReuseRecord, durable, history
  <2>2. CASE Collides(a)
    BY <1>3, <2>1, <2>2, GiveUpStanding, RecordsUntouched, BystanderRefines DEF ReuseRecord
  <2>3. CASE ~Collides(a)
    <3>1. PlacesExits(batch') /\ UNCHANGED <<pc, todo>>
      BY <1>1, <1>3, <2>3 DEF ReuseRecord
    <3>2. Standing'
      BY <2>1, <3>1 DEF Standing, Begun, TodoRecorded, ArmedBeforeEntry, Armed, Recorded
    <3> QED
      BY <2>1, <3>2, RecordsUntouched, BystanderRefines
  <2> QED
    BY <2>2, <2>3
<1>4. ASSUME ActionsDone PROVE Refines
  <2>1. /\ UNCHANGED <<book, wire, position, trade, rec, sent, todo, batch>>
        /\ pc' \in {"idle", "settled"}
    BY <1>4 DEF ActionsDone, Continue, durable, history
  <2>2. Standing'
    BY <2>1 DEF Standing, Begun, TodoRecorded, PlacesExits, ArmedBeforeEntry, Recorded
  <2> QED
    BY <2>1, <2>2, RecordsUntouched, BystanderRefines
<1>5. /\ current \in Actions /\ Command(current) \in Commands
      /\ Command(current)[2] = current.id /\ current.id \in Ids
  BY InvParts, CommandFacts DEF Control
<1>6. ASSUME pc = "await" PROVE Recorded(Command(current)) /\ trade # "none"
  BY <1>6 DEF Inv, AwaitedIsSubmitting, Recorded, Standing, Begun
<1>7. ASSUME Respond PROVE Refines
  <2>1. /\ current \in wire /\ wire' = wire \ {current} /\ pc = "await"
        /\ ~Refused(current) /\ book' = Executed(current)
        /\ rec' = Adopt(Command(current), book'[current.id])
        /\ Resume /\ UNCHANGED <<position, trade, sent>>
    BY <1>7 DEF Respond, history
  <2>2. book'[current.id].status # "none"
    BY <1>5, <2>1, InvParts, ExecutedGrows
  <2>3. RecordsKept
    BY <1>5, <1>6, <2>1, <2>2, AdoptRecords
  <2>4. Standing'
    <3>1. CASE GiveUp
      BY <2>1, <3>1, GiveUpStanding
    <3>2. CASE ~GiveUp
      <4>1. pc' \in {"confirm", "act"} /\ UNCHANGED <<todo, batch>>
        BY <2>1, <3>2 DEF Resume
      <4> QED
        BY <1>6, <2>1, <2>3, <4>1, InvParts
        DEF Standing, Begun, TodoRecorded, PlacesExits, ArmedBeforeEntry, RecordsKept, Control
    <3> QED
      BY <3>1, <3>2
  <2> QED
    BY <1>6, <2>1, <2>3, <2>4, RequestRefines
<1>8. ASSUME RespondError PROVE Refines
  <2>1. /\ current \in wire /\ wire' = wire \ {current} /\ pc = "await"
        /\ rec' = Doubt(Command(current)) /\ GiveUp
        /\ UNCHANGED <<book, position, trade, sent>>
    BY <1>8 DEF RespondError, history
  <2>2. RecordsKept
    BY <1>5, <1>6, <2>1, DoubtRecords
  <2>3. Standing'
    BY <2>1, GiveUpStanding
  <2> QED
    BY <1>6, <2>1, <2>2, <2>3, RequestRefines
<1>9. ASSUME Timeout PROVE Refines
  <2>1. /\ pc = "await" /\ rec' = Doubt(Command(current)) /\ GiveUp
        /\ UNCHANGED <<book, wire, position, trade, sent>>
    BY <1>9 DEF Timeout, history
  <2>2. RecordsKept
    BY <1>5, <1>6, <2>1, DoubtRecords
  <2> QED
    BY <2>1, <2>2, GiveUpStanding, BystanderRefines
<1>10. ASSUME EndCycle PROVE Refines
  <2>1. UNCHANGED <<book, wire, position, trade, rec, sent>> /\ GiveUp
    BY <1>10 DEF EndCycle, durable, history
  <2> QED
    BY <2>1, GiveUpStanding, RecordsUntouched, BystanderRefines
<1> QED
  BY <1>2, <1>3, <1>4, <1>7, <1>8, <1>9, <1>10

\* get_conditional_order showed the stop of the whole plan.
LEMMA ConfirmedIsArmed == Inv /\ ConfirmProtection => Armed
<1> SUFFICES ASSUME Inv, ConfirmProtection, ~Armed PROVE FALSE
  OBVIOUS
<1> DEFINE ev == [id \in Ids |-> IF id = PrearmId THEN book[id] ELSE NoRecord]
<1>1. LiveStops(ev) = {}
  BY IdFacts DEF LiveStops, Armed, NoRecord
<1>2. StopCoverage(ev) = 0
  BY <1>1, NothingOutstanding DEF StopCoverage
<1>3. EntryIsProtected(ev)
  BY DEF ConfirmProtection
<1> QED
  BY <1>2, <1>3, PlanQuantityAssumption DEF EntryIsProtected

\* The entry is let loose once, after its stop.
LEMMA SubmitRefines ==
  ASSUME Inv, Agreement, Standing, SubmitEntry PROVE Refines
<1>1. /\ Send(EntryAction) /\ pc = "submit"
      /\ UNCHANGED <<book, position, trade, todo, batch>>
  BY DEF SubmitEntry
<1>2. Agreement'
  BY <1>1, ConstantTypes, SendAgrees
<1>3. Command(EntryAction) = EntryPlace /\ EntryPlace \in Commands
  BY IdFacts DEF Command, EntryAction, EntryPlace, Commands
<1>4. ~Recorded(EntryPlace) /\ pc' = "await" /\ wire' = wire \cup {EntryAction}
  BY <1>1, <1>3 DEF Send
<1>5. \A c \in Commands : Recorded(c) => Recorded(c)'
  BY <1>1, <1>3, InvParts DEF Send, Recorded
<1>6. Standing'
  BY <1>1, <1>4, <1>5, InvParts
  DEF Standing, Begun, TodoRecorded, PlacesExits, ArmedBeforeEntry, Control
<1>7. Entry = "unsent"
  BY <1>4, UnsentEntry DEF Entry
<1>8. Entry' = "live"
  <2>1. EntryAction \in wire' /\ EntryAction.op = "PLACE" /\ EntryAction.id = EntryId
    BY <1>4 DEF EntryAction
  <2>2. OnWire("PLACE", EntryId)'
    BY <2>1 DEF OnWire
  <2> QED
    BY <2>2 DEF Entry, EntryCanFill
<1>9. Armed /\ Armed'
  BY <1>1 DEF Standing, ArmedBeforeEntry, Armed
<1>10. Owned!Enter
  BY <1>1, <1>7, <1>8, <1>9 DEF Owned!Enter, Armed, Entry
<1> QED
  BY <1>2, <1>6, <1>10 DEF Refines, AbstractStep, Owned!Next

\* The admission of the entry.
LEMMA AdmissionRefines ==
  ASSUME Inv, Agreement, Standing
  PROVE  /\ BeginAdmission => Refines
         /\ SymbolIsFlat => Refines
         /\ SymbolIsOrderless => Refines
         /\ Prepare => Refines
         /\ \A a \in PrearmActions : Prearm(a) => Refines
         /\ \A a \in PrearmActions : PrearmRecorded(a) => Refines
         /\ ConfirmProtection => Refines
         /\ SubmitEntry => Refines
         /\ AbandonAdmission => Refines
<1>1. ASSUME BeginAdmission \/ SymbolIsFlat \/ SymbolIsOrderless PROVE Refines
  <2>1. /\ UNCHANGED <<book, wire, position, trade, rec, sent, todo, batch>>
        /\ pc' \in {"flat", "orderless", "prepare"}
    BY <1>1 DEF BeginAdmission, SymbolIsFlat, SymbolIsOrderless, durable, history
  <2>2. Standing'
    BY <2>1 DEF Standing, Begun, TodoRecorded, PlacesExits, ArmedBeforeEntry, Recorded
  <2> QED
    BY <2>1, <2>2, RecordsUntouched, BystanderRefines
<1>2. ASSUME Prepare PROVE Refines
  <2>1. /\ UNCHANGED <<book, wire, position, rec, sent, todo, batch>> /\ pc' = "prearm"
        /\ trade' = IF trade = "none" THEN "open" ELSE trade
    BY <1>2 DEF Prepare, history
  <2>2. Standing'
    BY <2>1 DEF Standing, Begun, TodoRecorded, PlacesExits, ArmedBeforeEntry, Recorded
  <2>3. CASE trade # "none"
    BY <2>1, <2>2, <2>3, RecordsUntouched, BystanderRefines
  <2>4. CASE trade = "none"
    <3>1. Agreement'
      BY <2>1 DEF Agreement, WireSent, WireNew, WireOnce, BookSent, Accounting
    <3>2. Armed' = Armed /\ Entry' = Entry
      BY <2>1 DEF Armed, Entry, EntryCanFill, OnWire, Recorded
    <3>3. Owned!Own
      BY <2>1, <2>4, <3>2 DEF Owned!Own, Armed, Entry
    <3> QED
      BY <2>2, <3>1, <3>3 DEF Refines, AbstractStep, Owned!Next
  <2> QED
    BY <2>3, <2>4
<1>3. ASSUME NEW a \in PrearmActions, Prearm(a) PROVE Refines
  <2>1. a \in Actions /\ a.id = PrearmId
    BY PrearmType, PlacementsPlaceExits DEF PrearmActions
  <2>2. Command(a) # EntryPlace
    BY <2>1, IdFacts DEF Command, EntryPlace, ExitIds
  <2>3. trade # "none" /\ PlacesExits(batch')
    BY <1>3 DEF Prearm, Standing, Begun, PlacesExits
  <2> QED
    BY <1>3, <2>1, <2>2, <2>3, SendRefines DEF Prearm
<1>4. ASSUME NEW a \in PrearmActions, PrearmRecorded(a) PROVE Refines
  <2>1. /\ UNCHANGED <<book, wire, position, trade, rec, sent, todo, batch>>
        /\ pc = "prearm" /\ pc' = "confirm"
    BY <1>4 DEF PrearmRecorded, durable, history
  <2>2. Standing'
    BY <2>1 DEF Standing, Begun, TodoRecorded, PlacesExits, ArmedBeforeEntry, Recorded
  <2> QED
    BY <2>1, <2>2, RecordsUntouched, BystanderRefines
<1>5. ASSUME ConfirmProtection PROVE Refines
  <2>1. /\ UNCHANGED <<book, wire, position, trade, rec, sent, todo, batch>>
        /\ pc = "confirm"
    BY <1>5 DEF ConfirmProtection, durable, history
  <2>2. Armed'
    BY <1>5, <2>1, ConfirmedIsArmed DEF Armed
  <2>3. Standing'
    BY <2>1, <2>2 DEF Standing, Begun, TodoRecorded, PlacesExits, ArmedBeforeEntry, Recorded
  <2> QED
    BY <2>1, <2>3, RecordsUntouched, BystanderRefines
<1>6. ASSUME AbandonAdmission PROVE Refines
  <2>1. UNCHANGED <<book, wire, position, trade, rec, sent>> /\ GiveUp
    BY <1>6 DEF AbandonAdmission, durable, history
  <2> QED
    BY <2>1, GiveUpStanding, RecordsUntouched, BystanderRefines
<1> QED
  BY <1>1, <1>2, <1>3, <1>4, <1>5, <1>6, SubmitRefines

\* The exchange, the wire, crashes and the clock.
LEMMA EnvironmentRefines ==
  ASSUME Inv, Agreement, Standing
  PROVE  /\ Exchange => Refines
         /\ Crash => Refines
         /\ \A e \in Events : Happens(e) => Refines
         /\ NewDay => Refines
<1>1. ASSUME NEW m \in wire, LateRequest(m) \/ LostRequest(m) PROVE Refines
  <2>1. /\ wire' = wire \ {m}
        /\ book' = book \/ (~Refused(m) /\ book' = Executed(m))
        /\ UNCHANGED <<position, trade, rec, sent, pc, todo, batch>>
    BY <1>1 DEF LateRequest, LostRequest, durable, volatile, history
  <2>2. trade # "none"
    BY DEF Agreement, WireSent, Standing, Begun
  <2>3. \A id \in Ids : book[id].status # "none" => book'[id].status # "none"
    BY <2>1, RequestAgrees
  <2>4. Standing'
    BY <2>1, <2>3, IdFacts
    DEF Standing, Begun, TodoRecorded, PlacesExits, ArmedBeforeEntry, Armed, Recorded
  <2> QED
    BY <2>1, <2>2, <2>4, RecordsUntouched, RequestRefines
<1>2. ASSUME Crash PROVE Refines
  <2>1. UNCHANGED <<book, wire, position, trade, rec, sent>> /\ GiveUp
    BY <1>2 DEF Crash, durable, history
  <2> QED
    BY <2>1, GiveUpStanding, RecordsUntouched, BystanderRefines
<1>3. ASSUME NewDay \/ \E e \in Events : Happens(e) PROVE Refines
  <2>1. UNCHANGED <<book, wire, position, trade, rec, sent, pc, todo, batch>>
    BY <1>3 DEF NewDay, Happens, durable, volatile, history
  <2>2. Standing'
    BY <2>1
    DEF Standing, Begun, TodoRecorded, PlacesExits, ArmedBeforeEntry, Armed, Recorded
  <2> QED
    BY <2>1, <2>2, RecordsUntouched, BystanderRefines
<1> QED
  BY <1>1, <1>2, <1>3, MarketRefines DEF Exchange

--------------------------------------------------------------------------------
(* The theorem.                                                            *)

RefinementInv == Inv /\ Agreement /\ Standing

\* Every step keeps the invariant and is a step of the owned trade, or none.
LEMMA RefinementNext == RefinementInv /\ [Next]_vars => RefinementInv' /\ AbstractStep
<1> SUFFICES ASSUME RefinementInv, [Next]_vars PROVE Inv' /\ Refines
  BY DEF RefinementInv, Refines
<1>1. Inv /\ Agreement /\ Standing
  BY DEF RefinementInv
<1>2. Inv'
  BY <1>1, InvNext
<1>3. CASE Cycle
  BY <1>1, <1>2, <1>3, DecisionRefines, ExecutionRefines DEF Cycle
<1>4. CASE Admission
  BY <1>1, <1>2, <1>4, AdmissionRefines DEF Admission
<1>5. CASE Exchange \/ Crash \/ (\E e \in Events : Happens(e)) \/ NewDay
  BY <1>1, <1>2, <1>5, EnvironmentRefines
<1>6. CASE UNCHANGED vars
  <2>1. UNCHANGED <<book, wire, position, trade, rec, sent, pc, todo, batch>>
    BY <1>6 DEF vars
  <2>2. Standing'
    BY <1>1, <2>1
    DEF Standing, Begun, TodoRecorded, PlacesExits, ArmedBeforeEntry, Armed, Recorded
  <2> QED
    BY <1>1, <1>2, <2>1, <2>2, RecordsUntouched, BystanderRefines
<1> QED
  BY <1>3, <1>4, <1>5, <1>6 DEF Next

\* Nothing is owned, armed, entered or held at first.
LEMMA RefinementInit == Init => RefinementInv /\ Owned!Init
<1> SUFFICES ASSUME Init PROVE RefinementInv /\ Owned!Init
  OBVIOUS
<1>1. Inv
  BY InitInv
<1>2. /\ wire = {} /\ position = 0 /\ sent = {} /\ todo = {} /\ pc = "idle"
      /\ batch = NoActions /\ trade = "none"
      /\ \A id \in Ids : book[id] = NoRecord
      /\ \A c \in Commands : ~Recorded(c)
  BY DEF Init, VenueInit, Recorded, NoRecord
<1>3. ExitFilled(book) = 0
  <2>1. FillUnits(book) = {}
    BY <1>2, IdFacts DEF FillUnits, NoRecord
  <2>2. \A x \in ExitIds : book[x].filled \in Nat
    BY <1>1, BookFills, IdFacts
  <2> QED
    BY <2>1, <2>2, FilledIsUnits, FS_EmptySet
<1>4. Agreement
  BY <1>2, <1>3, IdFacts
  DEF Agreement, WireSent, WireNew, WireOnce, BookSent, Accounting, NoRecord
<1>5. Standing
  BY <1>2 DEF Standing, Begun, TodoRecorded, PlacesExits, ArmedBeforeEntry, NoActions
<1>6. ~EntryCanFill /\ ~Armed /\ ~Recorded(EntryPlace)
  BY <1>2, IdFacts DEF EntryCanFill, OnWire, Armed, NoRecord, EntryPlace, Commands
<1>7. Owned!Init
  BY <1>2, <1>6 DEF Owned!Init, Armed
<1> QED
  BY <1>1, <1>4, <1>5, <1>7 DEF RefinementInv

\* Coordinator, journals and admission implement the owned trade: whatever is
\* lost, late, stale or interrupted by a crash, the plan is owned before its stop,
\* its stop is at the exchange before the entry, the entry is sent once, and the
\* trade is written off only when the entry can buy no more and nothing is held.
THEOREM LifecycleImplementsOwnedTrade == Spec => ImplementsOwnedTrade
<1>1. Spec => []RefinementInv
  BY RefinementInit, RefinementNext, PTL DEF Spec
<1> QED
  BY <1>1, RefinementInit, RefinementNext, PTL
  DEF Spec, ImplementsOwnedTrade, Owned!Spec, AbstractStep

================================================================================
