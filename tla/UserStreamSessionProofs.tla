------------------------ MODULE UserStreamSessionProofs ------------------------
(***************************************************************************)
(* Proofs about UserStreamSession for every set of event kinds and every   *)
(* bound: type correctness, no blind spot while the stream is taken to be  *)
(* reconciled, and an entry block for as long as a risk event is pending.  *)
(*                                                                         *)
(* NoBlindSpot is not inductive: that a cycle may declare the stream       *)
(* reconciled at its end rests on what its refresh, an earlier refresh or  *)
(* the resynchronisation has read.  Covered says what each place of the    *)
(* lock's holder may rely on.                                              *)
(***************************************************************************)
EXTENDS UserStreamSession, TLAPS

\* What the refresh under way leaves out has an event on its way.
ReadingMissesNothing == reading + Len(queue) >= account

Covered ==
  /\ observed <= count
  /\ seen <= account
  /\ reading <= account
  /\ pc \in {"refresh", "size", "resync"} => seen <= reading
  /\ pc \in {"resync", "recover"} => socket \in {"opened", "lost"}
  /\ pc = "refresh" => ~failed
  /\ pc = "advance" /\ failed => failing
  /\ socket = "open" /\ pc = "free" /\ ~requested /\ ~failing => NothingMissed
  /\ socket = "open" /\ pc = "refresh" /\ (~requested \/ count = observed)
       => ReadingMissesNothing
  /\ socket = "open" /\ pc = "advance" /\ ~failed /\ (~requested \/ count = observed)
       => NothingMissed
  /\ socket = "open" /\ pc = "size" /\ ~requested => ReadingMissesNothing
  /\ socket = "open" /\ pc = "admit" /\ ~requested => NothingMissed
  /\ socket = "opened" /\ pc = "resync" => ReadingMissesNothing
  /\ socket = "opened" /\ pc = "recover" => NothingMissed

Inv == TypeOK /\ Covered /\ NoBlindSpot /\ RiskKeepsBlock

\* The queue after an event was sent or taken is a queue of events, one longer
\* or one shorter.
LEMMA QueueFacts ==
  /\ <<>> \in Seq(EventKinds)
  /\ Len(<<>>) = 0
  /\ \A q \in Seq(EventKinds) :
       /\ Len(q) \in Nat
       /\ \A kind \in EventKinds :
            Append(q, kind) \in Seq(EventKinds) /\ Len(Append(q, kind)) = Len(q) + 1
       /\ q # <<>> => /\ Head(q) \in EventKinds
                      /\ Tail(q) \in Seq(EventKinds)
                      /\ Len(Tail(q)) = Len(q) - 1
  OBVIOUS

\* TypeOK by the sort of its variables.
Numbers ==
  /\ account \in 0..MaxChanges
  /\ count \in Nat
  /\ observed \in Nat
  /\ reading \in Nat
  /\ seen \in Nat
  /\ drops \in 0..MaxDrops

Switches ==
  /\ required \in BOOLEAN
  /\ gap \in BOOLEAN
  /\ requested \in BOOLEAN
  /\ failing \in BOOLEAN
  /\ tried \in BOOLEAN
  /\ failed \in BOOLEAN
  /\ wants \in BOOLEAN
  /\ unserved \in BOOLEAN

Values ==
  /\ queue \in Seq(EventKinds)
  /\ socket \in Sockets
  /\ block \in Reasons
  /\ pc \in Places
  /\ force \in Reasons
  /\ atStart \in Reasons
  /\ shown \in {"nothing", "flat", "exposed"}

\* The invariant holds initially: nothing has happened and nothing is connected.
LEMMA InitInv == Init => Inv
  <1> SUFFICES ASSUME Init PROVE Inv
    OBVIOUS
  <1>1. Numbers
    BY SessionBounds DEF Init, Numbers
  <1>2. Switches
    BY DEF Init, Switches
  <1>3. Values
    BY QueueFacts DEF Init, Values, Sockets, Reasons, Places
  <1>4. Covered /\ NoBlindSpot /\ RiskKeepsBlock
    BY QueueFacts DEF Init, Covered, NoBlindSpot, RiskKeepsBlock, NothingMissed
  <1> QED
    BY <1>1, <1>2, <1>3, <1>4 DEF Inv, TypeOK, Numbers, Switches, Values

\* Every step keeps the invariant.
LEMMA StepInv == Inv /\ [Next]_vars => Inv'
  <1> SUFFICES ASSUME Inv, [Next]_vars PROVE Inv'
    OBVIOUS
  <1> USE SessionBounds, KindsAssumption, QueueFacts
      DEF Inv, NothingMissed, ReadingMissesNothing, NoBlindSpot, RiskKeepsBlock,
          stream, session, locals
  <1>1. CASE \E kind \in Kinds : AccountChanges(kind)
    <2>1. TypeOK'
      <3>1. Numbers'
        BY <1>1 DEF AccountChanges, TypeOK, Numbers
      <3>2. Switches'
        BY <1>1 DEF AccountChanges, TypeOK, Switches
      <3>3. Values'
        BY <1>1
        DEF AccountChanges, TypeOK, Values, Sockets, Reasons, Places, RiskKinds,
            EventKinds
      <3> QED
        BY <3>1, <3>2, <3>3 DEF TypeOK, Numbers, Switches, Values
    <2>2. Covered' /\ NoBlindSpot' /\ RiskKeepsBlock'
      BY <1>1 DEF AccountChanges, TypeOK, Covered, Reasons, RiskKinds
    <2> QED BY <2>1, <2>2
  <1>2. CASE Connect
    <2>1. TypeOK'
      <3>1. Numbers'
        BY <1>2 DEF Connect, TypeOK, Numbers
      <3>2. Switches'
        BY <1>2 DEF Connect, TypeOK, Switches
      <3>3. Values'
        BY <1>2
        DEF Connect, TypeOK, Values, Sockets, Reasons, Places, RiskKinds,
            EventKinds
      <3> QED
        BY <3>1, <3>2, <3>3 DEF TypeOK, Numbers, Switches, Values
    <2>2. Covered' /\ NoBlindSpot' /\ RiskKeepsBlock'
      BY <1>2 DEF Connect, TypeOK, Covered, Reasons, RiskKinds
    <2> QED BY <2>1, <2>2
  <1>3. CASE Deliver
    <2>1. TypeOK'
      <3>1. Numbers'
        BY <1>3 DEF Deliver, OnRisk, TypeOK, Numbers
      <3>2. Switches'
        BY <1>3 DEF Deliver, OnRisk, TypeOK, Switches
      <3>3. Values'
        BY <1>3
        DEF Deliver, OnRisk, TypeOK, Values, Sockets, Reasons, Places, RiskKinds,
            EventKinds
      <3> QED
        BY <3>1, <3>2, <3>3 DEF TypeOK, Numbers, Switches, Values
    <2>2. Covered' /\ NoBlindSpot' /\ RiskKeepsBlock'
      BY <1>3 DEF Deliver, OnRisk, TypeOK, Covered, Reasons, RiskKinds
    <2> QED BY <2>1, <2>2
  <1>4. CASE Disconnect
    <2>1. TypeOK'
      <3>1. Numbers'
        BY <1>4 DEF Disconnect, TypeOK, Numbers
      <3>2. Switches'
        BY <1>4 DEF Disconnect, TypeOK, Switches
      <3>3. Values'
        BY <1>4
        DEF Disconnect, TypeOK, Values, Sockets, Reasons, Places, RiskKinds,
            EventKinds
      <3> QED
        BY <3>1, <3>2, <3>3 DEF TypeOK, Numbers, Switches, Values
    <2>2. Covered' /\ NoBlindSpot' /\ RiskKeepsBlock'
      BY <1>4 DEF Disconnect, TypeOK, Covered, Reasons, RiskKinds
    <2> QED BY <2>1, <2>2
  <1>5. CASE Closed
    <2>1. TypeOK'
      <3>1. Numbers'
        BY <1>5 DEF Closed, TypeOK, Numbers
      <3>2. Switches'
        BY <1>5 DEF Closed, TypeOK, Switches
      <3>3. Values'
        BY <1>5
        DEF Closed, TypeOK, Values, Sockets, Reasons, Places, RiskKinds,
            EventKinds
      <3> QED
        BY <3>1, <3>2, <3>3 DEF TypeOK, Numbers, Switches, Values
    <2>2. Covered' /\ NoBlindSpot' /\ RiskKeepsBlock'
      BY <1>5 DEF Closed, TypeOK, Covered, Reasons, RiskKinds
    <2> QED BY <2>1, <2>2
  <1>6. CASE Disconnected
    <2>1. TypeOK'
      <3>1. Numbers'
        BY <1>6 DEF Disconnected, TypeOK, Numbers
      <3>2. Switches'
        BY <1>6 DEF Disconnected, TypeOK, Switches
      <3>3. Values'
        BY <1>6
        DEF Disconnected, TypeOK, Values, Sockets, Reasons, Places, RiskKinds,
            EventKinds
      <3> QED
        BY <3>1, <3>2, <3>3 DEF TypeOK, Numbers, Switches, Values
    <2>2. Covered' /\ NoBlindSpot' /\ RiskKeepsBlock'
      BY <1>6 DEF Disconnected, TypeOK, Covered, Reasons, RiskKinds
    <2> QED BY <2>1, <2>2
  <1>7. CASE Resync
    <2>1. TypeOK'
      <3>1. Numbers'
        BY <1>7 DEF Resync, RefreshStarts, TypeOK, Numbers
      <3>2. Switches'
        BY <1>7 DEF Resync, RefreshStarts, TypeOK, Switches
      <3>3. Values'
        BY <1>7
        DEF Resync, RefreshStarts, TypeOK, Values, Sockets, Reasons, Places,
            RiskKinds, EventKinds
      <3> QED
        BY <3>1, <3>2, <3>3 DEF TypeOK, Numbers, Switches, Values
    <2>2. Covered' /\ NoBlindSpot' /\ RiskKeepsBlock'
      BY <1>7 DEF Resync, RefreshStarts, TypeOK, Covered, Reasons, RiskKinds
    <2> QED BY <2>1, <2>2
  <1>8. CASE ResyncRefreshed
    <2>1. TypeOK'
      <3>1. Numbers'
        BY <1>8 DEF ResyncRefreshed, RefreshSucceeds, TypeOK, Numbers
      <3>2. Switches'
        BY <1>8 DEF ResyncRefreshed, RefreshSucceeds, TypeOK, Switches
      <3>3. Values'
        BY <1>8
        DEF ResyncRefreshed, RefreshSucceeds, TypeOK, Values, Sockets, Reasons,
            Places, RiskKinds, EventKinds
      <3> QED
        BY <3>1, <3>2, <3>3 DEF TypeOK, Numbers, Switches, Values
    <2>2. Covered' /\ NoBlindSpot' /\ RiskKeepsBlock'
      BY <1>8
      DEF ResyncRefreshed, RefreshSucceeds, TypeOK, Covered, Reasons, RiskKinds
    <2> QED BY <2>1, <2>2
  <1>9. CASE ResyncFails
    <2>1. TypeOK'
      <3>1. Numbers'
        BY <1>9 DEF ResyncFails, RefreshFails, TypeOK, Numbers
      <3>2. Switches'
        BY <1>9 DEF ResyncFails, RefreshFails, TypeOK, Switches
      <3>3. Values'
        BY <1>9
        DEF ResyncFails, RefreshFails, TypeOK, Values, Sockets, Reasons, Places,
            RiskKinds, EventKinds
      <3> QED
        BY <3>1, <3>2, <3>3 DEF TypeOK, Numbers, Switches, Values
    <2>2. Covered' /\ NoBlindSpot' /\ RiskKeepsBlock'
      BY <1>9 DEF ResyncFails, RefreshFails, TypeOK, Covered, Reasons, RiskKinds
    <2> QED BY <2>1, <2>2
  <1>10. CASE Resynchronized
    <2>1. TypeOK'
      <3>1. Numbers'
        BY <1>10 DEF Resynchronized, AnswerRisk, TypeOK, Numbers
      <3>2. Switches'
        BY <1>10 DEF Resynchronized, AnswerRisk, TypeOK, Switches
      <3>3. Values'
        BY <1>10
        DEF Resynchronized, AnswerRisk, TypeOK, Values, Sockets, Reasons, Places,
            RiskKinds, EventKinds
      <3> QED
        BY <3>1, <3>2, <3>3 DEF TypeOK, Numbers, Switches, Values
    <2>2. Covered' /\ NoBlindSpot' /\ RiskKeepsBlock'
      BY <1>10 DEF Resynchronized, AnswerRisk, TypeOK, Covered, Reasons, RiskKinds
    <2> QED BY <2>1, <2>2
  <1>11. CASE \E intends, timer \in BOOLEAN : CycleStarts(intends, timer)
    <2>1. TypeOK'
      <3>1. Numbers'
        BY <1>11 DEF CycleStarts, RefreshStarts, TypeOK, Numbers
      <3>2. Switches'
        BY <1>11 DEF CycleStarts, RefreshStarts, TypeOK, Switches
      <3>3. Values'
        BY <1>11
        DEF CycleStarts, RefreshStarts, TypeOK, Values, Sockets, Reasons, Places,
            RiskKinds, EventKinds
      <3> QED
        BY <3>1, <3>2, <3>3 DEF TypeOK, Numbers, Switches, Values
    <2>2. Covered' /\ NoBlindSpot' /\ RiskKeepsBlock'
      BY <1>11 DEF CycleStarts, RefreshStarts, TypeOK, Covered, Reasons, RiskKinds
    <2> QED BY <2>1, <2>2
  <1>12. CASE CycleRefreshed
    <2>1. TypeOK'
      <3>1. Numbers'
        BY <1>12 DEF CycleRefreshed, RefreshSucceeds, TypeOK, Numbers
      <3>2. Switches'
        BY <1>12 DEF CycleRefreshed, RefreshSucceeds, TypeOK, Switches
      <3>3. Values'
        BY <1>12
        DEF CycleRefreshed, RefreshSucceeds, TypeOK, Values, Sockets, Reasons,
            Places, RiskKinds, EventKinds
      <3> QED
        BY <3>1, <3>2, <3>3 DEF TypeOK, Numbers, Switches, Values
    <2>2. Covered' /\ NoBlindSpot' /\ RiskKeepsBlock'
      <3>1. /\ account' = account /\ queue' = queue /\ socket' = socket
            /\ count' = count /\ observed' = observed /\ reading' = reading
            /\ required' = required /\ requested' = requested
            /\ failed' = failed /\ force' = force /\ block' = block
            /\ pc = "refresh" /\ pc' = "advance" /\ seen' = reading
        BY <1>12 DEF CycleRefreshed, RefreshSucceeds
      <3>2. ~failing'
        BY <1>12 DEF CycleRefreshed, RefreshSucceeds
      <3> QED
        BY <3>1, <3>2 DEF TypeOK, Covered
    <2> QED BY <2>1, <2>2
  <1>13. CASE CycleRefreshFails
    <2>1. TypeOK'
      <3>1. Numbers'
        BY <1>13 DEF CycleRefreshFails, RefreshFails, TypeOK, Numbers
      <3>2. Switches'
        BY <1>13 DEF CycleRefreshFails, RefreshFails, TypeOK, Switches
      <3>3. Values'
        BY <1>13
        DEF CycleRefreshFails, RefreshFails, TypeOK, Values, Sockets, Reasons,
            Places, RiskKinds, EventKinds
      <3> QED
        BY <3>1, <3>2, <3>3 DEF TypeOK, Numbers, Switches, Values
    <2>2. Covered' /\ NoBlindSpot' /\ RiskKeepsBlock'
      BY <1>13
      DEF CycleRefreshFails, RefreshFails, TypeOK, Covered, Reasons, RiskKinds
    <2> QED BY <2>1, <2>2
  <1>14. CASE AdvanceFails
    <2>1. TypeOK'
      <3>1. Numbers'
        BY <1>14 DEF AdvanceFails, TypeOK, Numbers
      <3>2. Switches'
        BY <1>14 DEF AdvanceFails, TypeOK, Switches
      <3>3. Values'
        BY <1>14
        DEF AdvanceFails, TypeOK, Values, Sockets, Reasons, Places, RiskKinds,
            EventKinds
      <3> QED
        BY <3>1, <3>2, <3>3 DEF TypeOK, Numbers, Switches, Values
    <2>2. Covered' /\ NoBlindSpot' /\ RiskKeepsBlock'
      BY <1>14 DEF AdvanceFails, TypeOK, Covered, Reasons, RiskKinds
    <2> QED BY <2>1, <2>2
  <1>15. CASE Advanced
    <2>1. TypeOK'
      <3>1. Numbers'
        BY <1>15
        DEF Advanced, AnswerRisk, Reconciled, Connected, RefreshStarts, TypeOK,
            Numbers
      <3>2. Switches'
        BY <1>15
        DEF Advanced, AnswerRisk, Reconciled, Connected, RefreshStarts, TypeOK,
            Switches
      <3>3. Values'
        BY <1>15
        DEF Advanced, AnswerRisk, Reconciled, Connected, RefreshStarts, TypeOK,
            Values, Sockets, Reasons, Places, RiskKinds, EventKinds
      <3> QED
        BY <3>1, <3>2, <3>3 DEF TypeOK, Numbers, Switches, Values
    <2>2. Covered' /\ NoBlindSpot' /\ RiskKeepsBlock'
      BY <1>15
      DEF Advanced, AnswerRisk, Reconciled, Connected, RefreshStarts, TypeOK,
          Covered, Reasons, RiskKinds
    <2> QED BY <2>1, <2>2
  <1>16. CASE Sized
    <2>1. TypeOK'
      <3>1. Numbers'
        BY <1>16 DEF Sized, RefreshSucceeds, TypeOK, Numbers
      <3>2. Switches'
        BY <1>16 DEF Sized, RefreshSucceeds, TypeOK, Switches
      <3>3. Values'
        BY <1>16
        DEF Sized, RefreshSucceeds, TypeOK, Values, Sockets, Reasons, Places,
            RiskKinds, EventKinds
      <3> QED
        BY <3>1, <3>2, <3>3 DEF TypeOK, Numbers, Switches, Values
    <2>2. Covered' /\ NoBlindSpot' /\ RiskKeepsBlock'
      BY <1>16 DEF Sized, RefreshSucceeds, TypeOK, Covered, Reasons, RiskKinds
    <2> QED BY <2>1, <2>2
  <1>17. CASE SizingFails
    <2>1. TypeOK'
      <3>1. Numbers'
        BY <1>17 DEF SizingFails, RefreshFails, TypeOK, Numbers
      <3>2. Switches'
        BY <1>17 DEF SizingFails, RefreshFails, TypeOK, Switches
      <3>3. Values'
        BY <1>17
        DEF SizingFails, RefreshFails, TypeOK, Values, Sockets, Reasons, Places,
            RiskKinds, EventKinds
      <3> QED
        BY <3>1, <3>2, <3>3 DEF TypeOK, Numbers, Switches, Values
    <2>2. Covered' /\ NoBlindSpot' /\ RiskKeepsBlock'
      BY <1>17 DEF SizingFails, RefreshFails, TypeOK, Covered, Reasons, RiskKinds
    <2> QED BY <2>1, <2>2
  <1>18. CASE SubmitEntry
    <2>1. TypeOK'
      <3>1. Numbers'
        BY <1>18 DEF SubmitEntry, TypeOK, Numbers
      <3>2. Switches'
        BY <1>18 DEF SubmitEntry, TypeOK, Switches
      <3>3. Values'
        BY <1>18
        DEF SubmitEntry, TypeOK, Values, Sockets, Reasons, Places, RiskKinds,
            EventKinds
      <3> QED
        BY <3>1, <3>2, <3>3 DEF TypeOK, Numbers, Switches, Values
    <2>2. Covered' /\ NoBlindSpot' /\ RiskKeepsBlock'
      BY <1>18 DEF SubmitEntry, TypeOK, Covered, Reasons, RiskKinds
    <2> QED BY <2>1, <2>2
  <1>19. CASE RefuseEntry
    <2>1. TypeOK'
      <3>1. Numbers'
        BY <1>19 DEF RefuseEntry, TypeOK, Numbers
      <3>2. Switches'
        BY <1>19 DEF RefuseEntry, TypeOK, Switches
      <3>3. Values'
        BY <1>19
        DEF RefuseEntry, TypeOK, Values, Sockets, Reasons, Places, RiskKinds,
            EventKinds
      <3> QED
        BY <3>1, <3>2, <3>3 DEF TypeOK, Numbers, Switches, Values
    <2>2. Covered' /\ NoBlindSpot' /\ RiskKeepsBlock'
      BY <1>19 DEF RefuseEntry, TypeOK, Covered, Reasons, RiskKinds
    <2> QED BY <2>1, <2>2
  <1>20. CASE Restart
    <2>1. TypeOK'
      <3>1. Numbers'
        BY <1>20 DEF Restart, TypeOK, Numbers
      <3>2. Switches'
        BY <1>20 DEF Restart, TypeOK, Switches
      <3>3. Values'
        BY <1>20 DEF Restart, TypeOK, Values, Sockets, Reasons, Places
      <3> QED
        BY <3>1, <3>2, <3>3 DEF TypeOK, Numbers, Switches, Values
    <2>2. Covered' /\ NoBlindSpot' /\ RiskKeepsBlock'
      BY <1>20 DEF Restart, TypeOK, Covered
    <2> QED BY <2>1, <2>2
  <1>21. CASE UNCHANGED vars
    BY <1>21 DEF vars, TypeOK, Covered
  <1> QED
    BY <1>1, <1>2, <1>3, <1>4, <1>5, <1>6, <1>7, <1>8, <1>9, <1>10, <1>11, <1>12, <1>13, <1>14, <1>15, <1>16, <1>17, <1>18, <1>19, <1>20, <1>21
    DEF Next, Connection, Recovery, Cycle

\* The strengthened invariant, from which the properties below follow.
THEOREM InvIsInvariant == Spec => []Inv
  BY InitInv, StepInv, PTL DEF Spec

\* TypeOK: every variable of stream and session keeps to its values, for every
\* set of kinds and every bound.
THEOREM TypeCorrect == Spec => []TypeOK
  BY InvIsInvariant, PTL DEF Inv

\* NoBlindSpot: whenever mark_reconciled or a resynchronisation has declared the
\* open stream reconciled, the last snapshot and the events on their way cover
\* everything that happened.
THEOREM NothingIsMissed == Spec => []NoBlindSpot
  BY InvIsInvariant, PTL DEF Inv

\* RiskKeepsBlock: force_flatten_reason never outlives the entry block it set.
THEOREM RiskBlocksEntries == Spec => []RiskKeepsBlock
  BY InvIsInvariant, PTL DEF Inv

================================================================================
