------------------------------- MODULE OwnedTrade -------------------------------
(***************************************************************************)
(* What the coordinator, the journals and the admission promise together   *)
(* about one plan, without journals, requests or cycles: the plan is owned *)
(* first, its stop is at the exchange next, its entry is let loose at most *)
(* once after both, and the trade is only written off when its entry can   *)
(* buy no more and nothing of it is held.  TradeLifecycle implements this  *)
(* through crashes, lost requests and stale evidence.                      *)
(***************************************************************************)
EXTENDS Naturals

CONSTANTS
  PlanQuantity   \* lot steps the plan buys

VARIABLES
  trade,    \* "none", "open" or "closed"
  armed,    \* the exchange has had the stop that covers the whole plan
  entry,    \* "unsent", "live" (it may still buy) or "over"
  held      \* lot steps held

vars == <<trade, armed, entry, held>>

Init ==
  /\ trade = "none"
  /\ armed = FALSE
  /\ entry = "unsent"
  /\ held = 0

Own ==
  /\ trade = "none"
  /\ trade' = "open"
  /\ UNCHANGED <<armed, entry, held>>

Arm ==
  /\ trade # "none"
  /\ ~armed
  /\ armed' = TRUE
  /\ UNCHANGED <<trade, entry, held>>

Enter ==
  /\ armed
  /\ entry = "unsent"
  /\ entry' = "live"
  /\ UNCHANGED <<trade, armed, held>>

\* The last lot step may end the entry.
Buy ==
  /\ entry = "live"
  /\ held < PlanQuantity
  /\ held' = held + 1
  /\ entry' \in {"live", "over"}
  /\ UNCHANGED <<trade, armed>>

EntryEnds ==
  /\ entry = "live"
  /\ entry' = "over"
  /\ UNCHANGED <<trade, armed, held>>

Sell ==
  /\ held > 0
  /\ held' = held - 1
  /\ UNCHANGED <<trade, armed, entry>>

Close ==
  /\ trade = "open"
  /\ entry # "live"
  /\ held = 0
  /\ trade' = "closed"
  /\ UNCHANGED <<armed, entry, held>>

Next == Own \/ Arm \/ Enter \/ Buy \/ EntryEnds \/ Sell \/ Close

Spec == Init /\ [][Next]_vars

================================================================================
