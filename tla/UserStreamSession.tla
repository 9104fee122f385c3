--------------------------- MODULE UserStreamSession ---------------------------
(***************************************************************************)
(* The runtime session around the trades: the authenticated user-data      *)
(* stream (feed/authenticated_user_stream.py) whose events say that REST   *)
(* state must be read again, and the session (runtime_session.py) that     *)
(* reads it, protects the trades, answers risk events and lets an entry    *)
(* through only when nothing was missed.                                   *)
(*                                                                         *)
(* The session lock admits one cycle or one resynchronisation at a time;   *)
(* stream events, and the loss of the connection, interleave with both at  *)
(* every await.  What lies between two awaits is one step here.            *)
(*                                                                         *)
(* Simplifications: a refresh surely shows what happened before it began   *)
(* and possibly more; advance() succeeds or fails as a whole (its content  *)
(* is module TradeLifecycle); the refresh timer may be due at any time; an *)
(* entry may be refused at any time for reasons of its own.                *)
(***************************************************************************)
EXTENDS Integers, Sequences

CONSTANTS
  Kinds,       \* which of EventKinds the exchange can send
  MaxChanges,  \* bound on account changes
  MaxDrops     \* bound on connections lost or given up, restarts included

RiskKinds  == {"MARGIN_CALL", "CONDITIONAL_ORDER_TRIGGER_REJECT"}
EventKinds == RiskKinds \cup {"ACCOUNT_UPDATE", "listenKeyExpired"}

ASSUME KindsAssumption == Kinds \subseteq EventKinds
ASSUME SessionBounds == MaxChanges \in Nat /\ MaxDrops \in Nat

VARIABLES
  account,    \* number of changes at the exchange, each with one event
  queue,      \* events that are on their way through the open connection
  socket,     \* the connection: closed, opened, open, closing, ended, or lost
              \* before it was resynchronised
  required,   \* reconciliation_required
  block,      \* entry_block_reason
  count,      \* event_count
  pc,         \* where the holder of the session lock is; "free": nobody
  gap,        \* user_stream_gap
  force,      \* force_flatten_reason
  requested,  \* account_refresh_requested
  failing,    \* account_refresh_error_type is set
  tried,      \* next_account_refresh_monotonic is set
  observed,   \* observed_event_count of this cycle
  atStart,    \* risk_reason_at_start of this cycle
  shown,      \* what the refreshed snapshot of this pass shows
  failed,     \* observation_error of this cycle is set
  wants,      \* this cycle has an intention to admit
  reading,    \* changes that the refresh under way will surely show
  seen,       \* changes that the last snapshot surely shows
  unserved,   \* history: no protection was requested since the last risk event
  drops       \* connections lost or given up so far

stream  == <<socket, queue, required, block, count>>
session == <<gap, force, requested, failing, tried>>
locals  == <<observed, atStart, shown, failed, wants>>
vars == <<account, queue, socket, required, block, count, pc, gap, force,
          requested, failing, tried, observed, atStart, shown, failed, wants,
          reading, seen, unserved, drops>>

Sockets == {"closed", "opened", "lost", "open", "closing", "ended"}
Reasons == RiskKinds \cup {"none"}
Places  == {"free", "refresh", "advance", "size", "admit", "resync", "recover"}

TypeOK ==
  /\ account \in 0..MaxChanges
  /\ queue \in Seq(EventKinds)
  /\ socket \in Sockets
  /\ required \in BOOLEAN
  /\ block \in Reasons
  /\ count \in Nat
  /\ pc \in Places
  /\ gap \in BOOLEAN
  /\ force \in Reasons
  /\ requested \in BOOLEAN
  /\ failing \in BOOLEAN
  /\ tried \in BOOLEAN
  /\ observed \in Nat
  /\ atStart \in Reasons
  /\ shown \in {"nothing", "flat", "exposed"}
  /\ failed \in BOOLEAN
  /\ wants \in BOOLEAN
  /\ reading \in Nat
  /\ seen \in Nat
  /\ unserved \in BOOLEAN
  /\ drops \in 0..MaxDrops

Init ==
  /\ account = 0
  /\ queue = <<>>
  /\ socket = "closed"
  /\ required = TRUE
  /\ block = "none"
  /\ count = 0
  /\ pc = "free"
  /\ gap = TRUE
  /\ force = "none"
  /\ requested = FALSE
  /\ failing = FALSE
  /\ tried = FALSE
  /\ observed = 0
  /\ atStart = "none"
  /\ shown = "nothing"
  /\ failed = FALSE
  /\ wants = FALSE
  /\ reading = 0
  /\ seen = 0
  /\ unserved = FALSE
  /\ drops = 0

\* "connected" is cleared only after the connection's closing handshake.
Connected == socket \in {"open", "closing"}

\* assert_entry_ready
EntryReady == Connected /\ ~required /\ block = "none"

--------------------------------------------------------------------------------
(* The connection.                                                         *)

AccountChanges(kind) ==
  /\ account < MaxChanges
  /\ account' = account + 1
  /\ queue' = IF socket \in {"opened", "open"} THEN Append(queue, kind) ELSE queue
  /\ UNCHANGED <<socket, required, block, count, pc, session, locals, reading,
                 seen, unserved, drops>>

Connect ==
  /\ socket = "closed"
  /\ socket' = "opened"
  /\ queue' = <<>>
  /\ UNCHANGED <<account, required, block, count, pc, session, locals, reading,
                 seen, unserved, drops>>

\* Mutant: a risk event asks for protection and forgets to block entries.
OnRiskUnblocked(kind) ==
  /\ force' = kind
  /\ unserved' = TRUE
  /\ UNCHANGED block

\* The session asks for protection and blocks entries until it is confirmed.
OnRisk(kind) ==
  /\ force' = kind
  /\ block' = kind
  /\ unserved' = TRUE

\* Mutant: every event is taken for a risk event.
DeliverAsRisk ==
  /\ socket = "open"
  /\ queue # <<>>
  /\ required' = TRUE
  /\ count' = count + 1
  /\ requested' = TRUE
  /\ queue' = Tail(queue)
  /\ OnRisk(Head(queue))
  /\ UNCHANGED <<account, socket, pc, gap, failing, tried, locals, reading, seen, drops>>

\* One event: the gap is marked and _on_user_data_event runs to its end.
Deliver ==
  /\ socket = "open"
  /\ queue # <<>>
  /\ required' = TRUE
  /\ count' = count + 1
  /\ requested' = TRUE
  /\ IF Head(queue) = "listenKeyExpired"
       THEN socket' = "closing" /\ queue' = <<>>
       ELSE socket' = "open" /\ queue' = Tail(queue)
  /\ IF Head(queue) \in RiskKinds
       THEN OnRisk(Head(queue))
       ELSE UNCHANGED <<force, block, unserved>>
  /\ UNCHANGED <<account, pc, gap, failing, tried, locals, reading, seen, drops>>

\* The peer or the network ends the connection, it grows too old, its listen
\* key cannot be renewed, or an event is malformed or older than the last one of
\* its type.  What was on its way is lost.  The loss of a connection that is not
\* resynchronised yet is only noticed when its first event is waited for.
Disconnect ==
  /\ socket \in {"opened", "open"}
  /\ drops < MaxDrops
  /\ drops' = drops + 1
  /\ socket' = IF socket = "open" THEN "closing" ELSE "lost"
  /\ queue' = <<>>
  /\ UNCHANGED <<account, required, block, count, pc, session, locals, reading,
                 seen, unserved>>

Closed ==
  /\ socket = "closing"
  /\ socket' = "ended"
  /\ required' = TRUE
  /\ UNCHANGED <<account, queue, block, count, pc, session, locals, reading, seen,
                 unserved, drops>>

\* _on_user_stream_disconnect, after the keepalive task has ended.
Disconnected ==
  /\ socket = "ended"
  /\ socket' = "closed"
  /\ gap' = TRUE
  /\ requested' = TRUE
  /\ UNCHANGED <<account, queue, required, block, count, pc, force, failing, tried,
                 locals, reading, seen, unserved, drops>>

--------------------------------------------------------------------------------
(* The account refresh.                                                    *)

RefreshStarts == reading' = account /\ UNCHANGED seen

RefreshSucceeds ==
  /\ seen' = reading
  /\ failing' = FALSE
  /\ tried' = TRUE
  /\ shown' \in {"flat", "exposed"}
  /\ UNCHANGED reading

RefreshFails ==
  /\ failing' = TRUE
  /\ tried' = TRUE
  /\ UNCHANGED <<seen, reading>>

\* The reason that a successful pass has answered: its entry block is lifted if
\* it is still the same, and no reason is left.
AnswerRisk(reason) ==
  /\ block' = IF block = reason THEN "none" ELSE block
  /\ force' = "none"

--------------------------------------------------------------------------------
(* Resynchronisation of a new connection, before it handles any event.     *)

Resync ==
  /\ socket \in {"opened", "lost"}
  /\ pc = "free"
  /\ pc' = "resync"
  /\ RefreshStarts
  /\ UNCHANGED <<account, stream, session, locals, unserved, drops>>

ResyncRefreshed ==
  /\ pc = "resync"
  /\ pc' = "recover"
  /\ RefreshSucceeds
  /\ unserved' = (unserved /\ force = "none")
  /\ UNCHANGED <<account, stream, gap, force, requested, observed, atStart, failed,
                 wants, drops>>

\* An exception of the refresh or an error of advance() ends the connection.
ResyncFails ==
  /\ \/ pc = "resync" /\ RefreshFails
     \/ pc = "recover" /\ UNCHANGED <<failing, tried, seen, reading>>
  /\ pc' = "free"
  /\ socket' = "closed"
  /\ queue' = <<>>
  /\ UNCHANGED <<account, required, block, count, gap, force, requested, locals,
                 unserved, drops>>

Resynchronized ==
  /\ pc = "recover"
  /\ pc' = "free"
  /\ socket' = IF socket = "opened" THEN "open" ELSE "closing"
  /\ required' = FALSE
  /\ requested' = FALSE
  /\ gap' = FALSE
  /\ IF force # "none" /\ shown = "flat" THEN AnswerRisk(force)
                                         ELSE UNCHANGED <<block, force>>
  /\ UNCHANGED <<account, queue, count, failing, tried, locals, reading, seen,
                 unserved, drops>>

--------------------------------------------------------------------------------
(* The protective cycle.                                                   *)

CycleStarts(intends, timer) ==
  /\ pc = "free"
  /\ observed' = count
  /\ atStart' = force
  /\ wants' = intends
  /\ shown' = "nothing"
  /\ IF timer \/ ~tried \/ requested \/ (intends /\ ~failing)
       THEN /\ pc' = "refresh"
            /\ requested' = FALSE
            /\ failed' = FALSE
            /\ RefreshStarts
            /\ UNCHANGED unserved
       ELSE /\ pc' = "advance"
            /\ failed' = failing
            /\ unserved' = (unserved /\ force = "none")
            /\ UNCHANGED <<requested, reading, seen>>
  /\ UNCHANGED <<account, stream, gap, force, failing, tried, drops>>

CycleRefreshed ==
  /\ pc = "refresh"
  /\ pc' = "advance"
  /\ RefreshSucceeds
  /\ unserved' = (unserved /\ atStart = "none")
  /\ UNCHANGED <<account, stream, gap, force, requested, observed, atStart, failed,
                 wants, drops>>

CycleRefreshFails ==
  /\ pc = "refresh"
  /\ pc' = "advance"
  /\ failed' = TRUE
  /\ RefreshFails
  /\ unserved' = (unserved /\ atStart = "none")
  /\ UNCHANGED <<account, stream, gap, force, requested, observed, atStart, shown,
                 wants, drops>>

AdvanceFails ==
  /\ pc = "advance"
  /\ pc' = "free"
  /\ UNCHANGED <<account, stream, session, locals, reading, seen, unserved, drops>>

\* Mutant: an event that arrived meanwhile does not keep the gap open.
ReconciledRegardless == ~failed /\ Connected

\* Mutant: the comparison of the event counts is the wrong way round.
ReconciledIfFewer == ~failed /\ Connected /\ count < observed

\* mark_reconciled, asked by a cycle whose refresh did not fail.
Reconciled == ~failed /\ Connected /\ count = observed

Advanced ==
  /\ pc = "advance"
  /\ IF atStart # "none" /\ shown = "flat" THEN AnswerRisk(atStart)
                                           ELSE UNCHANGED <<block, force>>
  /\ required' = (required /\ ~Reconciled)
  /\ gap' = (gap /\ ~Reconciled)
  /\ IF wants /\ ~failed THEN pc' = "size" /\ RefreshStarts
                         ELSE pc' = "free" /\ UNCHANGED <<reading, seen>>
  /\ UNCHANGED <<account, queue, socket, count, requested, failing, tried, locals,
                 unserved, drops>>

\* The second refresh, against which the entry is sized.
Sized ==
  /\ pc = "size"
  /\ pc' = IF ~gap /\ EntryReady THEN "admit" ELSE "free"
  /\ RefreshSucceeds
  /\ UNCHANGED <<account, stream, gap, force, requested, observed, atStart, failed,
                 wants, unserved, drops>>

SizingFails ==
  /\ pc = "size"
  /\ pc' = "free"
  /\ RefreshFails
  /\ UNCHANGED <<account, stream, gap, force, requested, locals, unserved, drops>>

\* entry_guard calls user_stream_guard right before the request is sent.
SubmitEntry ==
  /\ pc = "admit"
  /\ EntryReady
  /\ pc' = "free"
  /\ UNCHANGED <<account, stream, session, locals, reading, seen, unserved, drops>>

RefuseEntry ==
  /\ pc = "admit"
  /\ pc' = "free"
  /\ UNCHANGED <<account, stream, session, locals, reading, seen, unserved, drops>>

--------------------------------------------------------------------------------
(* The process.                                                            *)

\* The process ends at any await and a new one is started: what was in memory is
\* as __init__ makes it, the account and its last snapshot remain.
Restart ==
  /\ drops < MaxDrops
  /\ drops' = drops + 1
  /\ queue' = <<>>
  /\ socket' = "closed"
  /\ required' = TRUE
  /\ block' = "none"
  /\ count' = 0
  /\ pc' = "free"
  /\ gap' = TRUE
  /\ force' = "none"
  /\ requested' = FALSE
  /\ failing' = FALSE
  /\ tried' = FALSE
  /\ observed' = 0
  /\ atStart' = "none"
  /\ shown' = "nothing"
  /\ failed' = FALSE
  /\ wants' = FALSE
  /\ reading' = 0
  /\ UNCHANGED <<account, seen, unserved>>

--------------------------------------------------------------------------------
Connection ==
  \/ \E kind \in Kinds : AccountChanges(kind)
  \/ Connect \/ Deliver \/ Disconnect \/ Closed \/ Disconnected

Recovery == Resync \/ ResyncRefreshed \/ ResyncFails \/ Resynchronized

Cycle ==
  \/ \E intends, timer \in BOOLEAN : CycleStarts(intends, timer)
  \/ CycleRefreshed \/ CycleRefreshFails
  \/ AdvanceFails \/ Advanced
  \/ Sized \/ SizingFails \/ SubmitEntry \/ RefuseEntry

Next == Connection \/ Recovery \/ Cycle \/ Restart

Spec == Init /\ [][Next]_vars

(* A cycle runs at least once a second and the refresh timer is rearmed at *)
(* most a backoff away; asyncio.Lock is first come, first served, so a     *)
(* waiting resynchronisation gets its turn; the stream reconnects after    *)
(* every loss.  A refresh may fail, and so may the advance() after a       *)
(* refresh that did not, any number of times but not for ever.             *)
HolderSteps ==
  \/ ResyncRefreshed \/ ResyncFails \/ Resynchronized
  \/ CycleRefreshed \/ CycleRefreshFails
  \/ AdvanceFails \/ Advanced
  \/ Sized \/ SizingFails \/ SubmitEntry \/ RefuseEntry

Fairness ==
  /\ WF_vars(HolderSteps)
  /\ WF_vars(Connect)
  /\ WF_vars(Deliver)
  /\ WF_vars(Closed)
  /\ WF_vars(Disconnected)
  /\ SF_vars(Resync)
  /\ SF_vars(ResyncRefreshed)
  /\ SF_vars(Resynchronized)
  /\ SF_vars(\E intends \in BOOLEAN : CycleStarts(intends, TRUE))
  /\ SF_vars(CycleRefreshed)
  /\ SF_vars(Advanced /\ ~failed)

FairSpec == Spec /\ Fairness

--------------------------------------------------------------------------------
(* Correctness.                                                            *)

\* What the exchange did and no snapshot shows has an event on its way.
NothingMissed == seen + Len(queue) >= account

\* "Clear the event gap only if no newer event arrived during REST recovery":
\* while the open stream is taken to be reconciled, no delivered, dropped or
\* never sent event is missing from the account snapshot, however events,
\* failed refreshes, reconnections and cycles interleave.
NoBlindSpot == socket = "open" /\ ~required => NothingMissed

\* As long as force_flatten_reason is set, entries stay blocked, and for that
\* reason: _on_user_data_event and both places that clear the two agree.
RiskKeepsBlock == force # "none" => block = force

\* A stream that needs reconciliation gets it, after every event, failed refresh
\* and lost connection: one of the conditions of assert_entry_ready for entries
\* to resume.
GapCloses == required ~> ~required

\* "Causes the next coordinator cycle to request external-risk protection": a
\* risk event is not forgotten before a cycle has asked for its protection.
RiskAnswered == unserved => force # "none"

\* "Gap entry veto": no entry is sent while the process has missed a change of
\* its account that no event will tell it of any more.
EntriesSeeEverything == [][SubmitEntry => NothingMissed]_vars

================================================================================
