---------------------------- MODULE MarketEvidence ----------------------------
(***************************************************************************)
(* What an entry knows of the market: the two websocket channels and the   *)
(* clock of feed/live_market_feed.py, the sequence gates and the Hawkes    *)
(* fit of feed/runtime_microstructure.py, and the three measurements that  *)
(* execution/entry_admission.py takes before, after and at the end of its  *)
(* awaits.  Five tasks of one event loop share this state; the fit itself  *)
(* runs in a thread.                                                       *)
(*                                                                         *)
(* Simplifications.                                                        *)
(*  - Ages are refusals: evidence that is too old is not taken, at any of  *)
(*    the three measurements.                                              *)
(*  - A trade is its aggregate id, which is also its time; a depth update  *)
(*    follows the last one or does not.                                    *)
(*  - The calibration and the prices of the book are refusals too.         *)
(***************************************************************************)
EXTENDS Naturals, FiniteSetsExt

CONSTANTS
  Symbols,
  MaxTrade,    \* aggregate trade ids are 1..MaxTrade
  Capacity,    \* arrivals the monitor holds before it starts over
  MaxFaults    \* bound on gaps, overflows, lost connections and clocks

ASSUME SymbolsAssumption == Symbols # {}
ASSUME BoundsAssumption == MaxTrade \in Nat \ {0} /\ Capacity \in Nat /\ MaxFaults \in Nat

Channels == {"market", "public"}
Trades   == 1..MaxTrade
Samples  == [Symbols -> SUBSET Trades]
Cuts     == [Symbols -> 0..MaxTrade]

VARIABLES
  clock,      \* LiveMarketFeed.clock is set
  ingress,    \* ingress[c]: where the task of channel c is
  channels,   \* LiveMarketFeed._connected_channels
  connected,  \* LiveMarketFeed.connected
  generation, \* RuntimeMicrostructure.generation
  last,       \* last[s]: last trade id (last_ids, trade_times), 0 if none
  quotes,     \* symbols with a quote (quotes, last_depth_ids)
  arrivals,   \* arrivals[s]: the trades of s in the window
  fit,        \* the last fit: whether there is one, and its sample
  fitting,    \* the fit under way: its generation and sample
  admission,  \* the entry under way: its step and the generations it measured
  seen,       \* history: trades ingested since the feed last broke
  since,      \* history: since[s] is where the window of s begins by now
  broken,     \* history: the feed broke since the entry was first measured
  entries,    \* history: what broken was when entries were sent
  faults      \* faults so far

feed    == <<clock, ingress, channels, connected>>
monitor == <<generation, last, quotes, arrivals, fit, seen, since>>
vars == <<clock, ingress, channels, connected, generation, last, quotes, arrivals,
          fit, fitting, admission, seen, since, broken, entries, faults>>

NoTrades == [s \in Symbols |-> {}]

NoCut == [s \in Symbols |-> 0]

\* A sample carries the history of its window, the code's one does not.
NoFit == [known |-> FALSE, sample |-> NoTrades, since |-> NoCut]

NotFitting == [busy |-> FALSE, generation |-> 0, sample |-> NoTrades, since |-> NoCut]

NoAdmission == [step |-> "none", micro |-> 0, current |-> 0]

TypeOK ==
  /\ clock \in BOOLEAN
  /\ ingress \in [Channels -> {"down", "dialing", "open", "ended"}]
  /\ channels = {c \in Channels : ingress[c] = "open"}
  /\ connected = (channels = Channels)
  /\ generation \in Nat
  /\ last \in [Symbols -> 0..MaxTrade]
  /\ quotes \subseteq Symbols
  /\ arrivals \in Samples
  /\ fit \in [known : BOOLEAN, sample : Samples, since : Cuts]
  /\ fitting \in [busy : BOOLEAN, generation : Nat, sample : Samples, since : Cuts]
  /\ admission \in [step : {"none", "begun", "measured", "protected"},
                    micro : Nat, current : Nat]
  /\ seen \in Samples
  /\ since \in Cuts
  /\ broken \in BOOLEAN
  /\ entries \subseteq BOOLEAN
  /\ faults \in 0..MaxFaults

Init ==
  /\ clock = FALSE
  /\ ingress = [c \in Channels |-> "down"]
  /\ channels = {}
  /\ connected = FALSE
  /\ generation = 0
  /\ last = [s \in Symbols |-> 0]
  /\ quotes = {}
  /\ arrivals = NoTrades
  /\ fit = NoFit
  /\ fitting = NotFitting
  /\ admission = NoAdmission
  /\ seen = NoTrades
  /\ since = NoCut
  /\ broken = FALSE
  /\ entries = {}
  /\ faults = 0

Fault == faults < MaxFaults /\ faults' = faults + 1

\* RuntimeMicrostructure.disconnect: everything measured is void.
Disconnect ==
  /\ generation' = generation + 1
  /\ last' = [s \in Symbols |-> 0]
  /\ quotes' = {}
  /\ arrivals' = NoTrades
  /\ fit' = NoFit
  /\ seen' = NoTrades
  /\ since' = NoCut

--------------------------------------------------------------------------------
(* The tasks of LiveMarketFeed.run: the clock and one ingress per channel. *)

\* A first observation, or one that agrees with the last.
ClockObserved ==
  /\ clock' = TRUE
  /\ UNCHANGED <<ingress, channels, connected, monitor, fitting, admission, broken,
                 entries, faults>>

\* The offset jumped by more than 500 ms, or no observation is trustworthy.
ClockBreaks ==
  /\ Fault
  /\ clock' \in {clock, FALSE}
  /\ Disconnect
  /\ broken' = TRUE
  /\ UNCHANGED <<ingress, channels, connected, fitting, admission, entries>>

Dial(c) ==
  /\ ingress[c] = "down"
  /\ clock
  /\ ingress' = [ingress EXCEPT ![c] = "dialing"]
  /\ UNCHANGED <<clock, channels, connected, monitor, fitting, admission, broken,
                 entries, faults>>

\* Mutant: the flag is computed before the channel is added.
JoinedLate(c) ==
  /\ channels' = channels \cup {c}
  /\ connected' = (channels = Channels)

Joined(c) ==
  /\ channels' = channels \cup {c}
  /\ connected' = (channels' = Channels)

\* consume() begins: what the other channel delivered so far is void.
Open(c) ==
  /\ ingress[c] = "dialing"
  /\ ingress' = [ingress EXCEPT ![c] = "open"]
  /\ Joined(c)
  /\ Disconnect
  /\ UNCHANGED <<clock, fitting, admission, broken, entries, faults>>

\* The connection cannot be made, or ends in an exception after consume(): the
\* handler of ingress().
Fails(c) ==
  /\ \/ ingress[c] = "dialing" /\ Fault
     \/ ingress[c] = "ended" /\ UNCHANGED faults
  /\ ingress' = [ingress EXCEPT ![c] = "down"]
  /\ connected' = FALSE
  /\ Disconnect
  /\ UNCHANGED <<clock, channels, fitting, admission, broken, entries>>

\* A connection that was closed without an exception.
Closed(c) ==
  /\ ingress[c] = "ended"
  /\ ingress' = [ingress EXCEPT ![c] = "down"]
  /\ UNCHANGED <<clock, channels, connected, monitor, fitting, admission, broken,
                 entries, faults>>

\* Mutant: the handler of ingress() will do it.
LeaveLate(c) ==
  /\ ingress' = [ingress EXCEPT ![c] = "ended"]
  /\ channels' = channels \ {c}
  /\ connected' = FALSE
  /\ broken' = TRUE
  /\ UNCHANGED monitor

\* Mutant: the flag is left to the handler of ingress().
LeaveConnected(c) ==
  /\ ingress' = [ingress EXCEPT ![c] = "ended"]
  /\ channels' = channels \ {c}
  /\ broken' = TRUE
  /\ Disconnect
  /\ UNCHANGED connected

\* The finally block of consume(), and what called it: _ingest and the handler of
\* a malformed frame may raise the generation before it.  They do so in one go, so
\* the generation rises once here: it is only ever compared for equality.
Leave(c) ==
  /\ ingress' = [ingress EXCEPT ![c] = "ended"]
  /\ channels' = channels \ {c}
  /\ connected' = (channels' = Channels)
  /\ broken' = TRUE
  /\ Disconnect

\* The connection breaks, a frame is malformed, or the book in it is empty or
\* crossed; without a clock any frame does it.
Ends(c) ==
  /\ ingress[c] = "open"
  /\ IF clock THEN Fault ELSE UNCHANGED faults
  /\ Leave(c)
  /\ UNCHANGED <<clock, fitting, admission, entries>>

--------------------------------------------------------------------------------
(* RuntimeMicrostructure._ingest.  A frame that is from the future or       *)
(* minutes old, and one that is a duplicate, changes nothing.               *)

Ingesting(c) == ingress[c] = "open" /\ clock

\* The window forgets its oldest trades, the new one included if it is old.
Window(from, trades) == {t \in trades : t >= from}

Later(i, j) == IF i > j THEN i ELSE j

\* Time prunes the arrivals of every symbol, whoever's trade it is.
Prune(held) ==
  \E from \in [Symbols -> Trades] :
    /\ arrivals' = [t \in Symbols |-> Window(from[t], held[t])]
    /\ since' = [t \in Symbols |-> Later(since[t], from[t])]

Held(sample) == MapThenSumSet(LAMBDA s : Cardinality(sample[s]), Symbols)

Continues(s, id) == last[s] = 0 \/ id = last[s] + 1

\* Mutant: what the monitor cannot hold is dropped, the oldest first.
TruncatingTrade(s, id) ==
  /\ Ingesting("market")
  /\ Continues(s, id)
  /\ last' = [last EXCEPT ![s] = id]
  /\ seen' = [seen EXCEPT ![s] = @ \cup {id}]
  /\ LET held == [arrivals EXCEPT ![s] = @ \cup {id}]
     IN  arrivals' = IF Held(held) > Capacity THEN [held EXCEPT ![s] = @ \ {Min(@)}] ELSE held
  /\ UNCHANGED <<feed, generation, since, quotes, fit, fitting, admission, broken, entries,
                 faults>>

NextTrade(s, id) ==
  /\ Ingesting("market")
  /\ Continues(s, id)
  /\ last' = [last EXCEPT ![s] = id]
  /\ seen' = [seen EXCEPT ![s] = @ \cup {id}]
  /\ Prune([arrivals EXCEPT ![s] = @ \cup {id}])
  /\ Held(arrivals') <= Capacity
  /\ UNCHANGED <<feed, generation, quotes, fit, fitting, admission, broken, entries, faults>>

\* Trades are missing: the frame starts a new sequence.
TradeGap(s, id) ==
  /\ Ingesting("market")
  /\ last[s] # 0 /\ id > last[s] /\ ~Continues(s, id)
  /\ Fault
  /\ generation' = generation + 1
  /\ last' = [t \in Symbols |-> IF t = s THEN id ELSE 0]
  /\ seen' = [NoTrades EXCEPT ![s] = {id}]
  /\ \E from \in Trades : /\ arrivals' = [NoTrades EXCEPT ![s] = Window(from, {id})]
                          /\ since' = [NoCut EXCEPT ![s] = from]
  /\ quotes' = {}
  /\ fit' = NoFit
  /\ broken' = TRUE
  /\ UNCHANGED <<feed, fitting, admission, entries>>

\* More arrivals than the monitor holds: it starts over and raises.
Overflow ==
  /\ Ingesting("market")
  /\ Held(arrivals) = Capacity
  /\ \E s \in Symbols, id \in Trades : Continues(s, id)
  /\ Fault
  /\ Leave("market")
  /\ UNCHANGED <<clock, fitting, admission, entries>>

NextDepth(s) ==
  /\ Ingesting("public")
  /\ quotes' = quotes \cup {s}
  /\ UNCHANGED <<feed, generation, last, arrivals, fit, seen, since, fitting, admission,
                 broken, entries, faults>>

\* pu is not the u of the last update.
DepthGap(s) ==
  /\ Ingesting("public")
  /\ s \in quotes
  /\ Fault
  /\ generation' = generation + 1
  /\ last' = [t \in Symbols |-> 0]
  /\ seen' = NoTrades
  /\ since' = NoCut
  /\ arrivals' = NoTrades
  /\ quotes' = {s}
  /\ fit' = NoFit
  /\ broken' = TRUE
  /\ UNCHANGED <<feed, fitting, admission, entries>>

--------------------------------------------------------------------------------
(* calibrate(): the sample is taken, a thread fits it, the result is kept   *)
(* if it is of the generation that is current by then.                      *)

BeginFit ==
  /\ connected
  /\ ~fitting.busy
  /\ fitting' = [busy |-> TRUE, generation |-> generation, sample |-> arrivals, since |-> since]
  /\ UNCHANGED <<feed, monitor, admission, broken, entries, faults>>

Result == [known |-> TRUE, sample |-> fitting.sample, since |-> fitting.since]

\* Mutant: the result of the thread is kept whatever happened meanwhile.
FittedLate ==
  /\ fitting.busy
  /\ \A s \in Symbols : fitting.sample[s] # {}
  /\ fit' = Result
  /\ fitting' = NotFitting
  /\ UNCHANGED <<feed, generation, last, quotes, arrivals, seen, since, admission,
                 broken, entries, faults>>

Fitted ==
  /\ fitting.busy
  /\ \A s \in Symbols : fitting.sample[s] # {}
  /\ fit' = IF fitting.generation = generation THEN Result ELSE fit
  /\ fitting' = NotFitting
  /\ UNCHANGED <<feed, generation, last, quotes, arrivals, seen, since, admission,
                 broken, entries, faults>>

\* Too few arrivals, no convergence: also the last fit is dropped.
FitFails ==
  /\ fitting.busy
  /\ fit' = NoFit
  /\ fitting' = NotFitting
  /\ UNCHANGED <<feed, generation, last, quotes, arrivals, seen, since, admission,
                 broken, entries, faults>>

--------------------------------------------------------------------------------
(* The admission of an entry of symbol s.                                  *)

Evidence(s) == fit.known /\ last[s] # 0 /\ s \in quotes

\* RuntimeSession.cycle hands the intention over; awaits follow.
Begin ==
  /\ admission.step = "none"
  /\ connected /\ clock
  /\ admission' = [NoAdmission EXCEPT !.step = "begun"]
  /\ UNCHANGED <<feed, monitor, fitting, broken, entries, faults>>

\* The first measurement; the protective orders are sent and confirmed next.
Measure(s) ==
  /\ admission.step = "begun"
  /\ Evidence(s)
  /\ admission' = [admission EXCEPT !.step = "measured", !.micro = generation]
  /\ broken' = FALSE
  /\ UNCHANGED <<feed, monitor, fitting, entries, faults>>

\* Mutant: the bracket is confirmed, so the evidence is taken anew.
MeasureAnew(s) ==
  /\ admission.step = "measured"
  /\ Evidence(s)
  /\ admission' = [admission EXCEPT !.step = "protected", !.current = generation]
  /\ UNCHANGED <<feed, monitor, fitting, broken, entries, faults>>

\* The second, when the bracket is confirmed; submit() waits for its lock next.
MeasureAgain(s) ==
  /\ admission.step = "measured"
  /\ Evidence(s)
  /\ generation = admission.micro
  /\ admission' = [admission EXCEPT !.step = "protected", !.current = generation]
  /\ UNCHANGED <<feed, monitor, fitting, broken, entries, faults>>

\* entry_guard, the third; no await lies between it and the request.
Submit(s) ==
  /\ admission.step = "protected"
  /\ Evidence(s)
  /\ generation = admission.current
  /\ entries' = entries \cup {broken}
  /\ admission' = NoAdmission
  /\ UNCHANGED <<feed, monitor, fitting, broken, faults>>

Refuse ==
  /\ admission.step # "none"
  /\ admission' = NoAdmission
  /\ UNCHANGED <<feed, monitor, fitting, broken, entries, faults>>

Connecting ==
  \/ ClockObserved
  \/ \E c \in Channels : Dial(c) \/ Open(c) \/ Fails(c) \/ Closed(c)

Ingest ==
  \/ \E s \in Symbols :
       \/ \E id \in Trades : NextTrade(s, id) \/ TradeGap(s, id)
       \/ NextDepth(s) \/ DepthGap(s)
  \/ Overflow

Calibrate == BeginFit \/ Fitted \/ FitFails

Admit ==
  \/ Begin \/ (\E s \in Symbols : Measure(s) \/ MeasureAgain(s) \/ Submit(s)) \/ Refuse

Next ==
  \/ Connecting \/ ClockBreaks \/ (\E c \in Channels : Ends(c))
  \/ Ingest \/ Calibrate \/ Admit

Spec == Init /\ [][Next]_vars

--------------------------------------------------------------------------------
(* Safety.                                                                 *)

\* "An empty, disconnected, gapped or uncalibrated feed cannot grant entry
\* evidence": both channels are up, and the clock is known.
EvidenceIsLive == (\E s \in Symbols : Evidence(s)) => connected /\ clock

Unbroken(trades) == trades = {} \/ trades = Min(trades)..Max(trades)

\* The fit is of the trades that led to the last one seen: no trade is missing
\* in its sample or between the sample and the present.
FitIsOfThisSequence ==
  fit.known => \A s \in Symbols : fit.sample[s] \subseteq seen[s] /\ Unbroken(seen[s])

\* "Warmup restarted instead of truncating evidence": a sample has every trade of
\* its window, up to the last one that it has.
SamplesAreWhole ==
  fit.known => \A s \in Symbols : \A u \in fit.sample[s], t \in seen[s] :
                 fit.since[s] <= t /\ t <= u => t \in fit.sample[s]

\* "Old snapshots cannot survive a disconnect or gap and grant entry authority":
\* from the first measurement of an entry to its request nothing broke.
EntriesOnUnbrokenFeed == TRUE \notin entries

--------------------------------------------------------------------------------
(* Liveness: the tasks of run() are never stuck for good.                  *)

FairSpec ==
  /\ Spec
  /\ WF_vars(ClockObserved)
  /\ \A c \in Channels : /\ WF_vars(Dial(c))
                         /\ WF_vars(Open(c))
                         /\ WF_vars(Fails(c) \/ Closed(c))

\* Faults are bounded here, so in the end nothing fails any more, and then both
\* channels come up for good.
FeedReturns == <>[]connected

================================================================================
