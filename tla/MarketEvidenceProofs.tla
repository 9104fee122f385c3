-------------------------- MODULE MarketEvidenceProofs --------------------------
(***************************************************************************)
(* Proofs about MarketEvidence for all sets of symbols, trades, capacities *)
(* and numbers of faults: that evidence is live, that a fit is of the      *)
(* present sequence and complete in its window, and that no entry is sent  *)
(* over a break of the feed.                                               *)
(*                                                                         *)
(* All rest on one argument: whatever breaks the feed also increases the   *)
(* generation, so a result or a measurement that carries the generation of *)
(* now was made after the last break.                                      *)
(***************************************************************************)
EXTENDS MarketEvidence, TLAPS

\* What is kept was received over a channel that is still open.
Received ==
  /\ \A s \in Symbols : last[s] # 0 => ingress["market"] = "open" /\ clock
  /\ quotes # {} => ingress["public"] = "open" /\ clock

\* The trades seen of a symbol run without a gap up to the last one.
Runs ==
  \A s \in Symbols :
    \/ last[s] = 0 /\ seen[s] = {}
    \/ \E lo \in Trades : lo <= last[s] /\ seen[s] = lo..last[s]

Within(sample, trades) == \A s \in Symbols : sample[s] \subseteq trades[s]

Sampled ==
  /\ Within(arrivals, seen)
  /\ fit.known => Within(fit.sample, seen)
  /\ fitting.generation <= generation
  /\ fitting.busy /\ fitting.generation = generation => Within(fitting.sample, seen)

\* A sample has every trade of its window up to the last one that it has.
WholeIn(sample, cuts) ==
  \A s \in Symbols : \A u \in sample[s], t \in seen[s] :
    cuts[s] <= t /\ t <= u => t \in sample[s]

Whole ==
  /\ \A s \in Symbols : \A t \in seen[s] : since[s] <= t => t \in arrivals[s]
  /\ fit.known => WholeIn(fit.sample, fit.since)
  /\ fitting.busy /\ fitting.generation = generation
       => WholeIn(fitting.sample, fitting.since)

\* What an admission has measured of the present generation is unbroken.
Measured ==
  /\ admission.micro <= generation
  /\ admission.current <= generation
  /\ admission.step = "measured" /\ admission.micro = generation => broken = FALSE
  /\ admission.step = "protected" /\ admission.current = generation => broken = FALSE

\* The empty samples are samples.
LEMMA EmptyFacts ==
  /\ NoTrades \in Samples
  /\ NoCut \in Cuts
  /\ NoFit \in [known : BOOLEAN, sample : Samples, since : Cuts] /\ ~NoFit.known
  /\ NotFitting \in [busy : BOOLEAN, generation : Nat, sample : Samples, since : Cuts]
  /\ NoAdmission \in [step : {"none", "begun", "measured", "protected"},
                      micro : Nat, current : Nat]
  BY BoundsAssumption DEF NoTrades, NoCut, NoFit, NotFitting, NoAdmission, Samples, Cuts

\* Everything holds while the feed has not been dialed.
LEMMA InitInv == Init => TypeOK /\ Received /\ Runs /\ Sampled /\ Whole /\ Measured
  <1> SUFFICES ASSUME Init PROVE TypeOK /\ Received /\ Runs /\ Sampled /\ Whole /\ Measured
    OBVIOUS
  <1>1. TypeOK
    <2>1. connected = (channels = Channels)
      BY DEF Init, Channels
    <2>2. last \in [Symbols -> 0..MaxTrade] /\ faults \in 0..MaxFaults
      BY BoundsAssumption DEF Init
    <2>3. /\ ingress \in [Channels -> {"down", "dialing", "open", "ended"}]
          /\ channels = {c \in Channels : ingress[c] = "open"}
      BY DEF Init, Channels
    <2>4. clock \in BOOLEAN /\ broken \in BOOLEAN /\ entries \subseteq BOOLEAN
      BY DEF Init
    <2>5. /\ generation \in Nat
          /\ quotes \subseteq Symbols
          /\ arrivals \in Samples /\ seen \in Samples /\ since \in Cuts
          /\ fit \in [known : BOOLEAN, sample : Samples, since : Cuts]
          /\ fitting \in [busy : BOOLEAN, generation : Nat, sample : Samples, since : Cuts]
          /\ admission \in [step : {"none", "begun", "measured", "protected"},
                            micro : Nat, current : Nat]
      BY EmptyFacts, Zenon DEF Init
    <2> QED
      BY <2>1, <2>2, <2>3, <2>4, <2>5, Zenon DEF TypeOK
  <1>2. Received /\ Runs
    BY DEF Init, Received, Runs, NoTrades
  <1>3. Sampled
    BY DEF Init, Sampled, Within, NoFit, NotFitting
  <1>4. Measured
    BY DEF Init, Measured, NoAdmission
  <1>5. Whole
    BY DEF Init, Whole, NoTrades, NoFit, NotFitting
  <1> QED
    BY <1>1, <1>2, <1>3, <1>4, <1>5

--------------------------------------------------------------------------------
(* Type correctness.                                                       *)

\* The types hold of what Disconnect leaves.
LEMMA DisconnectType ==
  ASSUME TypeOK, Disconnect
  PROVE  /\ generation' \in Nat
         /\ last' \in [Symbols -> 0..MaxTrade]
         /\ quotes' \subseteq Symbols
         /\ arrivals' \in Samples
         /\ fit' \in [known : BOOLEAN, sample : Samples, since : Cuts]
         /\ seen' \in Samples
         /\ since' \in Cuts
  BY EmptyFacts, BoundsAssumption DEF TypeOK, Disconnect

\* A channel that is left, and one that is joined, keep the two views of the
\* connection together.
LEMMA ChannelType ==
  ASSUME TypeOK, NEW c \in Channels,
         NEW to \in {"down", "dialing", "open", "ended"},
         ingress' = [ingress EXCEPT ![c] = to],
         channels' = IF to = "open" THEN channels \cup {c} ELSE channels \ {c}
  PROVE  /\ ingress' \in [Channels -> {"down", "dialing", "open", "ended"}]
         /\ channels' = {d \in Channels : ingress'[d] = "open"}
  BY DEF TypeOK

\* The feed's own variables keep their types.
LEMMA FeedType ==
  ASSUME TypeOK, Next
  PROVE  /\ clock' \in BOOLEAN
         /\ ingress' \in [Channels -> {"down", "dialing", "open", "ended"}]
         /\ channels' = {c \in Channels : ingress'[c] = "open"}
         /\ connected' = (channels' = Channels)
  <1> DEFINE P == /\ clock' \in BOOLEAN
                  /\ ingress' \in [Channels -> {"down", "dialing", "open", "ended"}]
                  /\ channels' = {c \in Channels : ingress'[c] = "open"}
                  /\ connected' = (channels' = Channels)
  <1>0. CASE UNCHANGED feed
    BY <1>0 DEF TypeOK, feed
  <1>1. CASE ClockObserved
    BY <1>1 DEF TypeOK, ClockObserved
  <1>2. CASE ClockBreaks
    BY <1>2 DEF TypeOK, ClockBreaks
  <1>3. ASSUME NEW c \in Channels, Dial(c) PROVE P
    <2>1. channels' = channels \ {c}
      BY <1>3 DEF TypeOK, Dial
    <2> QED
      BY <1>3, <2>1, ChannelType DEF TypeOK, Dial
  <1>4. ASSUME NEW c \in Channels, Open(c) PROVE P
    BY <1>4, ChannelType DEF TypeOK, Open, Joined
  <1>5. ASSUME NEW c \in Channels, Fails(c) PROVE P
    <2>1. channels' = channels \ {c} /\ c \notin channels
      BY <1>5 DEF TypeOK, Fails
    <2> QED
      BY <1>5, <2>1, ChannelType DEF TypeOK, Fails
  <1>6. ASSUME NEW c \in Channels, Closed(c) PROVE P
    <2>1. channels' = channels \ {c}
      BY <1>6 DEF TypeOK, Closed
    <2> QED
      BY <1>6, <2>1, ChannelType DEF TypeOK, Closed
  <1>7. ASSUME NEW c \in Channels, Leave(c), UNCHANGED clock PROVE P
    BY <1>7, ChannelType DEF TypeOK, Leave
  <1>8. CASE Overflow
    BY <1>8, <1>7 DEF Overflow, Channels
  <1>9. ASSUME NEW c \in Channels, Ends(c) PROVE P
    BY <1>9, <1>7 DEF Ends
  <1>10. ASSUME NEW s \in Symbols, \/ \E id \in Trades : NextTrade(s, id) \/ TradeGap(s, id)
                                  \/ NextDepth(s) \/ DepthGap(s)
         PROVE UNCHANGED feed
    BY <1>10 DEF NextTrade, TradeGap, NextDepth, DepthGap
  <1>11. CASE Calibrate \/ Admit
    BY <1>0, <1>11
    DEF Calibrate, BeginFit, Fitted, FitFails, Admit, Begin, Measure, MeasureAgain, Submit,
        Refuse
  <1> QED
    BY <1>0, <1>1, <1>2, <1>3, <1>4, <1>5, <1>6, <1>8, <1>9, <1>10, <1>11
    DEF Next, Connecting, Ingest

\* What a window keeps of trades are trades.
LEMMA WindowFacts ==
  \A from \in Trades : \A trades : Window(from, trades) \subseteq trades
  BY DEF Window

\* So are the trades that are left of the arrivals.
LEMMA PruneType ==
  ASSUME TypeOK, NEW held \in Samples, Prune(held)
  PROVE  arrivals' \in Samples /\ since' \in Cuts
  <1>1. PICK from \in [Symbols -> Trades] :
          /\ arrivals' = [t \in Symbols |-> Window(from[t], held[t])]
          /\ since' = [t \in Symbols |-> Later(since[t], from[t])]
    BY DEF Prune
  <1>2. \A t \in Symbols : Window(from[t], held[t]) \subseteq Trades
    BY WindowFacts DEF Samples
  <1>3. \A t \in Symbols : Later(since[t], from[t]) \in 0..MaxTrade
    BY BoundsAssumption DEF TypeOK, Cuts, Later, Trades
  <1> QED
    BY <1>1, <1>2, <1>3 DEF Samples, Cuts

\* The monitor's variables keep their types.
LEMMA MonitorType ==
  ASSUME TypeOK, Next
  PROVE  /\ generation' \in Nat
         /\ last' \in [Symbols -> 0..MaxTrade]
         /\ quotes' \subseteq Symbols
         /\ arrivals' \in Samples
         /\ fit' \in [known : BOOLEAN, sample : Samples, since : Cuts]
         /\ seen' \in Samples
         /\ since' \in Cuts
  <1> DEFINE P == /\ generation' \in Nat
                  /\ last' \in [Symbols -> 0..MaxTrade]
                  /\ quotes' \subseteq Symbols
                  /\ arrivals' \in Samples
                  /\ fit' \in [known : BOOLEAN, sample : Samples, since : Cuts]
                  /\ seen' \in Samples
                  /\ since' \in Cuts
  <1> USE BoundsAssumption
  <1>1. CASE Disconnect
    BY <1>1, DisconnectType
  <1>2. CASE UNCHANGED monitor
    BY <1>2 DEF TypeOK, monitor
  <1>3. ASSUME NEW s \in Symbols, NEW id \in Trades, NextTrade(s, id) PROVE P
    <2>1. last' \in [Symbols -> 0..MaxTrade] /\ seen' \in Samples
      BY <1>3 DEF TypeOK, NextTrade, Trades, Samples
    <2>2. arrivals' \in Samples /\ since' \in Cuts
      <3> DEFINE held == [arrivals EXCEPT ![s] = @ \cup {id}]
      <3>1. held \in Samples
        BY DEF TypeOK, Samples
      <3>2. Prune(held)
        BY <1>3 DEF NextTrade
      <3> QED
        BY <3>1, <3>2, PruneType
    <2> QED
      BY <1>3, <2>1, <2>2 DEF NextTrade, TypeOK
  <1>4. ASSUME NEW s \in Symbols, NEW id \in Trades, TradeGap(s, id) PROVE P
    <2>1. last' \in [Symbols -> 0..MaxTrade] /\ seen' \in Samples
      BY <1>4, EmptyFacts DEF TradeGap, Trades, Samples
    <2>2. arrivals' \in Samples /\ since' \in Cuts
      <3>1. PICK from \in Trades : /\ arrivals' = [NoTrades EXCEPT ![s] = Window(from, {id})]
                                  /\ since' = [NoCut EXCEPT ![s] = from]
        BY <1>4 DEF TradeGap
      <3>2. Window(from, {id}) \subseteq Trades
        BY WindowFacts
      <3> QED
        <4>1. arrivals' \in Samples
          BY <3>1, <3>2, EmptyFacts DEF Samples
        <4>2. from \in 0..MaxTrade
          BY DEF Trades
        <4>3. since' \in Cuts
          BY <3>1, <4>2, EmptyFacts DEF Cuts
        <4> QED
          BY <4>1, <4>3
    <2> QED
      BY <1>4, <2>1, <2>2, EmptyFacts DEF TradeGap, TypeOK
  <1>5. ASSUME NEW s \in Symbols, NextDepth(s) PROVE P
    BY <1>5 DEF NextDepth, TypeOK
  <1>6. ASSUME NEW s \in Symbols, DepthGap(s) PROVE P
    BY <1>6, EmptyFacts DEF DepthGap, TypeOK
  <1>7. CASE Calibrate
    <2>1. UNCHANGED <<generation, last, quotes, arrivals, seen, since>>
      BY <1>7 DEF Calibrate, BeginFit, Fitted, FitFails, monitor
    <2>2. \/ UNCHANGED fit
          \/ fit' = NoFit
          \/ fit' = Result
      BY <1>7 DEF Calibrate, BeginFit, Fitted, FitFails, monitor
    <2>3. fitting.sample \in Samples /\ fitting.since \in Cuts
      BY DEF TypeOK
    <2>4. Result \in [known : BOOLEAN, sample : Samples, since : Cuts]
      BY <2>3 DEF Result
    <2>5. fit \in [known : BOOLEAN, sample : Samples, since : Cuts]
      BY DEF TypeOK
    <2>6. fit' \in [known : BOOLEAN, sample : Samples, since : Cuts]
      BY <2>2, <2>4, <2>5, EmptyFacts, Zenon
    <2> QED
      BY <2>1, <2>6 DEF TypeOK
  <1>8. CASE Connecting
    BY <1>1, <1>2, <1>8 DEF Connecting, ClockObserved, Dial, Open, Fails, Closed
  <1>9. CASE ClockBreaks \/ Overflow \/ \E c \in Channels : Ends(c)
    BY <1>1, <1>9 DEF ClockBreaks, Overflow, Ends, Leave
  <1>10. CASE Admit
    BY <1>2, <1>10 DEF Admit, Begin, Measure, MeasureAgain, Submit, Refuse
  <1> QED
    BY <1>3, <1>4, <1>5, <1>6, <1>7, <1>8, <1>9, <1>10 DEF Next, Ingest

\* The other variables keep their types.
LEMMA OtherType ==
  ASSUME TypeOK, Next
  PROVE  /\ fitting' \in [busy : BOOLEAN, generation : Nat, sample : Samples, since : Cuts]
         /\ admission' \in [step : {"none", "begun", "measured", "protected"},
                            micro : Nat, current : Nat]
         /\ broken' \in BOOLEAN
         /\ entries' \subseteq BOOLEAN
         /\ faults' \in 0..MaxFaults
  <1>1. faults' \in 0..MaxFaults
    <2>1. UNCHANGED faults \/ Fault
      BY DEF Next, Connecting, Ingest, Calibrate, Admit, ClockObserved, ClockBreaks, Dial, Open,
             Fails, Closed, Ends, NextTrade, TradeGap, Overflow, NextDepth, DepthGap, BeginFit,
             Fitted, FitFails, Begin, Measure, MeasureAgain, Submit, Refuse
    <2> QED
      BY <2>1, BoundsAssumption DEF Fault, TypeOK
  <1>2. fitting' \in [busy : BOOLEAN, generation : Nat, sample : Samples, since : Cuts]
    <2>1. \/ UNCHANGED fitting
          \/ fitting' = NotFitting
          \/ fitting' = [busy |-> TRUE, generation |-> generation, sample |-> arrivals,
                         since |-> since]
      BY DEF Next, Connecting, Ingest, Calibrate, Admit, ClockObserved, ClockBreaks, Dial, Open,
             Fails, Closed, Ends, NextTrade, TradeGap, Overflow, NextDepth, DepthGap, BeginFit,
             Fitted, FitFails, Begin, Measure, MeasureAgain, Submit, Refuse
    <2>2. [busy |-> TRUE, generation |-> generation, sample |-> arrivals, since |-> since]
            \in [busy : BOOLEAN, generation : Nat, sample : Samples, since : Cuts]
      BY DEF TypeOK
    <2> QED
      BY <2>1, <2>2, EmptyFacts DEF TypeOK
  <1>3. admission' \in [step : {"none", "begun", "measured", "protected"},
                        micro : Nat, current : Nat]
    <2>1. CASE Admit
      BY <2>1, EmptyFacts DEF Admit, Begin, Measure, MeasureAgain, Submit, Refuse, TypeOK
    <2>2. CASE ~Admit
      <3>1. UNCHANGED admission
        BY <2>2
        DEF Next, Connecting, Ingest, Calibrate, ClockObserved, ClockBreaks, Dial, Open, Fails,
            Closed, Ends, NextTrade, TradeGap, Overflow, NextDepth, DepthGap, BeginFit, Fitted,
            FitFails
      <3> QED
        BY <3>1 DEF TypeOK
    <2> QED
      BY <2>1, <2>2
  <1>4. broken' \in BOOLEAN /\ entries' \subseteq BOOLEAN
    <2>1. UNCHANGED broken \/ broken' \in BOOLEAN
      BY DEF Next, Connecting, Ingest, Calibrate, Admit, ClockObserved, ClockBreaks, Dial, Open,
             Fails, Closed, Ends, Leave, NextTrade, TradeGap, Overflow, NextDepth, DepthGap,
             BeginFit, Fitted, FitFails, Begin, Measure, MeasureAgain, Submit, Refuse
    <2>2. UNCHANGED entries \/ entries' = entries \cup {broken}
      BY DEF Next, Connecting, Ingest, Calibrate, Admit, ClockObserved, ClockBreaks, Dial, Open,
             Fails, Closed, Ends, Leave, NextTrade, TradeGap, Overflow, NextDepth, DepthGap,
             BeginFit, Fitted, FitFails, Begin, Measure, MeasureAgain, Submit, Refuse
    <2> QED
      BY <2>1, <2>2 DEF TypeOK
  <1> QED
    BY <1>1, <1>2, <1>3, <1>4

\* Every step keeps the types.
LEMMA TypeStep == TypeOK /\ [Next]_vars => TypeOK'
  <1> SUFFICES ASSUME TypeOK, [Next]_vars PROVE TypeOK'
    OBVIOUS
  <1>1. CASE Next
    BY <1>1, FeedType, MonitorType, OtherType DEF TypeOK
  <1>2. CASE UNCHANGED vars
    BY <1>2 DEF vars, TypeOK
  <1> QED
    BY <1>1, <1>2

--------------------------------------------------------------------------------
(* The parts of the inductive invariant.                                   *)

\* A break of the feed: the generation grows, what is under way stays.
Breaks ==
  /\ generation' = generation + 1
  /\ fit' = NoFit
  /\ UNCHANGED <<fitting, admission, entries>>

\* The steps that break the feed, and what they leave.
LEMMA BreakFacts ==
  ASSUME NEW c \in Channels, NEW s \in Symbols, NEW id \in Trades,
         ClockBreaks \/ Open(c) \/ Fails(c) \/ Ends(c) \/ Overflow \/ TradeGap(s, id)
           \/ DepthGap(s)
  PROVE  Breaks
  BY DEF Breaks, ClockBreaks, Open, Fails, Ends, Overflow, Leave, Disconnect, TradeGap, DepthGap

\* Every step keeps Received.
LEMMA ReceivedStep == TypeOK /\ Received /\ [Next]_vars => Received'
  <1> SUFFICES ASSUME TypeOK, Received, [Next]_vars PROVE Received'
    OBVIOUS
  <1>1. CASE Disconnect
    BY <1>1 DEF Disconnect, Received
  <1>2. CASE UNCHANGED <<clock, ingress, last, quotes>>
    BY <1>2 DEF Received
  <1>3. CASE ClockObserved
    BY <1>3 DEF ClockObserved, Received, monitor
  <1>4. ASSUME NEW c \in Channels, Dial(c) \/ Closed(c) PROVE Received'
    <2>1. ingress[c] # "open" /\ c \in DOMAIN ingress
      BY <1>4 DEF Dial, Closed, TypeOK
    <2>2. \A d \in Channels : ingress[d] = "open" => ingress'[d] = "open"
      BY <1>4, <2>1 DEF Dial, Closed, TypeOK
    <2> QED
      BY <1>4, <2>2 DEF Received, Channels, Dial, Closed, monitor
  <1>5. ASSUME NEW s \in Symbols, NEW id \in Trades, NextTrade(s, id) PROVE Received'
    BY <1>5 DEF NextTrade, Ingesting, feed, Received, TypeOK
  <1>6. ASSUME NEW s \in Symbols, NEW id \in Trades, TradeGap(s, id) PROVE Received'
    BY <1>6 DEF TradeGap, Ingesting, feed, Received
  <1>7. ASSUME NEW s \in Symbols, NextDepth(s) \/ DepthGap(s) PROVE Received'
    BY <1>7 DEF NextDepth, DepthGap, Ingesting, feed, Received
  <1>8. CASE Connecting
    BY <1>1, <1>3, <1>4, <1>8 DEF Connecting, Open, Fails
  <1>9. CASE ClockBreaks \/ Overflow \/ \E c \in Channels : Ends(c)
    BY <1>1, <1>9 DEF ClockBreaks, Overflow, Ends, Leave
  <1>10. CASE Calibrate \/ Admit
    BY <1>2, <1>10
    DEF Calibrate, BeginFit, Fitted, FitFails, Admit, Begin, Measure, MeasureAgain, Submit,
        Refuse, feed, monitor
  <1>11. CASE UNCHANGED vars
    BY <1>2, <1>11 DEF vars
  <1> QED
    BY <1>5, <1>6, <1>7, <1>8, <1>9, <1>10, <1>11 DEF Next, Ingest

\* Every step keeps Runs.
LEMMA RunsStep == TypeOK /\ Runs /\ [Next]_vars => Runs'
  <1> SUFFICES ASSUME TypeOK, Runs, [Next]_vars PROVE Runs'
    OBVIOUS
  <1> USE BoundsAssumption DEF Trades
  <1>1. CASE last' = [s \in Symbols |-> 0] /\ seen' = NoTrades
    BY <1>1 DEF Runs, NoTrades
  <1>2. CASE UNCHANGED <<last, seen>>
    BY <1>2 DEF Runs
  <1>3. ASSUME NEW s \in Symbols, NEW id \in Trades, NextTrade(s, id) PROVE Runs'
    <2>1. /\ last' = [last EXCEPT ![s] = id]
          /\ seen' = [seen EXCEPT ![s] = @ \cup {id}]
          /\ last[s] = 0 \/ id = last[s] + 1
      BY <1>3 DEF NextTrade, Continues
    <2>2. last \in [Symbols -> Nat] /\ seen \in [Symbols -> SUBSET Nat]
      BY DEF TypeOK, Samples
    <2>3. \A t \in Symbols : t # s => last'[t] = last[t] /\ seen'[t] = seen[t]
      BY <2>1, <2>2
    <2>4. last'[s] = id /\ seen'[s] = seen[s] \cup {id}
      BY <2>1, <2>2
    <2>5. \E lo \in Trades : lo <= id /\ seen'[s] = lo..id
      <3>1. CASE last[s] = 0 /\ seen[s] = {}
        <4>1. seen'[s] = id..id
          BY <2>4, <3>1
        <4> QED
          BY <4>1
      <3>2. CASE \E lo \in Trades : lo <= last[s] /\ seen[s] = lo..last[s]
        <4>1. PICK lo \in Trades : lo <= last[s] /\ seen[s] = lo..last[s]
          BY <3>2
        <4>2. id = last[s] + 1
          BY <2>1, <2>2, <4>1
        <4>3. seen'[s] = lo..id
          BY <2>2, <2>4, <4>1, <4>2
        <4> QED
          BY <2>2, <4>1, <4>2, <4>3
      <3> QED
        BY <3>1, <3>2 DEF Runs
    <2> QED
      BY <2>3, <2>4, <2>5 DEF Runs
  <1>4. ASSUME NEW s \in Symbols, NEW id \in Trades, TradeGap(s, id) PROVE Runs'
    <2>1. /\ last' = [t \in Symbols |-> IF t = s THEN id ELSE 0]
          /\ seen' = [NoTrades EXCEPT ![s] = {id}]
      BY <1>4 DEF TradeGap
    <2>2. \A t \in Symbols : t # s => last'[t] = 0 /\ seen'[t] = {}
      BY <2>1 DEF NoTrades
    <2>3. last'[s] = id /\ seen'[s] = id..id /\ id <= id
      BY <2>1 DEF NoTrades
    <2> QED
      BY <2>2, <2>3 DEF Runs
  <1>5. ASSUME NEW s \in Symbols, NextDepth(s) \/ DepthGap(s) PROVE Runs'
    BY <1>1, <1>2, <1>5 DEF NextDepth, DepthGap
  <1>6. CASE Connecting
    BY <1>1, <1>2, <1>6
    DEF Connecting, ClockObserved, Dial, Open, Fails, Closed, Disconnect, monitor
  <1>7. CASE ClockBreaks \/ Overflow \/ \E c \in Channels : Ends(c)
    BY <1>1, <1>7 DEF ClockBreaks, Overflow, Ends, Leave, Disconnect
  <1>8. CASE Calibrate \/ Admit
    BY <1>2, <1>8
    DEF Calibrate, BeginFit, Fitted, FitFails, Admit, Begin, Measure, MeasureAgain, Submit,
        Refuse, monitor
  <1>9. CASE UNCHANGED vars
    BY <1>2, <1>9 DEF vars
  <1> QED
    BY <1>3, <1>4, <1>5, <1>6, <1>7, <1>8, <1>9 DEF Next, Ingest

\* Every step keeps Sampled: a sample that was taken before a break carries an
\* older generation.
LEMMA SampledStep == TypeOK /\ Sampled /\ [Next]_vars => Sampled'
  <1> SUFFICES ASSUME TypeOK, Sampled, [Next]_vars PROVE Sampled'
    OBVIOUS
  <1>1. ASSUME Breaks, Within(arrivals', seen') PROVE Sampled'
    BY <1>1, EmptyFacts DEF Breaks, Sampled, TypeOK
  <1>2. CASE UNCHANGED <<generation, arrivals, fit, fitting, seen>>
    BY <1>2 DEF Sampled, Within
  <1>3. ASSUME Disconnect PROVE Within(arrivals', seen')
    BY <1>3 DEF Disconnect, Within
  <1>4. ASSUME NEW s \in Symbols, NEW id \in Trades, NextTrade(s, id) PROVE Sampled'
    <2>1. seen' = [seen EXCEPT ![s] = @ \cup {id}]
      BY <1>4 DEF NextTrade
    <2>2. Within(seen, seen')
      BY <2>1 DEF Within, TypeOK, Samples
    <2>3. Within(arrivals', seen')
      <3> DEFINE held == [arrivals EXCEPT ![s] = @ \cup {id}]
      <3>1. PICK from \in [Symbols -> Trades] :
              arrivals' = [t \in Symbols |-> Window(from[t], held[t])]
        BY <1>4 DEF NextTrade, Prune
      <3>2. \A t \in Symbols : arrivals'[t] \subseteq held[t]
        BY <3>1, WindowFacts
      <3>3. Within(held, seen')
        BY <2>1 DEF Within, Sampled, TypeOK, Samples
      <3> QED
        BY <3>2, <3>3 DEF Within
    <2>4. UNCHANGED <<generation, fit, fitting>>
      BY <1>4 DEF NextTrade
    <2> QED
      BY <2>2, <2>3, <2>4 DEF Sampled, Within
  <1>5. ASSUME NEW s \in Symbols, NEW id \in Trades, TradeGap(s, id) PROVE Sampled'
    <2>1. PICK from \in Trades : arrivals' = [NoTrades EXCEPT ![s] = Window(from, {id})]
      BY <1>5 DEF TradeGap
    <2>2. seen' = [NoTrades EXCEPT ![s] = {id}]
      BY <1>5 DEF TradeGap
    <2>3. Within(arrivals', seen')
      BY <2>1, <2>2, WindowFacts DEF Within, NoTrades
    <2>4. Breaks
      BY <1>5 DEF Breaks, TradeGap
    <2> QED
      BY <1>1, <2>3, <2>4
  <1>6. ASSUME NEW s \in Symbols, NextDepth(s) PROVE Sampled'
    BY <1>2, <1>6 DEF NextDepth
  <1>7. ASSUME NEW s \in Symbols, DepthGap(s) PROVE Sampled'
    BY <1>1, <1>7 DEF DepthGap, Breaks, Within
  <1>8. CASE Calibrate
    BY <1>8, EmptyFacts
    DEF Calibrate, BeginFit, Fitted, FitFails, Sampled, Within, TypeOK, NotFitting, Result,
        monitor
  <1>9. CASE Connecting
    BY <1>1, <1>2, <1>3, <1>9
    DEF Connecting, ClockObserved, Dial, Open, Fails, Closed, Disconnect, Breaks, monitor
  <1>10. CASE ClockBreaks \/ Overflow \/ \E c \in Channels : Ends(c)
    BY <1>1, <1>3, <1>10 DEF ClockBreaks, Overflow, Ends, Leave, Disconnect, Breaks
  <1>11. CASE Admit
    BY <1>2, <1>11 DEF Admit, Begin, Measure, MeasureAgain, Submit, Refuse, monitor
  <1>12. CASE UNCHANGED vars
    BY <1>2, <1>12 DEF vars
  <1> QED
    BY <1>4, <1>5, <1>6, <1>7, <1>8, <1>9, <1>10, <1>11, <1>12 DEF Next, Ingest

\* Every step keeps Whole: a trade that is seen later follows all of a sample.
LEMMA WholeStep == TypeOK /\ Runs /\ Sampled /\ Whole /\ [Next]_vars => Whole'
  <1> SUFFICES ASSUME TypeOK, Runs, Sampled, Whole, [Next]_vars PROVE Whole'
    OBVIOUS
  <1> DEFINE Kept == \A s \in Symbols : \A t \in seen'[s] : since'[s] <= t => t \in arrivals'[s]
  <1>1. ASSUME Breaks, Kept PROVE Whole'
    BY <1>1, EmptyFacts DEF Breaks, Whole, Sampled, TypeOK
  <1>2. CASE UNCHANGED <<generation, arrivals, fit, fitting, seen, since>>
    BY <1>2 DEF Whole, WholeIn
  <1>3. ASSUME seen' = NoTrades PROVE Kept
    BY <1>3 DEF NoTrades
  <1>4. ASSUME NEW s \in Symbols, NEW id \in Trades, NextTrade(s, id) PROVE Whole'
    <2>1. /\ seen' = [seen EXCEPT ![s] = @ \cup {id}]
          /\ Prune([arrivals EXCEPT ![s] = @ \cup {id}])
          /\ last[s] = 0 \/ id = last[s] + 1
          /\ UNCHANGED <<generation, fit, fitting>>
      BY <1>4 DEF NextTrade, Continues
    <2>2. seen \in [Symbols -> SUBSET Trades] /\ arrivals \in [Symbols -> SUBSET Trades]
      BY DEF TypeOK, Samples
    <2>3. Kept
      <3> DEFINE held == [arrivals EXCEPT ![s] = @ \cup {id}]
      <3>1. PICK from \in [Symbols -> Trades] :
              /\ arrivals' = [t \in Symbols |-> Window(from[t], held[t])]
              /\ since' = [t \in Symbols |-> Later(since[t], from[t])]
        BY <2>1 DEF Prune
      <3> SUFFICES ASSUME NEW t \in Symbols, NEW u \in seen'[t], since'[t] <= u
                   PROVE  u \in arrivals'[t]
        OBVIOUS
      <3>2. u \in Nat /\ from[t] \in Nat /\ since[t] \in Nat
        BY <2>1, <2>2 DEF Trades, TypeOK, Cuts
      <3>3. since[t] <= u /\ from[t] <= u
        BY <3>1, <3>2 DEF Later
      <3>4. u \in held[t]
        BY <2>1, <2>2, <3>3 DEF Whole
      <3> QED
        BY <3>1, <3>2, <3>3, <3>4 DEF Window
    <2>4. \A u \in seen[s] : u < id
      BY <2>1, <2>2 DEF Runs, TypeOK, Trades
    <2>5. ASSUME NEW sample, NEW cuts, Within(sample, seen), WholeIn(sample, cuts)
          PROVE  WholeIn(sample, cuts)'
      <3> SUFFICES ASSUME NEW r \in Symbols, NEW u \in sample[r], NEW t \in seen'[r],
                          cuts[r] <= t, t <= u
                   PROVE  t \in sample[r]
        BY DEF WholeIn
      <3>1. u \in seen[r] /\ u \in Nat /\ id \in Nat
        BY <2>2, <2>5 DEF Within, Trades
      <3>2. t \in seen[r]
        BY <2>1, <2>2, <2>4, <3>1
      <3> QED
        BY <2>5, <3>2 DEF WholeIn
    <2>6. fit.known => WholeIn(fit.sample, fit.since)'
      BY <2>1, <2>5 DEF Whole, Sampled, WholeIn
    <2>7. fitting.busy /\ fitting.generation = generation
            => WholeIn(fitting.sample, fitting.since)'
      BY <2>1, <2>5 DEF Whole, Sampled, WholeIn
    <2> QED
      BY <2>1, <2>3, <2>6, <2>7 DEF Whole
  <1>5. ASSUME NEW s \in Symbols, NEW id \in Trades, TradeGap(s, id) PROVE Whole'
    <2>1. PICK from \in Trades : /\ arrivals' = [NoTrades EXCEPT ![s] = Window(from, {id})]
                                /\ since' = [NoCut EXCEPT ![s] = from]
      BY <1>5 DEF TradeGap
    <2>2. seen' = [NoTrades EXCEPT ![s] = {id}]
      BY <1>5 DEF TradeGap
    <2>3. Kept
      BY <2>1, <2>2 DEF NoTrades, NoCut, Window
    <2>4. Breaks
      BY <1>5 DEF Breaks, TradeGap
    <2> QED
      BY <1>1, <2>3, <2>4
  <1>6. ASSUME NEW s \in Symbols, NextDepth(s) PROVE Whole'
    BY <1>2, <1>6 DEF NextDepth
  <1>7. ASSUME NEW s \in Symbols, DepthGap(s) PROVE Whole'
    BY <1>1, <1>3, <1>7 DEF DepthGap, Breaks
  <1>8. CASE BeginFit
    <2>1. /\ fitting'.sample = arrivals /\ fitting'.since = since
          /\ UNCHANGED <<seen, since, arrivals, fit>>
      BY <1>8 DEF BeginFit, monitor
    <2>2. WholeIn(arrivals, since)
      BY DEF Whole, WholeIn
    <2> QED
      BY <2>1, <2>2 DEF Whole, WholeIn
  <1>9. CASE Fitted \/ FitFails
    BY <1>9, EmptyFacts DEF Fitted, FitFails, Whole, WholeIn, Result, NotFitting
  <1>10. CASE Connecting
    BY <1>1, <1>2, <1>3, <1>10
    DEF Connecting, ClockObserved, Dial, Open, Fails, Closed, Disconnect, Breaks, monitor
  <1>11. CASE ClockBreaks \/ Overflow \/ \E c \in Channels : Ends(c)
    BY <1>1, <1>3, <1>11 DEF ClockBreaks, Overflow, Ends, Leave, Disconnect, Breaks
  <1>12. CASE Admit
    BY <1>2, <1>12 DEF Admit, Begin, Measure, MeasureAgain, Submit, Refuse, monitor
  <1>13. CASE UNCHANGED vars
    BY <1>2, <1>13 DEF vars
  <1> QED
    BY <1>4, <1>5, <1>6, <1>7, <1>8, <1>9, <1>10, <1>11, <1>12, <1>13
    DEF Next, Ingest, Calibrate

\* An admission's generations are numbers.
LEMMA AdmissionType ==
  TypeOK => /\ generation \in Nat
            /\ admission \in [step : {"none", "begun", "measured", "protected"},
                              micro : Nat, current : Nat]
  BY DEF TypeOK

\* Every step keeps Measured.
LEMMA MeasuredStep == TypeOK /\ Measured /\ [Next]_vars => Measured'
  <1> SUFFICES ASSUME TypeOK, Measured, [Next]_vars PROVE Measured'
    OBVIOUS
  <1>1. CASE Breaks
    BY <1>1, AdmissionType DEF Breaks, Measured
  <1>2. CASE UNCHANGED <<generation, admission, broken>>
    BY <1>2 DEF Measured
  <1>3. CASE Begin \/ Refuse \/ \E s \in Symbols : Submit(s)
    <2>1. admission'.micro = 0 /\ admission'.current = 0 /\ admission'.step \in {"none", "begun"}
      BY <1>3 DEF Begin, Refuse, Submit, NoAdmission
    <2>2. generation' = generation
      BY <1>3 DEF Begin, Refuse, Submit, monitor
    <2> QED
      BY <2>1, <2>2, AdmissionType DEF Measured
  <1>4. ASSUME NEW s \in Symbols, Measure(s) PROVE Measured'
    <2>1. /\ admission'.step = "measured"
          /\ admission'.micro = generation
          /\ admission'.current = admission.current
      BY <1>4, AdmissionType DEF Measure
    <2>2. generation' = generation /\ broken' = FALSE
      BY <1>4 DEF Measure, monitor
    <2> QED
      BY <2>1, <2>2, AdmissionType DEF Measured
  <1>5. ASSUME NEW s \in Symbols, MeasureAgain(s) PROVE Measured'
    <2>1. /\ admission'.step = "protected"
          /\ admission'.micro = admission.micro
          /\ admission'.current = generation
      BY <1>5, AdmissionType DEF MeasureAgain
    <2>2. generation' = generation /\ broken' = broken /\ broken = FALSE
      BY <1>5 DEF MeasureAgain, Measured, monitor
    <2> QED
      BY <2>1, <2>2, AdmissionType DEF Measured
  <1>6. CASE Connecting
    BY <1>1, <1>2, <1>6
    DEF Connecting, ClockObserved, Dial, Open, Fails, Closed, Disconnect, Breaks, monitor
  <1>7. CASE ClockBreaks \/ Overflow \/ \E c \in Channels : Ends(c)
    BY <1>1, <1>7 DEF ClockBreaks, Overflow, Ends, Leave, Disconnect, Breaks
  <1>8. ASSUME NEW s \in Symbols, NEW id \in Trades, NextTrade(s, id) PROVE Measured'
    BY <1>2, <1>8 DEF NextTrade
  <1>9. ASSUME NEW s \in Symbols, NEW id \in Trades, TradeGap(s, id) PROVE Measured'
    BY <1>1, <1>9 DEF TradeGap, Breaks
  <1>10. ASSUME NEW s \in Symbols, NextDepth(s) \/ DepthGap(s) PROVE Measured'
    BY <1>1, <1>2, <1>10 DEF NextDepth, DepthGap, Breaks
  <1>11. CASE Calibrate
    BY <1>2, <1>11 DEF Calibrate, BeginFit, Fitted, FitFails, monitor
  <1>12. CASE UNCHANGED vars
    BY <1>2, <1>12 DEF vars
  <1> QED
    BY <1>3, <1>4, <1>5, <1>6, <1>7, <1>8, <1>9, <1>10, <1>11, <1>12
    DEF Next, Ingest, Admit

\* A request is made of what has been measured of the present generation.
LEMMA EntriesStep == Measured /\ EntriesOnUnbrokenFeed /\ [Next]_vars => EntriesOnUnbrokenFeed'
  <1> SUFFICES ASSUME Measured, EntriesOnUnbrokenFeed, [Next]_vars
               PROVE EntriesOnUnbrokenFeed'
    OBVIOUS
  <1>1. CASE UNCHANGED entries
    BY <1>1 DEF EntriesOnUnbrokenFeed
  <1>2. ASSUME NEW s \in Symbols, Submit(s) PROVE EntriesOnUnbrokenFeed'
    <2>1. broken = FALSE
      BY <1>2 DEF Submit, Measured
    <2>2. entries' = entries \cup {broken}
      BY <1>2 DEF Submit
    <2> QED
      BY <2>1, <2>2, Zenon DEF EntriesOnUnbrokenFeed
  <1>3. (\E s \in Symbols : Submit(s)) \/ UNCHANGED entries
    BY DEF vars, Next, Connecting, Ingest, Calibrate, Admit, ClockObserved, ClockBreaks, Dial,
           Open, Fails, Closed, Ends, NextTrade, TradeGap, Overflow, NextDepth, DepthGap,
           BeginFit, Fitted, FitFails, Begin, Measure, MeasureAgain, Refuse
  <1> QED
    BY <1>1, <1>2, <1>3

--------------------------------------------------------------------------------
(* The theorems.                                                           *)

\* Every variable keeps its type, and the channels that are open are the ones
\* whose connection is being consumed.
THEOREM TypeCorrect == Spec => []TypeOK
  BY InitInv, TypeStep, PTL DEF Spec

\* Who can produce evidence is connected on both channels and knows the clock.
THEOREM LiveEvidence == Spec => []EvidenceIsLive
  <1>1. TypeOK /\ Received => EvidenceIsLive
    <2> SUFFICES ASSUME TypeOK, Received, NEW s \in Symbols, Evidence(s)
                 PROVE connected /\ clock
      BY DEF EvidenceIsLive
    <2>1. clock /\ ingress["market"] = "open" /\ ingress["public"] = "open"
      BY DEF Received, Evidence
    <2>2. channels = Channels
      BY <2>1 DEF TypeOK, Channels
    <2> QED
      BY <2>1, <2>2 DEF TypeOK
  <1>2. Spec => [](TypeOK /\ Received)
    BY InitInv, TypeStep, ReceivedStep, PTL DEF Spec
  <1> QED
    BY <1>1, <1>2, PTL

\* A range of numbers is bounded by its least and its greatest member.
LEMMA RangeUnbroken ==
  \A lo, hi \in Nat : lo <= hi => Unbroken(lo..hi)
  <1> SUFFICES ASSUME NEW lo \in Nat, NEW hi \in Nat, lo <= hi PROVE Unbroken(lo..hi)
    OBVIOUS
  <1>1. Min(lo..hi) = lo
    <2>1. lo \in lo..hi /\ \A y \in lo..hi : lo <= y
      OBVIOUS
    <2>2. \A x \in lo..hi : (\A y \in lo..hi : x <= y) => x = lo
      BY <2>1
    <2> QED
      BY <2>1, <2>2 DEF Min
  <1>2. Max(lo..hi) = hi
    <2>1. hi \in lo..hi /\ \A y \in lo..hi : hi >= y
      OBVIOUS
    <2>2. \A x \in lo..hi : (\A y \in lo..hi : x >= y) => x = hi
      BY <2>1
    <2> QED
      BY <2>1, <2>2 DEF Max
  <1> QED
    BY <1>1, <1>2 DEF Unbroken

\* A fit that can be used is of the sequence the present trades belong to.
THEOREM FitOfThisSequence == Spec => []FitIsOfThisSequence
  <1>1. TypeOK /\ Runs /\ Sampled => FitIsOfThisSequence
    <2> SUFFICES ASSUME TypeOK, Runs, Sampled, fit.known, NEW s \in Symbols
                 PROVE fit.sample[s] \subseteq seen[s] /\ Unbroken(seen[s])
      BY DEF FitIsOfThisSequence
    <2>1. fit.sample[s] \subseteq seen[s]
      BY DEF Sampled, Within
    <2>2. Unbroken(seen[s])
      <3>1. CASE seen[s] = {}
        BY <3>1 DEF Unbroken
      <3>2. CASE \E lo \in Trades : lo <= last[s] /\ seen[s] = lo..last[s]
        BY <3>2, RangeUnbroken, BoundsAssumption DEF TypeOK, Trades
      <3> QED
        BY <3>1, <3>2 DEF Runs
    <2> QED
      BY <2>1, <2>2
  <1>2. Spec => [](TypeOK /\ Runs /\ Sampled)
    BY InitInv, TypeStep, RunsStep, SampledStep, PTL DEF Spec
  <1> QED
    BY <1>1, <1>2, PTL

\* A fit that can be used was made of all the trades of its window: a monitor that
\* cannot hold them starts over, it never fits the rest.
THEOREM WholeSamples == Spec => []SamplesAreWhole
  <1>1. Whole => SamplesAreWhole
    BY DEF Whole, WholeIn, SamplesAreWhole
  <1>2. Spec => []Whole
    BY InitInv, TypeStep, RunsStep, SampledStep, WholeStep, PTL DEF Spec
  <1> QED
    BY <1>1, <1>2, PTL

\* Every entry is requested on a feed that has not broken since the entry was
\* first measured, whatever happened during its awaits.
THEOREM EntriesAreUnbroken == Spec => []EntriesOnUnbrokenFeed
  <1>1. Init => EntriesOnUnbrokenFeed
    BY DEF Init, EntriesOnUnbrokenFeed
  <1> QED
    BY <1>1, InitInv, TypeStep, MeasuredStep, EntriesStep, PTL DEF Spec

================================================================================
