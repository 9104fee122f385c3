------------------------------ MODULE WriterLease ------------------------------
(***************************************************************************)
(* Which process may trade: the lease of execution/writer_lease.py and the *)
(* journals that are only written under it (live_orders.py,                *)
(* protective_executor.py).  The authority of a process is an exclusive    *)
(* flock on the file it opened, as long as the path still names that file; *)
(* it is asserted before every save, but not between the save and the      *)
(* request that follows it, and the journal is read once, into memory.     *)
(*                                                                         *)
(* Processes start, stop, die and succeed one another at any step; an      *)
(* operator may remove the lock file, and the next process to start makes  *)
(* a new one.  What a command does at the exchange is TradeLifecycle's     *)
(* matter: here a command is sent or not, recorded or not.                 *)
(***************************************************************************)
EXTENDS Naturals, FiniteSets

CONSTANTS
  Processes,   \* releases and restarts that share the account
  Commands,    \* keys of the journal
  MaxFiles,    \* bound on lock files ever made
  MaxDeaths    \* bound on processes that die

ASSUME BoundsAssumption == MaxFiles \in Nat \ {0} /\ MaxDeaths \in Nat

Files == 1..MaxFiles

VARIABLES
  path,     \* the file the lock path names, 0 if there is none
  made,     \* lock files made so far
  flock,    \* flock[f]: who locks file f, {} if nobody does
  opened,   \* opened[p]: the lock file p has open, 0 if none
  journal,  \* commands recorded in the journal on disk
  memory,   \* memory[p]: commands in the copy that p read and extends
  pc,       \* pc[p]: where p is
  current,  \* current[p]: the command p is about to send, {} if none
  sent,     \* history: commands sent to the exchange
  resent,   \* history: commands sent more than once
  late,     \* history: late[p] commands sent by p without authority
  deaths    \* processes that died

lock == <<path, made, flock, opened>>
vars == <<path, made, flock, opened, journal, memory, pc, current, sent, resent,
          late, deaths>>

TypeOK ==
  /\ path \in 0..MaxFiles
  /\ made \in Files
  /\ flock \in [Files -> SUBSET Processes]
  /\ opened \in [Processes -> 0..MaxFiles]
  /\ journal \subseteq Commands
  /\ memory \in [Processes -> SUBSET Commands]
  /\ pc \in [Processes -> {"off", "lock", "load", "idle", "save", "write", "send"}]
  /\ current \in [Processes -> SUBSET Commands]
  /\ \A p \in Processes : current[p] # {} => pc[p] \in {"save", "write", "send"}
  /\ sent \subseteq Commands
  /\ resent \subseteq sent
  /\ late \in [Processes -> Nat]
  /\ deaths \in 0..MaxDeaths

Init ==
  /\ path = 1
  /\ made = 1
  /\ flock = [f \in Files |-> {}]
  /\ opened = [p \in Processes |-> 0]
  /\ journal = {}
  /\ memory = [p \in Processes |-> {}]
  /\ pc = [p \in Processes |-> "off"]
  /\ current = [p \in Processes |-> {}]
  /\ sent = {}
  /\ resent = {}
  /\ late = [p \in Processes |-> 0]
  /\ deaths = 0

--------------------------------------------------------------------------------
(* The lease.                                                              *)

\* p has taken the lease and not given it back.
Leased(p) == pc[p] \notin {"off", "lock"}

\* Mutant: the path is not compared with the file that is locked.
HeldByDescriptor(p) == Leased(p)

\* assert_held: the path still names the file that is locked.
Held(p) == Leased(p) /\ path = opened[p]

Goto(p, label) == pc' = [pc EXCEPT ![p] = label]

\* open("a+b") makes the file if the path names none.
Open(p) ==
  /\ pc[p] = "off"
  /\ path = 0 => made < MaxFiles
  /\ made' = IF path = 0 THEN made + 1 ELSE made
  /\ path' = IF path = 0 THEN made' ELSE path
  /\ opened' = [opened EXCEPT ![p] = path']
  /\ Goto(p, "lock")
  /\ UNCHANGED <<flock, journal, memory, current, sent, resent, late, deaths>>

\* Mutant: the lock is shared.
LockShared(p) ==
  /\ pc[p] = "lock"
  /\ path # 0
  /\ flock' = [flock EXCEPT ![opened[p]] = @ \cup {p}]
  /\ Goto(p, "load")
  /\ UNCHANGED <<path, made, opened, journal, memory, current, sent, resent, late, deaths>>

\* flock(LOCK_EX | LOCK_NB) on the file that was opened, after a stat of the path.
Lock(p) ==
  /\ pc[p] = "lock"
  /\ path # 0
  /\ flock[opened[p]] = {}
  /\ flock' = [flock EXCEPT ![opened[p]] = @ \cup {p}]
  /\ Goto(p, "load")
  /\ UNCHANGED <<path, made, opened, journal, memory, current, sent, resent, late, deaths>>

\* The process is gone, or without its lease: the system releases what it locked.
Gone(p) ==
  /\ flock' = [f \in Files |-> flock[f] \ {p}]
  /\ opened' = [opened EXCEPT ![p] = 0]
  /\ memory' = [memory EXCEPT ![p] = {}]
  /\ current' = [current EXCEPT ![p] = {}]
  /\ late' = [late EXCEPT ![p] = 0]
  /\ Goto(p, "off")
  /\ UNCHANGED <<path, made, journal, sent, resent>>

\* Another process has the lock, or the path is gone already.
LockRefused(p) ==
  /\ pc[p] = "lock"
  /\ path = 0 \/ flock[opened[p]] # {}
  /\ Gone(p)
  /\ UNCHANGED deaths

--------------------------------------------------------------------------------
(* The journal under the lease.                                            *)

\* Constructors of the journals: assert_held, then read.
Load(p) ==
  /\ pc[p] = "load"
  /\ Held(p)
  /\ memory' = [memory EXCEPT ![p] = journal]
  /\ Goto(p, "idle")
  /\ UNCHANGED <<lock, journal, current, sent, resent, late, deaths>>

\* A command that is not on record, under the lock of the process.
Choose(p, c) ==
  /\ pc[p] = "idle"
  /\ Held(p)
  /\ c \notin memory[p]
  /\ memory' = [memory EXCEPT ![p] = @ \cup {c}]
  /\ current' = [current EXCEPT ![p] = {c}]
  /\ Goto(p, "save")
  /\ UNCHANGED <<lock, journal, sent, resent, late, deaths>>

\* Mutant: the command is kept for a later attempt.
SaveRetried(p) ==
  /\ pc[p] = "save"
  /\ Goto(p, IF Held(p) THEN "write" ELSE "idle")
  /\ UNCHANGED <<lock, journal, memory, current, sent, resent, late, deaths>>

\* save() asserts before it writes; without authority it raises.
Save(p) ==
  /\ pc[p] = "save"
  /\ IF Held(p) THEN Goto(p, "write") /\ UNCHANGED current
                ELSE Goto(p, "idle") /\ current' = [current EXCEPT ![p] = {}]
  /\ UNCHANGED <<lock, journal, memory, sent, resent, late, deaths>>

\* Mutant: the new record is appended after the answer.
WriteAfterwards(p) ==
  /\ pc[p] = "write"
  /\ journal' = memory[p] \ current[p]
  /\ Goto(p, IF current[p] = {} THEN "idle" ELSE "send")
  /\ UNCHANGED <<lock, memory, current, sent, resent, late, deaths>>

\* The whole copy replaces the file: before the request and after the answer.
Write(p) ==
  /\ pc[p] = "write"
  /\ journal' = memory[p]
  /\ Goto(p, IF current[p] = {} THEN "idle" ELSE "send")
  /\ UNCHANGED <<lock, memory, current, sent, resent, late, deaths>>

\* The request, and its answer or failure, which is saved in its turn.
Request(p) ==
  /\ pc[p] = "send"
  /\ sent' = sent \cup current[p]
  /\ resent' = resent \cup (current[p] \cap sent)
  /\ late' = [late EXCEPT ![p] = IF path = opened[p] THEN @ ELSE @ + 1]
  /\ current' = [current EXCEPT ![p] = {}]
  /\ Goto(p, "save")
  /\ UNCHANGED <<lock, journal, memory, deaths>>

--------------------------------------------------------------------------------
(* The end of a lease.                                                     *)

\* close() asserts as well: a process that lost the path keeps its descriptor.
Close(p) ==
  /\ pc[p] = "idle"
  /\ Held(p)
  /\ Gone(p)
  /\ UNCHANGED deaths

Die(p) ==
  /\ pc[p] # "off"
  /\ deaths < MaxDeaths
  /\ deaths' = deaths + 1
  /\ Gone(p)

\* Somebody removes the lock file under the processes.
Remove ==
  /\ path # 0
  /\ made < MaxFiles
  /\ path' = 0
  /\ UNCHANGED <<made, flock, opened, journal, memory, pc, current, sent, resent, late,
                 deaths>>

Next ==
  \/ \E p \in Processes :
       \/ Open(p) \/ Lock(p) \/ LockRefused(p)
       \/ Load(p) \/ (\E c \in Commands : Choose(p, c))
       \/ Save(p) \/ Write(p) \/ Request(p)
       \/ Close(p) \/ Die(p)
  \/ Remove

Spec == Init /\ [][Next]_vars

--------------------------------------------------------------------------------
(* Safety.                                                                 *)

\* At most one process has authority, however lock files come and go.
OneAuthority == \A p, q \in Processes : Held(p) /\ Held(q) => p = q

\* While nobody touches the lock file no command is sent twice, by whichever
\* process: a successor knows everything its predecessors may have sent.
HandoverResendsNothing == made = 1 /\ path # 0 => resent = {}

\* ... and whoever is about to overwrite the journal has all of it in memory.
NoRecordLost ==
  made = 1 /\ path # 0 =>
    \A p \in Processes : pc[p] \in {"idle", "save", "write", "send"} => journal \subseteq memory[p]

\* A process whose path was replaced stops: what was asserted before its last
\* save is the only command it still sends.
LateAtMostOnce == \A p \in Processes : late[p] <= 1

Authority == INSTANCE TradingAuthority WITH
  owner    <- {p \in Processes : Held(p)},
  intact   <- (made = 1 /\ path # 0),
  recorded <- journal

\* The lease and the journals together: whichever process starts, dies, hands over
\* or loses its lock file, one at a time has authority, and while the lock file is
\* left alone every command is recorded once, then sent once.
ImplementsAuthority == Authority!Spec

================================================================================
