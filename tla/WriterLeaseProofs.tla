--------------------------- MODULE WriterLeaseProofs ---------------------------
(***************************************************************************)
(* Proofs about WriterLease for any number of processes, commands, lock    *)
(* files and deaths: its safety properties, and that it implements         *)
(* TradingAuthority.                                                       *)
(*                                                                         *)
(* Locked ties the lock of a file to the process that has it open; a path  *)
(* is the newest file or none, so a process whose file is no longer named  *)
(* never gets its authority back.  While the first file is in place there  *)
(* is one process with a lease, Known says what it knows, and Tidy that it *)
(* knows nothing else.                                                     *)
(***************************************************************************)
EXTENDS WriterLease, TLAPS

Locked ==
  /\ path \in {0, made}
  /\ \A p \in Processes : opened[p] <= made
  /\ \A p \in Processes : pc[p] # "off" => opened[p] \in Files
  /\ \A p \in Processes : Leased(p) => flock[opened[p]] = {p}
  /\ \A f \in Files : \A p \in flock[f] : Leased(p) /\ opened[p] = f

Untouched == made = 1 /\ path # 0

Working(p) == pc[p] \in {"idle", "save", "write", "send"}

Known ==
  Untouched =>
    /\ sent \subseteq journal
    /\ resent = {}
    /\ \A p \in Processes :
         /\ Working(p) => journal \subseteq memory[p]
         /\ pc[p] \in {"save", "write"} => /\ current[p] \cap journal = {}
                                           /\ current[p] \subseteq memory[p]
         /\ pc[p] = "send" => /\ current[p] \subseteq journal
                              /\ current[p] \cap sent = {}

Belated ==
  \A p \in Processes :
    /\ late[p] <= 1
    /\ late[p] # 0 => path # opened[p] /\ pc[p] \in {"save", "idle"}

Inv == TypeOK /\ Locked /\ Known /\ Belated

LEMMA InitInv == Init => Inv
  BY BoundsAssumption
  DEF Init, Inv, TypeOK, Locked, Known, Belated, Untouched, Working, Leased, Files

\* While the first lock file is in place there is no second lease.
LEMMA OneLease ==
  ASSUME TypeOK, Locked, Untouched, NEW p \in Processes, NEW q \in Processes,
         Leased(p), Leased(q)
  PROVE  p = q /\ Held(p)
  <1>1. opened[p] = 1 /\ opened[q] = 1 /\ path = 1
    BY DEF TypeOK, Locked, Untouched, Leased, Files
  <1>2. flock[1] = {p} /\ flock[1] = {q}
    BY <1>1 DEF Locked
  <1> QED
    BY <1>1, <1>2 DEF Held

\* The steps of the lease itself: what is locked follows what is open.
LEMMA OpenKeepsInv == ASSUME Inv, NEW p \in Processes, Open(p) PROVE Inv'
  <1>1. /\ path' \in {path, made'} /\ path' # 0 /\ path' \in Files /\ made' \in Files
        /\ made <= made' /\ (path # 0 => path' = path /\ made' = made)
        /\ (path = 0 => made' = made + 1 /\ path' = made')
        /\ made \in Nat /\ made >= 1
    BY BoundsAssumption DEF Open, Inv, TypeOK, Locked, Files
  <1>2. /\ pc[p] = "off" /\ pc' = [pc EXCEPT ![p] = "lock"]
        /\ opened' = [opened EXCEPT ![p] = path']
        /\ UNCHANGED <<flock, journal, memory, current, sent, resent, late, deaths>>
    BY DEF Open, Goto
  <1>3. TypeOK'
    BY <1>1, <1>2, BoundsAssumption DEF Inv, TypeOK, Files
  <1>4. Locked'
    BY <1>1, <1>2, BoundsAssumption DEF Inv, TypeOK, Locked, Leased, Files
  <1>5. Known'
    BY <1>1, <1>2 DEF Inv, TypeOK, Known, Untouched, Working, Files
  <1>6. Belated'
    BY <1>1, <1>2, BoundsAssumption DEF Inv, TypeOK, Locked, Belated, Files
  <1> QED
    BY <1>3, <1>4, <1>5, <1>6 DEF Inv

LEMMA LockKeepsInv == ASSUME Inv, NEW p \in Processes, Lock(p) PROVE Inv'
  <1>1. /\ pc[p] = "lock" /\ pc' = [pc EXCEPT ![p] = "load"]
        /\ flock[opened[p]] = {} /\ opened[p] \in Files
        /\ flock' = [flock EXCEPT ![opened[p]] = {p}]
        /\ UNCHANGED <<path, made, opened, journal, memory, current, sent, resent, late,
                       deaths>>
    BY DEF Lock, Goto, Inv, TypeOK, Locked
  <1>2. TypeOK'
    BY <1>1 DEF Inv, TypeOK
  <1>3. Locked'
    BY <1>1 DEF Inv, TypeOK, Locked, Leased
  <1>4. Known' /\ Belated'
    BY <1>1 DEF Inv, TypeOK, Known, Belated, Untouched, Working
  <1> QED
    BY <1>2, <1>3, <1>4 DEF Inv

\* Whatever way a process goes, it leaves nothing locked and nothing late.
LEMMA GoneKeepsInv ==
  ASSUME Inv, NEW p \in Processes, Gone(p), pc[p] # "off", deaths' \in 0..MaxDeaths
  PROVE  Inv'
  <1>1. /\ flock' = [f \in Files |-> flock[f] \ {p}]
        /\ opened' = [opened EXCEPT ![p] = 0]
        /\ memory' = [memory EXCEPT ![p] = {}]
        /\ current' = [current EXCEPT ![p] = {}]
        /\ late' = [late EXCEPT ![p] = 0]
        /\ pc' = [pc EXCEPT ![p] = "off"]
        /\ UNCHANGED <<path, made, journal, sent, resent>>
    BY DEF Gone, Goto
  <1>2. TypeOK'
    <2>1. \A q \in Processes : current'[q] # {} => pc'[q] \in {"save", "write", "send"}
      BY <1>1 DEF Inv, TypeOK
    <2>2. flock' \in [Files -> SUBSET Processes] /\ late' \in [Processes -> Nat]
      BY <1>1 DEF Inv, TypeOK
    <2>3. opened' \in [Processes -> 0..MaxFiles] /\ current' \in [Processes -> SUBSET Commands]
      BY <1>1, BoundsAssumption DEF Inv, TypeOK
    <2>4. memory' \in [Processes -> SUBSET Commands]
      BY <1>1 DEF Inv, TypeOK
    <2> QED
      BY <1>1, <2>1, <2>2, <2>3, <2>4 DEF Inv, TypeOK
  <1>3. Locked'
    BY <1>1, BoundsAssumption DEF Inv, TypeOK, Locked, Leased, Files
  <1>4. Known' /\ Belated'
    BY <1>1 DEF Inv, TypeOK, Known, Belated, Untouched, Working
  <1> QED
    BY <1>2, <1>3, <1>4 DEF Inv

\* The steps under the lease: a process with a lease on the untouched file is
\* alone, and what it writes contains all that was ever sent.
LEMMA JournalKeepsInv ==
  ASSUME Inv, NEW p \in Processes,
         Load(p) \/ (\E c \in Commands : Choose(p, c)) \/ Save(p) \/ Write(p) \/ Request(p)
  PROVE  Inv'
  <1>1. /\ UNCHANGED <<path, made, flock, opened, deaths>>
        /\ Leased(p)
        /\ \E label \in {"idle", "save", "write", "send"} : pc' = [pc EXCEPT ![p] = label]
    BY DEF Load, Choose, Save, Write, Request, Goto, lock, Leased
  <1>2. Locked'
    BY <1>1 DEF Inv, TypeOK, Locked, Leased
  <1>3. \A q \in Processes : Untouched /\ q # p => pc[q] \in {"off", "lock"}
    BY <1>1, OneLease DEF Inv, Leased
  <1>4. CASE Load(p)
    <2>1. TypeOK'
      BY <1>4 DEF Load, Goto, lock, Inv, TypeOK
    <2>2. Known'
      BY <1>3, <1>4 DEF Load, Goto, lock, Inv, TypeOK, Known, Untouched, Working
    <2>3. Belated'
      BY <1>4 DEF Load, Goto, lock, Inv, TypeOK, Belated, Held
    <2> QED
      BY <1>2, <2>1, <2>2, <2>3 DEF Inv
  <1>5. ASSUME NEW c \in Commands, Choose(p, c) PROVE Inv'
    <2>1. TypeOK'
      BY <1>5 DEF Choose, Goto, lock, Inv, TypeOK
    <2>2. Known'
      BY <1>3, <1>5 DEF Choose, Goto, lock, Inv, TypeOK, Known, Untouched, Working
    <2>3. Belated'
      BY <1>5 DEF Choose, Goto, lock, Inv, TypeOK, Belated, Held
    <2> QED
      BY <1>2, <2>1, <2>2, <2>3 DEF Inv
  <1>6. CASE Save(p)
    <2>1. TypeOK'
      BY <1>6 DEF Save, Goto, lock, Inv, TypeOK
    <2>2. Known'
      BY <1>3, <1>6 DEF Save, Goto, lock, Inv, TypeOK, Known, Untouched, Working
    <2>3. Belated'
      BY <1>6 DEF Save, Goto, lock, Inv, TypeOK, Belated, Held, Leased
    <2> QED
      BY <1>2, <2>1, <2>2, <2>3 DEF Inv
  <1>7. CASE Write(p)
    <2>1. TypeOK'
      BY <1>7 DEF Write, Goto, lock, Inv, TypeOK
    <2>2. Known'
      BY <1>3, <1>7 DEF Write, Goto, lock, Inv, TypeOK, Known, Untouched, Working
    <2>3. Belated'
      BY <1>7 DEF Write, Goto, lock, Inv, TypeOK, Belated
    <2> QED
      BY <1>2, <2>1, <2>2, <2>3 DEF Inv
  <1>8. CASE Request(p)
    <2>1. TypeOK'
      BY <1>8 DEF Request, Goto, lock, Inv, TypeOK
    <2>2. Known'
      BY <1>3, <1>8 DEF Request, Goto, lock, Inv, TypeOK, Known, Untouched, Working
    <2>3. Belated'
      BY <1>8 DEF Request, Goto, lock, Inv, TypeOK, Belated
    <2> QED
      BY <1>2, <2>1, <2>2, <2>3 DEF Inv
  <1> QED
    BY <1>4, <1>5, <1>6, <1>7, <1>8

LEMMA RemoveKeepsInv == Inv /\ Remove => Inv'
  <1> SUFFICES ASSUME Inv, Remove PROVE Inv'
    OBVIOUS
  <1>1. TypeOK' /\ Locked'
    BY BoundsAssumption DEF Remove, Inv, TypeOK, Locked, Leased, Files
  <1>2. Known'
    BY DEF Remove, Known, Untouched
  <1>3. Belated'
    <2> SUFFICES ASSUME NEW p \in Processes, late[p] # 0 PROVE path' # opened[p]
      BY DEF Remove, Inv, Belated
    <2>1. opened[p] \in Files
      BY DEF Inv, Locked, Belated
    <2> QED
      BY <2>1 DEF Remove, Files
  <1> QED
    BY <1>1, <1>2, <1>3 DEF Inv

\* The invariant is inductive.
LEMMA StepInv == Inv /\ [Next]_vars => Inv'
  <1> SUFFICES ASSUME Inv, [Next]_vars PROVE Inv'
    OBVIOUS
  <1>1. CASE UNCHANGED vars
    BY <1>1 DEF vars, Inv, TypeOK, Locked, Known, Belated, Untouched, Working, Leased
  <1>2. ASSUME NEW p \in Processes, LockRefused(p) \/ Close(p) \/ Die(p) PROVE Inv'
    <2>1. Gone(p) /\ pc[p] # "off" /\ deaths' \in 0..MaxDeaths
      BY <1>2, BoundsAssumption DEF LockRefused, Close, Die, Inv, TypeOK
    <2> QED
      BY <2>1, GoneKeepsInv
  <1>3. CASE Next
    BY <1>2, <1>3, OpenKeepsInv, LockKeepsInv, JournalKeepsInv, RemoveKeepsInv DEF Next
  <1> QED
    BY <1>1, <1>3

LEMMA Invariance == Spec => []Inv
  BY InitInv, StepInv, PTL DEF Spec

--------------------------------------------------------------------------------
(* The lease and the journals implement TradingAuthority.                  *)

Owner == {p \in Processes : Held(p)}

\* One command at a time is on its way, and while the lock file is left alone a
\* process with a lease remembers it and what is on record, and nothing else.
Tidy ==
  /\ \A p \in Processes : current[p] = {} \/ \E c \in Commands : current[p] = {c}
  /\ Untouched =>
       \A p \in Processes : /\ Working(p) => memory[p] = journal \cup current[p]
                            /\ pc[p] = "send" => current[p] # {}

AuthorityInv == Inv /\ Tidy

AuthorityStep == [Authority!Next]_(Authority!vars)

\* Nobody has authority over a path that names no file, and two processes never.
LEMMA OwnerFacts ==
  ASSUME Inv
  PROVE  /\ path = 0 => Owner = {}
         /\ \A p \in Processes : p \in Owner => Owner = {p}
         /\ \A p \in Processes : Untouched /\ Leased(p) => p \in Owner
  <1>1. path = 0 => Owner = {}
    BY DEF Inv, Locked, Held, Leased, Owner, Files
  <1>2. ASSUME NEW p \in Processes, NEW q \in Processes, Held(p), Held(q) PROVE p = q
    <2>1. flock[path] = {p} /\ flock[path] = {q}
      BY <1>2 DEF Inv, Locked, Held
    <2> QED
      BY <2>1
  <1>3. \A p \in Processes : p \in Owner => Owner = {p}
    BY <1>2 DEF Owner
  <1>4. \A p \in Processes : Untouched /\ Leased(p) => p \in Owner
    BY OneLease DEF Inv, Owner
  <1> QED
    BY <1>1, <1>3, <1>4

\* What the mapping shows of a step.
LEMMA Shown ==
  /\ Owner' = Owner /\ Untouched' = Untouched /\ journal' = journal /\ sent' = sent
       => AuthorityStep
  /\ \A p \in Processes : Owner = {} /\ Owner' = {p} /\ Untouched' = Untouched
                            /\ journal' = journal /\ sent' = sent => AuthorityStep
  /\ Owner' = {} /\ Untouched' \in {Untouched, FALSE} /\ journal' = journal /\ sent' = sent
       => AuthorityStep
  <1> USE DEF AuthorityStep, Owner, Untouched
  <1>1. Owner' = Owner /\ Untouched' = Untouched /\ journal' = journal /\ sent' = sent
          => AuthorityStep
    BY DEF Authority!vars
  <1>2. ASSUME NEW p \in Processes, Owner = {}, Owner' = {p}, Untouched' = Untouched,
               journal' = journal, sent' = sent
        PROVE  AuthorityStep
    BY <1>2 DEF Authority!Next, Authority!Take
  <1>3. ASSUME Owner' = {}, Untouched' = Untouched, journal' = journal, sent' = sent
        PROVE  AuthorityStep
    BY <1>3 DEF Authority!Next, Authority!Leave
  <1>4. ASSUME Owner' = {}, Untouched' = FALSE, journal' = journal, sent' = sent
        PROVE  AuthorityStep
    BY <1>4 DEF Authority!Next, Authority!Touch
  <1> QED
    BY <1>1, <1>2, <1>3, <1>4

\* The steps of the lease: authority is taken, given back or lost with the path.
LEMMA LeaseSteps ==
  ASSUME Inv, Inv', NEW p \in Processes, Open(p) \/ Lock(p) \/ Gone(p)
  PROVE  AuthorityStep
  <1>1. journal' = journal /\ sent' = sent
    BY DEF Open, Lock, Gone
  <1>2. CASE Open(p)
    <2>1. /\ pc[p] = "off" /\ pc' = [pc EXCEPT ![p] = "lock"]
          /\ opened' = [opened EXCEPT ![p] = path']
          /\ path # 0 => path' = path /\ made' = made
          /\ path = 0 => made' = made + 1 /\ path' = made'
      BY <1>2 DEF Open, Goto
    <2>2. \A q \in Processes : Held(q)' <=> Leased(q) /\ path' = opened[q]
      BY <2>1 DEF Inv, TypeOK, Held, Leased
    <2>3. CASE path # 0
      <3>1. Owner' = Owner
        BY <2>1, <2>2, <2>3 DEF Owner, Held
      <3> QED
        BY <1>1, <2>1, <2>3, <3>1, Shown DEF Untouched
    <2>4. CASE path = 0
      <3>1. made \in Nat /\ made >= 1 /\ \A q \in Processes : opened[q] <= made
        BY DEF Inv, TypeOK, Locked, Files
      <3>2. made' = made + 1 /\ path' = made + 1
        BY <2>1, <2>4
      <3>3. \A q \in Processes : opened[q] \in Nat
        BY BoundsAssumption DEF Inv, TypeOK
      <3>4. Owner' = {}
        BY <2>2, <3>1, <3>2, <3>3 DEF Owner
      <3>5. Owner = {}
        BY <2>4, OwnerFacts
      <3>6. Untouched' = FALSE /\ Untouched = FALSE
        BY <2>4, <3>1, <3>2 DEF Untouched
      <3> QED
        BY <1>1, <3>4, <3>5, <3>6, Shown
    <2> QED
      BY <2>3, <2>4
  <1>3. CASE Lock(p)
    <2>1. /\ pc[p] = "lock" /\ pc' = [pc EXCEPT ![p] = "load"]
          /\ flock[opened[p]] = {}
          /\ UNCHANGED <<path, made, opened>>
      BY <1>3 DEF Lock, Goto
    <2>2. \A q \in Processes : Held(q)' <=> IF q = p THEN path = opened[p] ELSE Held(q)
      BY <2>1 DEF Inv, TypeOK, Held, Leased
    <2>3. ~Held(p)
      BY <2>1 DEF Held, Leased
    <2>4. Untouched' = Untouched
      BY <2>1 DEF Untouched
    <2>5. CASE path = opened[p]
      <3>1. \A q \in Processes : ~Held(q)
        <4> SUFFICES ASSUME NEW q \in Processes, Held(q) PROVE FALSE
          OBVIOUS
        <4>1. flock[opened[q]] = {q} /\ opened[q] = opened[p]
          BY <2>5 DEF Inv, Locked, Held
        <4> QED
          BY <2>1, <4>1
      <3>2. Owner = {} /\ Owner' = {p}
        BY <2>2, <2>5, <3>1 DEF Owner
      <3> QED
        BY <1>1, <2>4, <3>2, Shown
    <2>6. CASE path # opened[p]
      <3>1. Owner' = Owner
        BY <2>2, <2>3, <2>6 DEF Owner
      <3> QED
        BY <1>1, <2>4, <3>1, Shown
    <2> QED
      BY <2>5, <2>6
  <1>4. CASE Gone(p)
    <2>1. /\ pc' = [pc EXCEPT ![p] = "off"] /\ opened' = [opened EXCEPT ![p] = 0]
          /\ UNCHANGED <<path, made>>
      BY <1>4 DEF Gone, Goto
    <2>2. \A q \in Processes : Held(q)' <=> q # p /\ Held(q)
      BY <2>1 DEF Inv, TypeOK, Held, Leased
    <2>3. Untouched' = Untouched
      BY <2>1 DEF Untouched
    <2>4. CASE p \in Owner
      <3>1. Owner' = {}
        <4>1. \A q \in Processes : Held(q) => q = p
          BY <2>4, OwnerFacts DEF Owner
        <4> QED
          BY <2>2, <4>1 DEF Owner
      <3> QED
        BY <1>1, <2>3, <3>1, Shown
    <2>5. CASE p \notin Owner
      <3>1. Owner' = Owner
        BY <2>2, <2>5 DEF Owner
      <3> QED
        BY <1>1, <2>3, <3>1, Shown
    <2> QED
      BY <2>4, <2>5
  <1> QED
    BY <1>2, <1>3, <1>4

\* A journal that is replaced gains the one command that is about to be sent.
LEMMA WriteStep ==
  ASSUME AuthorityInv, NEW p \in Processes, Write(p)
  PROVE  AuthorityStep
  <1>1. /\ pc[p] = "write" /\ journal' = memory[p]
        /\ UNCHANGED <<path, made, flock, opened, memory, current, sent>>
        /\ pc' = [pc EXCEPT ![p] = IF current[p] = {} THEN "idle" ELSE "send"]
    BY DEF Write, Goto, lock
  <1>2. Owner' = Owner /\ Untouched' = Untouched
    BY <1>1 DEF AuthorityInv, Inv, TypeOK, Owner, Held, Leased, Untouched
  <1>3. CASE ~Untouched
    <2>1. memory[p] \in SUBSET Commands
      BY DEF AuthorityInv, Inv, TypeOK
    <2>2. Authority!Overwrite
      BY <1>1, <1>2, <1>3, <2>1 DEF Authority!Overwrite, Owner, Untouched
    <2> QED
      BY <2>2 DEF AuthorityStep, Authority!Next
  <1>4. CASE Untouched
    <2>1. journal' = journal \cup current[p]
      BY <1>1, <1>4 DEF AuthorityInv, Tidy, Working
    <2>2. CASE current[p] = {}
      <3>1. journal' = journal
        BY <2>1, <2>2
      <3> QED
        BY <1>1, <1>2, <3>1, Shown
    <2>3. CASE \E c \in Commands : current[p] = {c}
      <3>1. PICK c \in Commands : current[p] = {c}
        BY <2>3
      <3>2. c \notin journal
        BY <1>1, <1>4, <3>1 DEF AuthorityInv, Inv, Known
      <3>3. p \in Owner
        BY <1>1, <1>4, OwnerFacts DEF AuthorityInv, Leased
      <3>4. Authority!Record(c)
        BY <1>1, <1>2, <1>4, <2>1, <3>1, <3>2, <3>3 DEF Authority!Record, Owner, Untouched
      <3> QED
        BY <3>4 DEF AuthorityStep, Authority!Next
    <2> QED
      BY <2>2, <2>3 DEF AuthorityInv, Tidy
  <1> QED
    BY <1>3, <1>4

\* A request is of the command that was recorded last.
LEMMA RequestStep ==
  ASSUME AuthorityInv, NEW p \in Processes, Request(p)
  PROVE  AuthorityStep
  <1>1. /\ pc[p] = "send" /\ sent' = sent \cup current[p]
        /\ UNCHANGED <<path, made, flock, opened, memory, journal>>
        /\ pc' = [pc EXCEPT ![p] = "save"]
    BY DEF Request, Goto, lock
  <1>2. Owner' = Owner /\ Untouched' = Untouched
    BY <1>1 DEF AuthorityInv, Inv, TypeOK, Owner, Held, Leased, Untouched
  <1>3. CASE current[p] = {}
    <2>1. sent' = sent
      BY <1>1, <1>3
    <2> QED
      BY <1>1, <1>2, <2>1, Shown
  <1>4. CASE \E c \in Commands : current[p] = {c}
    <2>1. PICK c \in Commands : current[p] = {c}
      BY <1>4
    <2>2. CASE ~Untouched
      <3>1. Authority!SendAnyhow(c)
        BY <1>1, <1>2, <2>1, <2>2 DEF Authority!SendAnyhow, Owner, Untouched
      <3> QED
        BY <3>1 DEF AuthorityStep, Authority!Next
    <2>3. CASE Untouched
      <3>1. c \in journal /\ c \notin sent
        BY <1>1, <2>1, <2>3 DEF AuthorityInv, Inv, Known
      <3>2. p \in Owner
        BY <1>1, <2>3, OwnerFacts DEF AuthorityInv, Leased
      <3>3. Authority!Send(c)
        BY <1>1, <1>2, <2>1, <2>3, <3>1, <3>2 DEF Authority!Send, Owner, Untouched
      <3> QED
        BY <3>3 DEF AuthorityStep, Authority!Next
    <2> QED
      BY <2>2, <2>3
  <1> QED
    BY <1>3, <1>4 DEF AuthorityInv, Tidy

\* The tidiness of a process is its own, except where the journal is written.
LEMMA TidyKeeps == ASSUME AuthorityInv, [Next]_vars PROVE Tidy'
  <1>0. /\ TypeOK /\ Locked /\ Tidy
        /\ \A p, q \in Processes : Untouched /\ Leased(p) /\ Leased(q) => p = q /\ Held(p)
    BY OneLease DEF AuthorityInv, Inv
  <1>1. CASE UNCHANGED vars
    BY <1>0, <1>1 DEF vars, Tidy, Untouched, Working
  <1>2. ASSUME NEW p \in Processes, Open(p) \/ Lock(p) PROVE Tidy'
    <2>1. /\ pc' \in {[pc EXCEPT ![p] = "lock"], [pc EXCEPT ![p] = "load"]}
          /\ UNCHANGED <<journal, memory, current>>
          /\ Untouched' => Untouched
      BY <1>0, <1>2, BoundsAssumption DEF Open, Lock, Goto, Untouched, TypeOK, Files
    <2> QED
      BY <1>0, <2>1 DEF Tidy, TypeOK, Working
  <1>3. ASSUME NEW p \in Processes, Gone(p) PROVE Tidy'
    <2>1. /\ memory' = [memory EXCEPT ![p] = {}] /\ current' = [current EXCEPT ![p] = {}]
          /\ pc' = [pc EXCEPT ![p] = "off"]
          /\ UNCHANGED <<path, made, journal>>
      BY <1>3 DEF Gone, Goto
    <2> QED
      BY <1>0, <2>1 DEF Tidy, TypeOK, Working, Untouched
  <1>4. ASSUME NEW p \in Processes,
               Load(p) \/ (\E c \in Commands : Choose(p, c)) \/ Save(p) \/ Write(p)
                 \/ Request(p)
        PROVE  Tidy'
    <2>1. /\ UNCHANGED <<path, made, flock, opened>> /\ Leased(p)
          /\ \A q \in Processes \ {p} : Untouched => pc[q] \in {"off", "lock"}
      BY <1>0, <1>4 DEF Load, Choose, Save, Write, Request, lock, Leased
    <2>2. Untouched' = Untouched
      BY <2>1 DEF Untouched
    <2>3. CASE Load(p)
      BY <1>0, <2>1, <2>2, <2>3 DEF Load, Goto, lock, Tidy, TypeOK, Working
    <2>4. ASSUME NEW c \in Commands, Choose(p, c) PROVE Tidy'
      BY <1>0, <2>1, <2>2, <2>4 DEF Choose, Goto, lock, Tidy, TypeOK, Working
    <2>5. CASE Save(p)
      <3>1. /\ UNCHANGED <<journal, memory>>
            /\ \/ Held(p) /\ pc' = [pc EXCEPT ![p] = "write"] /\ current' = current
               \/ /\ ~Held(p) /\ pc' = [pc EXCEPT ![p] = "idle"]
                  /\ current' = [current EXCEPT ![p] = {}]
        BY <2>5 DEF Save, Goto, lock
      <3>2. Untouched => Held(p)
        BY <1>0, <2>1
      <3>3. pc[p] = "save"
        BY <2>5 DEF Save
      <3>4. CASE Held(p)
        <4>1. /\ UNCHANGED <<journal, memory, current>>
              /\ pc' = [pc EXCEPT ![p] = "write"]
          BY <3>1, <3>4
        <4> QED
          BY <1>0, <2>2, <3>3, <4>1 DEF Tidy, TypeOK, Working
      <3>5. CASE ~Held(p)
        <4>1. ~Untouched'
          BY <2>2, <3>2, <3>5
        <4>2. current' = [current EXCEPT ![p] = {}]
          BY <3>1, <3>5
        <4>3. \A q \in Processes : current'[q] = {} \/ \E c \in Commands : current'[q] = {c}
          BY <1>0, <4>2 DEF Tidy, TypeOK
        <4> QED
          BY <4>1, <4>3 DEF Tidy
      <3> QED
        BY <3>4, <3>5
    <2>6. CASE Write(p)
      <3>1. /\ pc[p] = "write" /\ journal' = memory[p] /\ UNCHANGED <<memory, current>>
            /\ pc' = [pc EXCEPT ![p] = IF current[p] = {} THEN "idle" ELSE "send"]
        BY <2>6 DEF Write, Goto, lock
      <3>2. \A q \in Processes : current'[q] = {} \/ \E c \in Commands : current'[q] = {c}
        BY <1>0, <3>1 DEF Tidy
      <3>3. ASSUME Untouched, NEW q \in Processes
            PROVE  /\ Working(q)' => memory'[q] = journal' \cup current'[q]
                   /\ pc'[q] = "send" => current'[q] # {}
        <4>1. CASE q = p
          <5>1. memory[p] = journal \cup current[p]
            BY <1>0, <3>1, <3>3 DEF Tidy, Working
          <5>2. pc'[p] = "send" => current[p] # {}
            BY <1>0, <3>1 DEF TypeOK
          <5> QED
            BY <3>1, <4>1, <5>1, <5>2
        <4>2. CASE q # p
          BY <1>0, <2>1, <3>1, <3>3, <4>2 DEF TypeOK, Working
        <4> QED
          BY <4>1, <4>2
      <3> QED
        BY <2>2, <3>2, <3>3 DEF Tidy
    <2>7. CASE Request(p)
      <3>1. /\ pc[p] = "send" /\ UNCHANGED <<journal, memory>>
            /\ current' = [current EXCEPT ![p] = {}] /\ pc' = [pc EXCEPT ![p] = "save"]
        BY <2>7 DEF Request, Goto, lock
      <3>2. \A q \in Processes : current'[q] = {} \/ \E c \in Commands : current'[q] = {c}
        BY <1>0, <3>1 DEF Tidy, TypeOK
      <3>3. ASSUME Untouched, NEW q \in Processes
            PROVE  /\ Working(q)' => memory'[q] = journal' \cup current'[q]
                   /\ pc'[q] = "send" => current'[q] # {}
        <4>1. CASE q = p
          <5>1. memory[p] = journal \cup current[p] /\ current[p] \subseteq journal
            BY <1>0, <3>1, <3>3 DEF Tidy, Working, AuthorityInv, Inv, Known
          <5>2. memory[p] = journal \cup {} /\ current'[p] = {} /\ pc'[p] = "save"
            BY <1>0, <3>1, <5>1 DEF TypeOK
          <5> QED
            BY <3>1, <4>1, <5>2
        <4>2. CASE q # p
          BY <1>0, <2>1, <3>1, <3>3, <4>2 DEF TypeOK, Working
        <4> QED
          BY <4>1, <4>2
      <3> QED
        BY <2>2, <3>2, <3>3 DEF Tidy
    <2> QED
      BY <1>4, <2>3, <2>4, <2>5, <2>6, <2>7
  <1>5. CASE Remove
    BY <1>0, <1>5 DEF Remove, Tidy, Untouched
  <1> QED
    BY <1>1, <1>2, <1>3, <1>4, <1>5 DEF Next, LockRefused, Close, Die

\* Every step is a step of TradingAuthority, or shows nothing there.
LEMMA AuthoritySteps == ASSUME AuthorityInv, Inv', [Next]_vars PROVE AuthorityStep
  <1>0. Inv
    BY DEF AuthorityInv
  <1>1. ASSUME NEW p \in Processes,
               Load(p) \/ (\E c \in Commands : Choose(p, c)) \/ Save(p)
        PROVE  AuthorityStep
    <2>1. /\ UNCHANGED <<path, made, opened, journal, sent>> /\ Leased(p)
          /\ \E label \in {"idle", "save", "write"} : pc' = [pc EXCEPT ![p] = label]
      BY <1>1 DEF Load, Choose, Save, Goto, lock, Leased
    <2>2. Owner' = Owner /\ Untouched' = Untouched
      BY <1>0, <2>1 DEF Inv, TypeOK, Owner, Held, Leased, Untouched
    <2> QED
      BY <2>1, <2>2, Shown
  <1>2. CASE Remove
    <2>1. path' = 0 /\ journal' = journal /\ sent' = sent
      BY <1>2 DEF Remove
    <2>2. Owner' = {}
      BY <2>1, OwnerFacts DEF Inv, Locked, Held, Leased, Owner, Files
    <2>3. Untouched' = FALSE
      BY <2>1 DEF Untouched
    <2> QED
      BY <2>1, <2>2, <2>3, Shown
  <1>3. CASE UNCHANGED vars
    <2>1. Owner' = Owner /\ Untouched' = Untouched /\ journal' = journal /\ sent' = sent
      BY <1>3 DEF vars, Owner, Held, Leased, Untouched
    <2> QED
      BY <2>1, Shown
  <1>4. CASE Next
    BY <1>0, <1>1, <1>2, <1>4, LeaseSteps, WriteStep, RequestStep
    DEF Next, LockRefused, Close, Die
  <1> QED
    BY <1>3, <1>4

--------------------------------------------------------------------------------

\* Types, for any number of processes and files.
THEOREM TypeCorrect == Spec => []TypeOK
  <1>1. Inv => TypeOK
    BY DEF Inv
  <1> QED
    BY <1>1, Invariance, PTL

\* Mutual exclusion of the processes that pass assert_held.
THEOREM OneWriter == Spec => []OneAuthority
  <1>1. Inv => OneAuthority
    <2> SUFFICES ASSUME Inv, NEW p \in Processes, NEW q \in Processes, Held(p), Held(q)
                 PROVE  p = q
      BY DEF OneAuthority
    <2>1. flock[path] = {p} /\ flock[path] = {q}
      BY DEF Inv, Locked, Held
    <2> QED
      BY <2>1
  <1> QED
    BY <1>1, Invariance, PTL

\* A crash or a handover at any step leads to no second request of a command.
THEOREM HandoverIsSafe == Spec => []HandoverResendsNothing
  <1>1. Inv => HandoverResendsNothing
    BY DEF Inv, Known, Untouched, HandoverResendsNothing
  <1> QED
    BY <1>1, Invariance, PTL

\* No process ever writes a journal that lacks a record of another.
THEOREM RecordsSurvive == Spec => []NoRecordLost
  <1>1. Inv => NoRecordLost
    BY DEF Inv, Known, Untouched, Working, NoRecordLost
  <1> QED
    BY <1>1, Invariance, PTL

\* The assertion before each save bounds what a superseded writer can do.
THEOREM SupersededWriterStops == Spec => []LateAtMostOnce
  <1>1. Inv => LateAtMostOnce
    BY DEF Inv, Belated, LateAtMostOnce
  <1> QED
    BY <1>1, Invariance, PTL

\* The lease and the journals implement TradingAuthority: for any number of processes,
\* deaths and lock files one process at a time has authority, and while the lock file
\* is left alone each command is recorded once and then sent once.
THEOREM LeaseImplementsAuthority == Spec => ImplementsAuthority
  <1>1. Init => AuthorityInv /\ Authority!Init
    <2> SUFFICES ASSUME Init PROVE AuthorityInv /\ Authority!Init
      OBVIOUS
    <2>1. Inv
      BY InitInv
    <2>2. Tidy
      BY DEF Init, Tidy, Working
    <2>3. Authority!Init
      BY DEF Init, Authority!Init, Held, Leased
    <2> QED
      BY <2>1, <2>2, <2>3 DEF AuthorityInv
  <1>2. AuthorityInv /\ [Next]_vars => AuthorityInv' /\ [Authority!Next]_(Authority!vars)
    BY StepInv, TidyKeeps, AuthoritySteps DEF AuthorityInv, AuthorityStep
  <1> QED
    BY <1>1, <1>2, PTL DEF Spec, ImplementsAuthority, Authority!Spec

================================================================================
