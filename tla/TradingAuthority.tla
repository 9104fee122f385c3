---------------------------- MODULE TradingAuthority ----------------------------
(***************************************************************************)
(* What the lease and the journals promise together about the processes    *)
(* that may trade for one account, without lock files, descriptors or      *)
(* copies in memory: one process at a time has authority, a command is     *)
(* recorded once before it is sent once, and all of this outlives every    *)
(* process for as long as nobody touches the lock file.  Afterwards there  *)
(* is still at most one process with authority, and nothing is taken back, *)
(* but records may be lost and commands sent again.                        *)
(***************************************************************************)

CONSTANTS
  Processes,   \* releases and restarts that share the account
  Commands     \* keys of the journal

VARIABLES
  owner,     \* the process with authority, {} if none has it
  intact,    \* nobody has touched the lock file
  recorded,  \* commands on record
  sent       \* commands sent to the exchange

vars == <<owner, intact, recorded, sent>>

Init ==
  /\ owner = {}
  /\ intact = TRUE
  /\ recorded = {}
  /\ sent = {}

Take(p) ==
  /\ owner = {}
  /\ owner' = {p}
  /\ UNCHANGED <<intact, recorded, sent>>

Leave ==
  /\ owner' = {}
  /\ UNCHANGED <<intact, recorded, sent>>

Record(c) ==
  /\ intact
  /\ owner # {}
  /\ c \notin recorded
  /\ recorded' = recorded \cup {c}
  /\ UNCHANGED <<owner, intact, sent>>

Send(c) ==
  /\ intact
  /\ owner # {}
  /\ c \in recorded \ sent
  /\ sent' = sent \cup {c}
  /\ UNCHANGED <<owner, intact, recorded>>

\* The lock file is removed: nobody has authority until a new one is made.
Touch ==
  /\ intact' = FALSE
  /\ owner' = {}
  /\ UNCHANGED <<recorded, sent>>

\* Another process may have read the journal before the last record was written.
Overwrite ==
  /\ ~intact
  /\ recorded' \in SUBSET Commands
  /\ UNCHANGED <<owner, intact, sent>>

\* A process that lost its authority may finish its last command.
SendAnyhow(c) ==
  /\ ~intact
  /\ sent' = sent \cup {c}
  /\ UNCHANGED <<owner, intact, recorded>>

Next ==
  \/ \E p \in Processes : Take(p)
  \/ \E c \in Commands : Record(c) \/ Send(c) \/ SendAnyhow(c)
  \/ Leave \/ Touch \/ Overwrite

Spec == Init /\ [][Next]_vars

================================================================================
