----------------------------- MODULE MCWriterLease -----------------------------
(* Instances of WriterLease for TLC: processes and commands are alike.     *)
EXTENDS WriterLease, TLC

Alike == Permutations(Processes) \cup Permutations(Commands)

================================================================================
