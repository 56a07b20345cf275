------------------------------ MODULE JobService ------------------------------
(***************************************************************************)
(* What the job threads promise, without threads, locks and chains: each   *)
(* job file's commands take effect in the order of the file, each exactly  *)
(* once and each at one moment, on a map from keys to values.              *)
(***************************************************************************)
EXTENDS Naturals, Sequences, FiniteSets, SequencesExt

CONSTANTS
  Keys, Missing,
  JobFiles,
  Program,    \* the commands of each job file
  Stem,       \* the name of each job file up to its first dot
  NoBackup    \* a backup file that was not made

VARIABLES
  map,        \* the store
  done,       \* how many commands of each job file have been executed
  out,        \* the lines of each job's .out file
  backups     \* what each backup file holds

vars == <<map, done, out, backups>>

\* The names of backup files: <stem>-<n>.bck.
Names ==
  {Stem[f] : f \in JobFiles}
    \X UNION {1 .. Cardinality({i \in DOMAIN Program[f] : Program[f][i].op = "backup"})
               : f \in JobFiles}

Init ==
  /\ map = [k \in Keys |-> Missing]
  /\ done = [f \in JobFiles |-> 0]
  /\ out = [f \in JobFiles |-> <<>>]
  /\ backups = [n \in Names |-> NoBackup]

Current(f) == Program[f][done[f] + 1]

\* The next command of f is op, and it is executed.
Executes(f, op) ==
  /\ done[f] < Len(Program[f]) /\ Current(f).op = op
  /\ done' = [done EXCEPT ![f] = @ + 1]

\* A batch counts as one change: of two pairs with the same key the later holds.
Overwritten(batch) ==
  [k \in Keys |-> LET i == SelectLastInSeq(batch, LAMBDA pair : pair[1] = k)
                  IN IF i = 0 THEN map[k] ELSE batch[i][2]]

Write(f) ==
  /\ Executes(f, "write")
  /\ map' = Overwritten(Current(f).batch)
  /\ UNCHANGED <<out, backups>>

\* The keys that could not be deleted make a line, if there are any.
Delete(f) ==
  /\ Executes(f, "delete")
  /\ LET ks == Current(f).batch
         Lost == {i \in DOMAIN ks :
                    map[ks[i]] = Missing \/ \E j \in 1 .. i - 1 : ks[j] = ks[i]}
     IN /\ map' = [k \in Keys |-> IF k \in ToSet(ks) THEN Missing ELSE map[k]]
        /\ \E lost \in SetToSeqs(Lost) :
             /\ \A i, j \in DOMAIN lost : i < j => lost[i] < lost[j]
             /\ out' = IF lost = <<>> THEN out
                       ELSE [out EXCEPT ![f] =
                               Append(@, [i \in DOMAIN lost |-> <<ks[lost[i]], Missing>>])]
  /\ UNCHANGED backups

Read(f) ==
  /\ Executes(f, "read")
  /\ LET ks == Current(f).batch
     IN out' = [out EXCEPT ![f] = Append(@, [i \in DOMAIN ks |-> <<ks[i], map[ks[i]]>>])]
  /\ UNCHANGED <<map, backups>>

\* A listing of the store has each pair once, in some order.
Listings ==
  SetToSeqs({<<k, map[k]>> : k \in {l \in Keys : map[l] # Missing}})

Show(f) ==
  /\ Executes(f, "show")
  /\ \E listing \in Listings : out' = [out EXCEPT ![f] = Append(@, listing)]
  /\ UNCHANGED <<map, backups>>

\* The n-th BACKUP of a file makes the file <stem>-<n>.bck; the fork may fail.
Backup(f) ==
  /\ Executes(f, "backup")
  /\ LET n == Cardinality({i \in 1 .. done[f] + 1 : Program[f][i].op = "backup"})
     IN backups' \in {backups, [backups EXCEPT ![<<Stem[f], n>>] = map]}
  /\ UNCHANGED <<map, out>>

\* WAIT, HELP, an empty or an invalid line.
Other(f) == Executes(f, "other") /\ UNCHANGED <<map, out, backups>>

Next ==
  \E f \in JobFiles : Write(f) \/ Delete(f) \/ Read(f) \/ Show(f) \/ Backup(f) \/ Other(f)

Spec == Init /\ [][Next]_vars
=============================================================================
