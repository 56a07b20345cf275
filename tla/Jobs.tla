-------------------------------- MODULE Jobs --------------------------------
(***************************************************************************)
(* The job threads (get_file and run_job in main.c) on the store           *)
(* (operations.c, kvs.c).  A thread takes the next .job file from the      *)
(* directory stream they share, runs its commands one after the other and  *)
(* comes back for another file.  A command holds tablelock from its first  *)
(* to its last key: shared for READ, SHOW and the fork of BACKUP,          *)
(* exclusive for WRITE and DELETE.                                         *)
(*                                                                         *)
(* One action is one call of readdir, or one key of a command, or one      *)
(* chain of SHOW.  The limit on backups is in Backups, the notifications   *)
(* about changes are in Broker.                                            *)
(***************************************************************************)
EXTENDS KvsTable

CONSTANTS
  Threads, NoThread,
  Directory,     \* its entries, in the order in which readdir returns them
  JobFiles,      \* the entries that entry_files accepts
  Unreadable,    \* those whose open fails
  Program,       \* the commands of each job file, as parsed
  Stem,          \* strtok(name, "."): each entry's name up to its first dot
  DirBuffer,     \* entries that the directory stream reads at a time
  NoBackup       \* a backup file that was not made

\* What get_next returns, with its keys and values.
Commands ==
  [op : {"write"}, batch : Seq(Keys \X Values)]
    \cup [op : {"read", "delete"}, batch : Seq(Keys)]
    \cup [op : {"show", "backup", "other"}, batch : {<<>>}]

ASSUME ThreadAssumption    == NoThread \notin Threads
ASSUME DirectoryAssumption == Directory \in Seq(ToSet(Directory)) /\ IsInjective(Directory)
ASSUME FileAssumption      == JobFiles \subseteq ToSet(Directory) /\ Unreadable \subseteq JobFiles
ASSUME ProgramAssumption   == \A f \in JobFiles : Program[f] \in Seq(Commands)
ASSUME BufferAssumption    == DirBuffer \in Nat \ {0}
ASSUME BackupAssumption    == NoBackup \notin Seq(Node)

VARIABLES
  dirLock,   \* who holds directory_mutex
  next,      \* the entry readdir returns next
  pc,        \* where each thread is
  entry,     \* the place in the directory of the entry it works on, 0 for none
  ip,        \* its next command
  nback,     \* file_backups
  left,      \* the keys or pairs of its command that are not done, or the next chain
  line,      \* what it has written of a line of output
  table,     \* kvs_table
  writer,    \* who holds tablelock exclusively
  readers,   \* who shares it
  out,       \* the lines of each .out file
  children,  \* the children of BACKUP: the name of the file, the copy of the table
  bck,       \* the content of each backup file
  committed  \* (history) the store after the last change that was completed

dirVars == <<dirLock, next>>
jobVars == <<pc, entry, ip, nback, left, line>>
kvsVars == <<table, writer, readers, committed>>
bckVars == <<children, bck>>
vars    == <<dirVars, jobVars, kvsVars, out, bckVars>>

File(t)    == Directory[entry[t]]
Command(t) == Program[File(t)][ip[t]]

\* Thread t is about to execute a command of one of the kinds ops.
At(t, ops) == pc[t] = "get" /\ ip[t] <= Len(Program[File(t)]) /\ Command(t).op \in ops

\* The names of backup files: <stem>-<n>.bck.
BackupNames(entries) ==
  {Stem[e] : e \in entries}
    \X UNION {1 .. Cardinality({i \in DOMAIN Program[f] : Program[f][i].op = "backup"})
               : f \in JobFiles}

Names == BackupNames(ToSet(Directory))

Init ==
  /\ dirLock = NoThread /\ next = 1
  /\ pc = [t \in Threads |-> "lock"]
  /\ entry = [t \in Threads |-> 0]
  /\ ip = [t \in Threads |-> 1]
  /\ nback = [t \in Threads |-> 0]
  /\ left = [t \in Threads |-> <<>>]
  /\ line = [t \in Threads |-> <<>>]
  /\ table = EmptyTable
  /\ writer = NoThread /\ readers = {}
  /\ out = [f \in JobFiles |-> <<>>]
  /\ children = {} /\ bck = [n \in Names |-> NoBackup]
  /\ committed = Contents(EmptyTable)

-----------------------------------------------------------------------------
(* get_file: the directory.                                                *)

LockDirectory(t) ==
  /\ pc[t] = "lock" /\ dirLock = NoThread
  /\ dirLock' = t
  /\ pc' = [pc EXCEPT ![t] = "readdir"]
  /\ UNCHANGED <<next, entry, ip, nback, left, line, kvsVars, out, bckVars>>

\* Mutant: a thread that meets another entry takes it for the end.
ReadDirectory_StopsEarly(t) ==
  /\ pc[t] = "readdir"
  /\ IF next <= Len(Directory) /\ Directory[next] \in JobFiles
     THEN /\ entry' = [entry EXCEPT ![t] = next]
          /\ pc' = [pc EXCEPT ![t] = "open"]
     ELSE pc' = [pc EXCEPT ![t] = "exit"] /\ UNCHANGED entry
  /\ next' = next + 1
  /\ dirLock' = NoThread
  /\ UNCHANGED <<ip, nback, left, line, kvsVars, out, bckVars>>

\* Entries other than job files are passed over with the mutex held.
ReadDirectory(t) ==
  /\ pc[t] = "readdir"
  /\ \/ /\ next > Len(Directory)
        /\ pc' = [pc EXCEPT ![t] = "exit"]
        /\ dirLock' = NoThread
        /\ UNCHANGED <<next, entry>>
     \/ /\ next <= Len(Directory) /\ Directory[next] \in JobFiles
        /\ entry' = [entry EXCEPT ![t] = next]
        /\ next' = next + 1
        /\ pc' = [pc EXCEPT ![t] = "open"]
        /\ dirLock' = NoThread
     \/ /\ next <= Len(Directory) /\ Directory[next] \notin JobFiles
        /\ next' = next + 1
        /\ UNCHANGED <<dirLock, entry, pc>>
  /\ UNCHANGED <<ip, nback, left, line, kvsVars, out, bckVars>>

\* A file that does not open ends the thread, not only the file.
Open(t) ==
  /\ pc[t] = "open"
  /\ IF File(t) \in Unreadable
     THEN pc' = [pc EXCEPT ![t] = "exit"] /\ entry' = [entry EXCEPT ![t] = 0]
     ELSE pc' = [pc EXCEPT ![t] = "get"] /\ UNCHANGED entry
  /\ UNCHANGED <<dirVars, ip, nback, left, line, kvsVars, out, bckVars>>

\* The end of the file: run_job returns and the thread comes back.
Close(t) ==
  /\ pc[t] = "get" /\ ip[t] > Len(Program[File(t)])
  /\ pc' = [pc EXCEPT ![t] = "lock"]
  /\ entry' = [entry EXCEPT ![t] = 0]
  /\ ip' = [ip EXCEPT ![t] = 1]
  /\ nback' = [nback EXCEPT ![t] = 0]
  /\ UNCHANGED <<dirVars, left, line, kvsVars, out, bckVars>>

-----------------------------------------------------------------------------
(* The commands.                                                           *)

\* The command of t is over.
Finish(t) ==
  /\ pc' = [pc EXCEPT ![t] = "get"]
  /\ ip' = [ip EXCEPT ![t] = @ + 1]
  /\ line' = [line EXCEPT ![t] = <<>>]
  /\ left' = [left EXCEPT ![t] = <<>>]

\* WAIT, HELP, an empty or an invalid line.
Other(t) ==
  /\ At(t, {"other"})
  /\ Finish(t)
  /\ UNCHANGED <<dirVars, entry, nback, kvsVars, out, bckVars>>

\* kvs_write, kvs_delete: take tablelock.
WriteLock(t) ==
  /\ At(t, {"write", "delete"}) /\ writer = NoThread /\ readers = {}
  /\ writer' = t
  /\ pc' = [pc EXCEPT ![t] = Command(t).op]
  /\ left' = [left EXCEPT ![t] = Command(t).batch]
  /\ UNCHANGED <<dirVars, entry, ip, nback, line, table, readers, committed, out, bckVars>>

\* One pair.  The value a key has already is not written again.
WritePair(t) ==
  /\ pc[t] = "write" /\ left[t] # <<>>
  /\ LET k == Head(left[t])[1]
         v == Head(left[t])[2]
     IN table' = IF read_pair(table, k) = v THEN table ELSE write_pair(table, k, v)
  /\ left' = [left EXCEPT ![t] = Tail(@)]
  /\ UNCHANGED <<dirVars, pc, entry, ip, nback, line, writer, readers, committed, out, bckVars>>

\* One key.  A key that does not exist goes into the line of output.
DeleteKey(t) ==
  /\ pc[t] = "delete" /\ left[t] # <<>>
  /\ LET k == Head(left[t])
     IN /\ table' = delete_pair(table, k)
        /\ line' = IF read_pair(table, k) = Missing
                   THEN [line EXCEPT ![t] = Append(@, <<k, Missing>>)] ELSE line
  /\ left' = [left EXCEPT ![t] = Tail(@)]
  /\ UNCHANGED <<dirVars, pc, entry, ip, nback, writer, readers, committed, out, bckVars>>

WriteUnlock(t) ==
  /\ pc[t] \in {"write", "delete"} /\ left[t] = <<>>
  /\ writer' = NoThread
  /\ committed' = Contents(table)
  /\ out' = IF line[t] = <<>> THEN out ELSE [out EXCEPT ![File(t)] = Append(@, line[t])]
  /\ Finish(t)
  /\ UNCHANGED <<dirVars, entry, nback, table, readers, bckVars>>

\* Mutant: the lock is not taken, a batch may be under way.
ReadLock_None(t) ==
  /\ At(t, {"read", "show"})
  /\ readers' = readers \cup {t}
  /\ pc' = [pc EXCEPT ![t] = Command(t).op]
  /\ left' = [left EXCEPT ![t] = Command(t).batch]
  /\ UNCHANGED <<dirVars, entry, ip, nback, line, table, writer, committed, out, bckVars>>

\* kvs_read, kvs_show: share tablelock.  The batch of SHOW is the chains.
ReadLock(t) ==
  /\ At(t, {"read", "show"}) /\ writer = NoThread
  /\ readers' = readers \cup {t}
  /\ pc' = [pc EXCEPT ![t] = Command(t).op]
  /\ left' = [left EXCEPT ![t] =
                IF Command(t).op = "read" THEN Command(t).batch
                                          ELSE [b \in 1 .. TABLE_SIZE |-> b - 1]]
  /\ UNCHANGED <<dirVars, entry, ip, nback, line, table, writer, committed, out, bckVars>>

ReadKey(t) ==
  /\ pc[t] = "read" /\ left[t] # <<>>
  /\ line' = [line EXCEPT ![t] = Append(@, <<Head(left[t]), read_pair(table, Head(left[t]))>>)]
  /\ left' = [left EXCEPT ![t] = Tail(@)]
  /\ UNCHANGED <<dirVars, pc, entry, ip, nback, kvsVars, out, bckVars>>

ShowChain(t) ==
  /\ pc[t] = "show" /\ left[t] # <<>>
  /\ line' = [line EXCEPT ![t] = @ \o table[Head(left[t])]]
  /\ left' = [left EXCEPT ![t] = Tail(@)]
  /\ UNCHANGED <<dirVars, pc, entry, ip, nback, kvsVars, out, bckVars>>

ReadUnlock(t) ==
  /\ pc[t] \in {"read", "show"} /\ left[t] = <<>>
  /\ readers' = readers \ {t}
  /\ out' = [out EXCEPT ![File(t)] = Append(@, line[t])]
  /\ Finish(t)
  /\ UNCHANGED <<dirVars, entry, nback, table, writer, committed, bckVars>>

-----------------------------------------------------------------------------
(* BACKUP.                                                                 *)

\* entry->d_name points into the buffer of the directory stream.  Once another
\* thread's readdir has filled it anew, the bytes there are of some new entry.
Block(i) == (i - 1) \div DirBuffer

EntryNames(t) ==
  {File(t)} \cup IF Block(next - 1) = Block(entry[t]) THEN {}
                 ELSE {Directory[i] : i \in {j \in DOMAIN Directory : Block(j) = Block(next - 1)}}

\* Mutant: file_backups is not counted up.
Backup_NotCounted(t) ==
  /\ At(t, {"backup"}) /\ writer = NoThread
  /\ \/ \E e \in EntryNames(t) :
          children' = children \cup {[name |-> <<Stem[e], nback[t] + 1>>, image |-> table]}
     \/ UNCHANGED children
  /\ Finish(t)
  /\ UNCHANGED <<dirVars, entry, nback, kvsVars, out, bck>>

\* kvs_backup: the fork, with tablelock shared.  It may fail.
Backup(t) ==
  /\ At(t, {"backup"}) /\ writer = NoThread
  /\ nback' = [nback EXCEPT ![t] = @ + 1]
  /\ \/ \E e \in EntryNames(t) :
          children' = children \cup {[name |-> <<Stem[e], nback[t] + 1>>, image |-> table]}
     \/ UNCHANGED children
  /\ Finish(t)
  /\ UNCHANGED <<dirVars, entry, kvsVars, out, bck>>

\* The child writes its copy of the table and ends.  Nobody else writes to its
\* file as long as the stems of the job files differ.
ChildWrite(c) ==
  /\ c \in children
  /\ bck' = [bck EXCEPT ![c.name] = Listing(c.image)]
  /\ children' = children \ {c}
  /\ UNCHANGED <<dirVars, jobVars, kvsVars, out>>

-----------------------------------------------------------------------------
ThreadStep(t) ==
  \/ LockDirectory(t) \/ ReadDirectory(t) \/ Open(t) \/ Close(t)
  \/ Other(t) \/ WriteLock(t) \/ WritePair(t) \/ DeleteKey(t) \/ WriteUnlock(t)
  \/ ReadLock(t) \/ ReadKey(t) \/ ShowChain(t) \/ ReadUnlock(t) \/ Backup(t)

Next == (\E t \in Threads : ThreadStep(t)) \/ \E c \in children : ChildWrite(c)

Spec == Init /\ [][Next]_vars

\* Every job thread keeps running, and gets the locks that others release.
FairSpec == Spec /\ \A t \in Threads : WF_vars(ThreadStep(t))

-----------------------------------------------------------------------------
(* Correctness.                                                            *)

Left(t) == IF pc[t] = "write" THEN Seq(Keys \X Values)
           ELSE IF pc[t] = "show" THEN Seq(Buckets) ELSE Seq(Keys)
Lines == Seq(Keys \X (Values \cup {Missing}))

\* Every variable keeps its type.
TypeOK ==
  /\ dirLock \in Threads \cup {NoThread}
  /\ next \in 1 .. Len(Directory) + 1
  /\ pc \in [Threads -> {"lock", "readdir", "open", "get", "write", "delete", "read", "show", "exit"}]
  /\ entry \in [Threads -> 0 .. Len(Directory)]
  /\ ip \in [Threads -> Nat \ {0}]
  /\ nback \in [Threads -> Nat]
  /\ DOMAIN left = Threads /\ \A t \in Threads : left[t] \in Left(t)
  /\ line \in [Threads -> Lines]
  /\ table \in Table
  /\ writer \in Threads \cup {NoThread} /\ readers \in SUBSET Threads
  /\ out \in [JobFiles -> Seq(Lines)]
  /\ children \in SUBSET [name : Names, image : Table]
  /\ bck \in [Names -> Seq(Node) \cup {NoBackup}]
  /\ committed \in [Keys -> Values \cup {Missing}]

\* The chains hold each key once, in the chain its hash names: "If key already
\* exists it is updated" (operations.h:22), and a deleted key stays away.
ChainsSound == Sound(table)

-----------------------------------------------------------------------------
(* The parts of the inductive invariant.                                   *)

Working == {"write", "delete", "read", "show"}

\* An entry of the directory is with one thread at most, and was passed already.
EntriesHeld ==
  \A t \in Threads :
    /\ pc[t] = "readdir" <=> dirLock = t
    /\ entry[t] = 0 <=> pc[t] \in {"lock", "readdir", "exit"}
    /\ entry[t] # 0 => entry[t] < next /\ File(t) \in JobFiles
    /\ pc[t] \in {"get"} \cup Working => File(t) \notin Unreadable
    /\ \A u \in Threads : entry[t] # 0 /\ entry[u] = entry[t] => t = u

\* The backups among the first n commands of f.
BackupsBefore(f, n) == Cardinality({i \in 1 .. n : Program[f][i].op = "backup"})

\* A thread is at a command of its file, and file_backups counts those of BACKUP.
CommandsCounted ==
  \A t \in Threads :
    /\ IF pc[t] \in {"get"} \cup Working
       THEN /\ ip[t] <= Len(Program[File(t)]) + 1
            /\ nback[t] = BackupsBefore(File(t), ip[t] - 1)
       ELSE ip[t] = 1 /\ nback[t] = 0
    /\ IF pc[t] \in Working
       THEN ip[t] <= Len(Program[File(t)]) /\ Command(t).op = pc[t]
       ELSE left[t] = <<>> /\ line[t] = <<>>

\* tablelock is held by the threads that are at a batch.
LockHeld ==
  /\ \A t \in Threads : /\ writer = t <=> pc[t] \in {"write", "delete"}
                        /\ t \in readers <=> pc[t] \in {"read", "show"}
  /\ readers # {} => writer = NoThread
  /\ writer = NoThread => committed = Contents(table)

Batch(t) == IF pc[t] = "show" THEN [b \in 1 .. TABLE_SIZE |-> b - 1] ELSE Command(t).batch

\* How many keys, pairs or chains of its batch t is through with.
Through(t) == Len(Batch(t)) - Len(left[t])

LeftInStep ==
  \A t \in Threads : pc[t] \in Working =>
    /\ Len(left[t]) <= Len(Batch(t))
    /\ \A i \in 1 .. Len(left[t]) : left[t][i] = Batch(t)[Through(t) + i]

\* The first n pairs of a WRITE make the one map of the other: of two pairs with
\* the same key the later holds.
Written(from, to, pairs, n) ==
  \A k \in Keys :
    \/ \E i \in 1 .. n : /\ pairs[i][1] = k /\ to[k] = pairs[i][2]
                         /\ \A j \in i + 1 .. n : pairs[j][1] # k
    \/ (\A i \in 1 .. n : pairs[i][1] # k) /\ to[k] = from[k]

\* The first n keys of a DELETE, the places of those that are in its line, and the line.
Deleted(from, to, ks, n) ==
  \A k \in Keys : to[k] = IF \E i \in 1 .. n : ks[i] = k THEN Missing ELSE from[k]

Lost(from, ks, n) ==
  {i \in 1 .. n : from[ks[i]] = Missing \/ \E j \in 1 .. i - 1 : ks[j] = ks[i]}

LostInLine(from, ks, n, l) ==
  \E lost \in [1 .. Len(l) -> Lost(from, ks, n)] :
    /\ \A i, j \in DOMAIN lost : i < j => lost[i] < lost[j]
    /\ \A i \in Lost(from, ks, n) : \E j \in DOMAIN lost : lost[j] = i
    /\ \A i \in DOMAIN lost : l[i] = <<ks[lost[i]], Missing>>

\* The first n keys of a READ are in its line.
ReadInLine(from, ks, n, l) ==
  /\ Len(l) = n
  /\ \A i \in 1 .. n : l[i] = <<ks[i], from[ks[i]]>>

\* The nodes of the first n chains are in the line of a SHOW, each once.
ShownInLine(chains, n, l) ==
  /\ \A i, j \in 1 .. Len(l) : l[i][1] = l[j][1] => i = j
  /\ \A i \in 1 .. Len(l) : \E b \in 0 .. n - 1 : \E j \in 1 .. Len(chains[b]) : l[i] = chains[b][j]
  /\ \A b \in 0 .. n - 1 : \A j \in 1 .. Len(chains[b]) : \E i \in 1 .. Len(l) : l[i] = chains[b][j]

\* What a batch has done so far to the store that it found, and written about it.
HalfDone ==
  \A t \in Threads :
    LET b == Batch(t)
        n == Through(t)
    IN /\ pc[t] = "write" => Written(committed, Contents(table), b, n) /\ line[t] = <<>>
       /\ pc[t] = "delete" => /\ Deleted(committed, Contents(table), b, n)
                              /\ LostInLine(committed, b, n, line[t])
       /\ pc[t] = "read" => ReadInLine(committed, b, n, line[t])
       /\ pc[t] = "show" => ShownInLine(table, n, line[t])

ImagesSound == \A c \in children : Sound(c.image)

IInv ==
  /\ TypeOK /\ ChainsSound
  /\ EntriesHeld /\ CommandsCounted
  /\ LockHeld /\ LeftInStep /\ HalfDone /\ ImagesSound

-----------------------------------------------------------------------------
(* The job threads implement JobService.  A change takes effect when its   *)
(* lock is released, a READ and a SHOW too, a BACKUP with the fork.        *)

Finished(f) == \E i \in 1 .. next - 1 : Directory[i] = f /\ \A t \in Threads : entry[t] # i

Executed(f) ==
  IF f \in Unreadable THEN 0
  ELSE IF Finished(f) THEN Len(Program[f])
  ELSE IF \E t \in Threads : entry[t] # 0 /\ File(t) = f
       THEN ip[CHOOSE t \in Threads : entry[t] # 0 /\ File(t) = f] - 1
       ELSE 0

BackupOf(n) ==
  IF \E c \in children : c.name = n
  THEN Contents((CHOOSE c \in children : c.name = n).image)
  ELSE IF bck[n] = NoBackup THEN NoBackup ELSE AsMap(bck[n])

CommandsDone == [f \in JobFiles |-> Executed(f)]
BackupsMade  == [n \in BackupNames(JobFiles) |-> BackupOf(n)]

Service == INSTANCE JobService WITH
             map <- committed, done <- CommandsDone, backups <- BackupsMade

\* Each command of each job file takes effect once, in its place and at one moment,
\* whatever the other threads do: a READ, a SHOW and a backup show the store
\* between two batches, never in the middle of one, and a backup stands under
\* the name of the job file that asked for it ("stores it in the correspondent
\* backup file", operations.h:46): that part needs a directory of one DirBuffer.
ImplementsService == Service!Spec

\* What that takes: job files do not share the names of their backup files, and
\* the names of the entries stay in the buffer of the directory stream.
DistinctStems == \A f, g \in JobFiles : Stem[f] = Stem[g] => f = g
OneBuffer     == Len(Directory) <= DirBuffer

\* Then a child has its file for itself, named after a BACKUP that was executed.
BackupsApart ==
  /\ \A c, d \in children : c.name = d.name => c = d
  /\ \A c \in children : \E f \in JobFiles :
       c.name[1] = Stem[f] /\ c.name[2] <= BackupsBefore(f, Executed(f))

\* Every job file that can be read is run to its end, although a file that cannot
\* be opened costs the thread that tried: it takes one thread more than there
\* are such files.
AllJobsRun ==
  Cardinality(Unreadable) < Cardinality(Threads) =>
    <>(\A f \in JobFiles \ Unreadable : Executed(f) = Len(Program[f]))
=============================================================================
