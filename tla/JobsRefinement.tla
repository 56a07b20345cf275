--------------------------- MODULE JobsRefinement ---------------------------
(***************************************************************************)
(* Proof that the job threads implement JobService: each command of each   *)
(* job file takes effect once, in its place and at one moment.             *)
(***************************************************************************)
EXTENDS JobsProofs

\* How far a job file is, from where the threads are.
Progress(f, n, e, p) ==
  IF f \in Unreadable THEN 0
  ELSE IF \E i \in 1 .. n - 1 : Directory[i] = f /\ \A t \in Threads : e[t] # i
       THEN Len(Program[f])
  ELSE IF \E t \in Threads : e[t] # 0 /\ Directory[e[t]] = f
       THEN p[CHOOSE t \in Threads : e[t] # 0 /\ Directory[e[t]] = f] - 1
       ELSE 0

\* What the entries of the threads are always like.
Places(n, e) ==
  /\ n \in 1 .. Len(Directory) + 1 /\ e \in [Threads -> 0 .. Len(Directory)]
  /\ \A t, u \in Threads : e[t] # 0 /\ e[u] = e[t] => t = u

\* Progress is Executed, with the state it looks at as arguments.
LEMMA ProgressMade ==
  /\ \A f \in JobFiles : Executed(f) = Progress(f, next, entry, ip)
  /\ \A f \in JobFiles : Executed(f)' = Progress(f, next', entry', ip')
<1>1. \A f \in JobFiles : Executed(f) = Progress(f, next, entry, ip)
  BY DEF Executed, Finished, File, Progress
<1>2. \A f \in JobFiles : Executed(f)' = Progress(f, next', entry', ip')
  BY DEF Executed, Finished, File, Progress
<1> QED
  BY <1>1, <1>2

\* A file that a thread has is as far as that thread; another one is at its end or
\* was not begun.
LEMMA ProgressIs ==
  ASSUME NEW n, NEW e, NEW p, Places(n, e), NEW f \in JobFiles
  PROVE  /\ f \in Unreadable => Progress(f, n, e, p) = 0
         /\ f \notin Unreadable =>
              /\ \A t \in Threads : e[t] # 0 /\ Directory[e[t]] = f => Progress(f, n, e, p) = p[t] - 1
              /\ ~ (\E t \in Threads : e[t] # 0 /\ Directory[e[t]] = f) =>
                   Progress(f, n, e, p) = IF \E i \in 1 .. n - 1 : Directory[i] = f
                                          THEN Len(Program[f]) ELSE 0
<1> USE DEF Places
<1>0. f \in Unreadable => Progress(f, n, e, p) = 0
  BY DEF Progress
<1>1. ASSUME f \notin Unreadable, NEW t \in Threads, e[t] # 0, Directory[e[t]] = f
      PROVE  Progress(f, n, e, p) = p[t] - 1
  <2>1. Len(Directory) \in Nat /\ DOMAIN Directory = 1 .. Len(Directory)
    BY DirectoryAssumption
  <2>2. e[t] \in 1 .. Len(Directory)
    <3>1. e[t] \in 0 .. Len(Directory)
      OBVIOUS
    <3> QED
      BY <1>1, <2>1, <3>1
  <2>3. \A i \in 1 .. Len(Directory) : Directory[i] = f => i = e[t]
    BY <1>1, <2>1, <2>2, DirectoryAssumption DEF IsInjective
  <2> DEFINE u == CHOOSE v \in Threads : e[v] # 0 /\ Directory[e[v]] = f
  <2>4. u \in Threads /\ e[u] # 0 /\ Directory[e[u]] = f
    BY <1>1
  <2>5. u = t
    <3>1. e[u] \in 1 .. Len(Directory)
      <4>1. e[u] \in 0 .. Len(Directory)
        BY <2>4
      <4> QED
        BY <2>1, <2>4, <4>1
    <3>2. e[u] = e[t]
      BY <2>3, <2>4, <3>1
    <3> QED
      BY <1>1, <2>4, <3>2
  <2>6. ~ \E i \in 1 .. n - 1 : Directory[i] = f /\ \A v \in Threads : e[v] # i
    <3> SUFFICES ASSUME NEW i \in 1 .. n - 1, Directory[i] = f, \A v \in Threads : e[v] # i
                 PROVE  FALSE
      OBVIOUS
    <3>1. i \in 1 .. Len(Directory)
      BY <2>1
    <3> QED
      BY <2>3, <3>1
  <2> HIDE DEF u
  <2>7. Progress(f, n, e, p) = p[u] - 1
    BY <1>1, <2>6 DEF Progress, u
  <2> QED
    BY <2>5, <2>7
<1>2. ASSUME f \notin Unreadable, ~ \E t \in Threads : e[t] # 0 /\ Directory[e[t]] = f
      PROVE  Progress(f, n, e, p) = IF \E i \in 1 .. n - 1 : Directory[i] = f
                                    THEN Len(Program[f]) ELSE 0
  <2>1. \A i \in 1 .. n - 1 : Directory[i] = f => \A t \in Threads : e[t] # i
    BY <1>2
  <2> QED
    BY <1>2, <2>1 DEF Progress
<1> QED
  BY <1>0, <1>1, <1>2

\* The two states of a step, as far as Progress looks at them.
LEMMA PlacesOf ==
  ASSUME TypeOK, EntriesHeld
  PROVE  Places(next, entry)
  BY DEF TypeOK, EntriesHeld, Places

\* The same in the state after the step.
LEMMA PlacesNext ==
  ASSUME TypeOK', EntriesHeld'
  PROVE  Places(next', entry')
  BY DEF TypeOK, EntriesHeld, Places

\* A step that leaves alone the entries and the commands of all threads, or of all but
\* one that does not work on f, leaves f where it is.
LEMMA SameProgress ==
  ASSUME NEW n, NEW e, NEW p, Places(n, e), NEW n2, NEW e2, NEW p2, Places(n2, e2),
         NEW f \in JobFiles,
         \A t \in Threads : \/ e2[t] = e[t] /\ p2[t] = p[t]
                            \/ /\ ~ (e[t] # 0 /\ Directory[e[t]] = f)
                               /\ ~ (e2[t] # 0 /\ Directory[e2[t]] = f),
         \/ n2 = n
         \/ n2 = n + 1 /\ Directory[n] # f
  PROVE  Progress(f, n2, e2, p2) = Progress(f, n, e, p)
<1> DEFINE P == Progress(f, n, e, p)
           Q == Progress(f, n2, e2, p2)
<1>p. /\ f \in Unreadable => Progress(f, n, e, p) = 0
      /\ f \notin Unreadable =>
           /\ \A t \in Threads : e[t] # 0 /\ Directory[e[t]] = f => Progress(f, n, e, p) = p[t] - 1
           /\ ~ (\E t \in Threads : e[t] # 0 /\ Directory[e[t]] = f) =>
                Progress(f, n, e, p) = IF \E i \in 1 .. n - 1 : Directory[i] = f
                                       THEN Len(Program[f]) ELSE 0
  BY ONLY Places(n, e), f \in JobFiles, ProgressIs
<1>q. /\ f \in Unreadable => Progress(f, n2, e2, p2) = 0
      /\ f \notin Unreadable =>
           /\ \A t \in Threads : e2[t] # 0 /\ Directory[e2[t]] = f => Progress(f, n2, e2, p2) = p2[t] - 1
           /\ ~ (\E t \in Threads : e2[t] # 0 /\ Directory[e2[t]] = f) =>
                Progress(f, n2, e2, p2) = IF \E i \in 1 .. n2 - 1 : Directory[i] = f
                                       THEN Len(Program[f]) ELSE 0
  BY ONLY Places(n2, e2), f \in JobFiles, ProgressIs
<1>1. CASE f \in Unreadable
  BY <1>p, <1>q, <1>1
<1>2. CASE f \notin Unreadable /\ \E t \in Threads : e[t] # 0 /\ Directory[e[t]] = f
  <2>1. PICK t \in Threads : e[t] # 0 /\ Directory[e[t]] = f
    BY <1>2
  <2>2. e2[t] = e[t] /\ p2[t] = p[t]
    BY <2>1
  <2>3. P = p[t] - 1
    BY <1>p, <1>2, <2>1
  <2>4. Q = p2[t] - 1
    BY <1>q, <1>2, <2>1, <2>2
  <2> QED
    BY <2>2, <2>3, <2>4
<1>3. CASE f \notin Unreadable /\ ~ \E t \in Threads : e[t] # 0 /\ Directory[e[t]] = f
  <2>1. ~ \E t \in Threads : e2[t] # 0 /\ Directory[e2[t]] = f
    BY <1>3
  <2>2. (\E i \in 1 .. n - 1 : Directory[i] = f) <=> \E i \in 1 .. n2 - 1 : Directory[i] = f
    <3>0. n \in Nat \ {0}
      BY DEF Places
    <3>1. CASE n2 = n + 1 /\ Directory[n] # f
      <4>1. 1 .. n2 - 1 = (1 .. n - 1) \cup {n}
        BY <3>0, <3>1
      <4> QED
        BY <3>1, <4>1
    <3> QED
      BY <3>1
  <2>3. P = IF \E i \in 1 .. n - 1 : Directory[i] = f THEN Len(Program[f]) ELSE 0
    BY <1>p, <1>3
  <2>4. Q = IF \E i \in 1 .. n2 - 1 : Directory[i] = f THEN Len(Program[f]) ELSE 0
    BY <1>q, <1>3, <2>1
  <2> QED
    BY <2>2, <2>3, <2>4
<1> QED
  BY <1>1, <1>2, <1>3

\* The end of a command, and nothing else, takes its file one command further.
LEMMA CommandExecuted ==
  ASSUME IInv, IInv', NEW t \in Threads, CommandStep(t), ip'[t] \in {ip[t], ip[t] + 1}
  PROVE  /\ File(t) \in JobFiles \ Unreadable /\ Executed(File(t)) = ip[t] - 1
         /\ Executed(File(t))' = ip'[t] - 1
         /\ \A f \in JobFiles \ {File(t)} : Executed(f)' = Executed(f)
<1>0. TypeOK /\ EntriesHeld /\ TypeOK' /\ EntriesHeld'
  BY DEF IInv
<1>1. /\ pc[t] \in {"get"} \cup Working /\ next' = next /\ entry' = entry
      /\ \A u \in Threads \ {t} : ip'[u] = ip[u]
  BY <1>0, CommandFrame DEF dirVars
<1>2. entry[t] # 0 /\ File(t) \in JobFiles \ Unreadable /\ Directory[entry[t]] = File(t)
  BY <1>0, <1>1 DEF EntriesHeld, Working, File
<1>3. Places(next, entry)
  BY <1>0, PlacesOf
<1>4. \A p : Progress(File(t), next, entry, p) = p[t] - 1
  BY <1>2, <1>3, ProgressIs
<1>5. \A f \in JobFiles : /\ Executed(f) = Progress(f, next, entry, ip)
                          /\ Executed(f)' = Progress(f, next, entry, ip')
  BY <1>1, ProgressMade
<1>6. Executed(File(t)) = ip[t] - 1
  BY <1>2, <1>4, <1>5
<1>7. Executed(File(t))' = ip'[t] - 1
  <2>1. File(t)' = File(t)
    BY <1>1 DEF File
  <2>2. PICK f \in JobFiles : f = File(t)
    BY <1>2
  <2>3. Executed(f)' = ip'[t] - 1
    BY <1>4, <1>5, <2>2
  <2> QED
    BY <2>1, <2>2, <2>3
<1>8. ASSUME NEW f \in JobFiles \ {File(t)}
      PROVE  Progress(f, next, entry, ip') = Progress(f, next, entry, ip)
  <2>1. \A u \in Threads : \/ ip'[u] = ip[u]
                           \/ ~ (entry[u] # 0 /\ Directory[entry[u]] = f)
    BY <1>1, <1>2
  <2> QED
    BY <1>3, <2>1, SameProgress
<1> QED
  BY <1>2, <1>5, <1>6, <1>7, <1>8

\* The steps of get_file, the open and the close of a file do not take it further.
LEMMA FileExecuted ==
  ASSUME IInv, IInv', NEW t \in Threads,
         LockDirectory(t) \/ ReadDirectory(t) \/ Open(t) \/ Close(t)
  PROVE  \A f \in JobFiles : Executed(f)' = Executed(f)
<1>0. TypeOK /\ EntriesHeld /\ CommandsCounted /\ TypeOK' /\ EntriesHeld'
  BY DEF IInv
<1>1. Places(next, entry) /\ Places(next', entry')
  BY <1>0, PlacesOf, PlacesNext
<1> SUFFICES ASSUME NEW f \in JobFiles
             PROVE  Progress(f, next', entry', ip') = Progress(f, next, entry, ip)
  BY ProgressMade
<1>2. ASSUME \A u \in Threads \ {t} : entry'[u] = entry[u] /\ ip'[u] = ip[u],
             \/ entry'[t] = entry[t] /\ ip'[t] = ip[t]
             \/ /\ ~ (entry[t] # 0 /\ Directory[entry[t]] = f)
                /\ ~ (entry'[t] # 0 /\ Directory[entry'[t]] = f),
             next' # next => next' = next + 1 /\ Directory[next] # f
      PROVE  Progress(f, next', entry', ip') = Progress(f, next, entry, ip)
  <2>1. \A u \in Threads : \/ entry'[u] = entry[u] /\ ip'[u] = ip[u]
                           \/ /\ ~ (entry[u] # 0 /\ Directory[entry[u]] = f)
                              /\ ~ (entry'[u] # 0 /\ Directory[entry'[u]] = f)
    BY <1>2
  <2> QED
    BY <1>1, <1>2, <2>1, SameProgress
<1>u. ASSUME f \in Unreadable
      PROVE  Progress(f, next', entry', ip') = Progress(f, next, entry, ip)
  <2>1. Progress(f, next, entry, ip) = 0
    <3>1. Places(next, entry)
      BY <1>1
    <3> QED
      BY ONLY <1>u, <3>1, f \in JobFiles, ProgressIs
  <2>2. Progress(f, next', entry', ip') = 0
    <3>1. Places(next', entry')
      BY <1>1
    <3> QED
      BY ONLY <1>u, <3>1, f \in JobFiles, ProgressIs
  <2> QED
    BY <2>1, <2>2
<1>3. CASE LockDirectory(t)
  BY <1>3 DEF LockDirectory
<1>4. CASE ReadDirectory(t)
  <2>1. pc[t] = "readdir" /\ ip' = ip /\ entry[t] = 0 /\ next \in 1 .. Len(Directory) + 1
    BY <1>0, <1>4 DEF ReadDirectory, EntriesHeld, TypeOK
  <2>2. CASE next' = next /\ entry' = entry
    BY <2>1, <2>2
  <2>3. CASE next' = next + 1 /\ entry' = entry /\ Directory[next] \notin JobFiles
    <3>1. Directory[next] # f
      BY <2>3
    <3> QED
      BY <1>1, <1>2, <2>1, <2>3, <3>1
  <2>4. CASE next' = next + 1 /\ entry' = [entry EXCEPT ![t] = next] /\ next <= Len(Directory)
    <3>1. entry'[t] = next /\ \A u \in Threads \ {t} : entry'[u] = entry[u]
      BY <1>0, <2>4 DEF TypeOK
    <3>2. CASE Directory[next] # f
      <4>1. ~ (entry[t] # 0 /\ Directory[entry[t]] = f) /\ ~ (entry'[t] # 0 /\ Directory[entry'[t]] = f)
        BY <2>1, <3>1, <3>2
      <4>2. \A u \in Threads \ {t} : entry'[u] = entry[u] /\ ip'[u] = ip[u]
        BY <2>1, <3>1
      <4> QED
        BY <1>1, <1>2, <2>4, <3>2, <4>1, <4>2
    <3>3. CASE Directory[next] = f /\ f \notin Unreadable
      <4>1. next # 0 /\ ip[t] = 1
        BY <1>0, <2>1 DEF CommandsCounted, Working
      <4>2. Progress(f, next', entry', ip') = ip'[t] - 1
        BY <1>1, <3>1, <3>3, <4>1, ProgressIs
      <4>3. \A i \in 1 .. Len(Directory) : Directory[i] = f => i = next
        <5>1. next \in 1 .. Len(Directory) /\ DOMAIN Directory = 1 .. Len(Directory)
          BY <2>1, <2>4, DirectoryAssumption
        <5> QED
          BY <3>3, <5>1, DirectoryAssumption DEF IsInjective
      <4>4. Len(Directory) \in Nat
        BY DirectoryAssumption
      <4>5. ~ \E u \in Threads : entry[u] # 0 /\ Directory[entry[u]] = f
        <5> SUFFICES ASSUME NEW u \in Threads, entry[u] # 0, Directory[entry[u]] = f
                     PROVE  FALSE
          OBVIOUS
        <5>1. entry[u] \in 0 .. Len(Directory) /\ entry[u] < next
          BY <1>0 DEF TypeOK, EntriesHeld
        <5>2. entry[u] \in 1 .. Len(Directory)
          BY <4>4, <5>1
        <5> QED
          BY <2>1, <4>3, <5>1, <5>2
      <4>6. ~ \E i \in 1 .. next - 1 : Directory[i] = f
        BY <2>1, <4>3, <4>4
      <4>7. Progress(f, next, entry, ip) = 0
        <5>1. Places(next, entry)
          BY <1>1
        <5>2. f \notin Unreadable
          BY <3>3
        <5>3. Progress(f, next, entry, ip) = IF \E i \in 1 .. next - 1 : Directory[i] = f
                                             THEN Len(Program[f]) ELSE 0
          BY ONLY <4>5, <5>1, <5>2, f \in JobFiles, ProgressIs
        <5> QED
          BY <4>6, <5>3
      <4> QED
        BY <2>1, <4>1, <4>2, <4>7
    <3>4. CASE f \in Unreadable
      BY <1>u, <3>4
    <3> QED
      BY <3>2, <3>3, <3>4
  <2> QED
    BY <1>4, <2>2, <2>3, <2>4 DEF ReadDirectory
<1>5. CASE Open(t)
  <2>1. ip' = ip /\ next' = next
    BY <1>5 DEF Open, dirVars
  <2>2. CASE File(t) \in Unreadable
    <3>1. entry'[t] = 0 /\ \A u \in Threads \ {t} : entry'[u] = entry[u]
      BY <1>0, <1>5, <2>2 DEF Open, TypeOK
    <3>2. CASE f \in Unreadable
      BY <1>u, <3>2
    <3>3. CASE f \notin Unreadable
      <4>1. ~ (entry[t] # 0 /\ Directory[entry[t]] = f) /\ ~ (entry'[t] # 0 /\ Directory[entry'[t]] = f)
        BY <2>2, <3>1, <3>3 DEF File
      <4>2. \A u \in Threads \ {t} : entry'[u] = entry[u] /\ ip'[u] = ip[u]
        BY <2>1, <3>1
      <4> QED
        BY ONLY <1>2, <2>1, <4>1, <4>2
    <3> QED
      BY <3>2, <3>3
  <2>3. CASE File(t) \notin Unreadable
    BY <1>5, <2>1, <2>3 DEF Open
  <2> QED
    BY <2>2, <2>3
<1>6. CASE Close(t)
  <2>1. /\ pc[t] = "get" /\ next' = next /\ ip[t] > Len(Program[File(t)])
        /\ entry' = [entry EXCEPT ![t] = 0] /\ ip' = [ip EXCEPT ![t] = 1]
    BY <1>6 DEF Close, dirVars
  <2>2. /\ entry'[t] = 0
        /\ \A u \in Threads \ {t} : entry'[u] = entry[u] /\ ip'[u] = ip[u]
    BY <1>0, <2>1 DEF TypeOK
  <2>3. /\ entry[t] # 0 /\ File(t) \in JobFiles \ Unreadable /\ entry[t] < next
        /\ ip[t] <= Len(Program[File(t)]) + 1 /\ Directory[entry[t]] = File(t)
        /\ Len(Program[File(t)]) \in Nat /\ ip[t] \in Nat /\ next \in Nat /\ entry[t] \in Nat
    <3>1. /\ entry[t] # 0 /\ File(t) \in JobFiles \ Unreadable /\ entry[t] < next
          /\ ip[t] <= Len(Program[File(t)]) + 1 /\ Directory[entry[t]] = File(t)
      BY <1>0, <2>1 DEF EntriesHeld, CommandsCounted, File
    <3>2. Len(Program[File(t)]) \in Nat /\ ip[t] \in Nat
      BY <1>0, <3>1, AtCommand
    <3>3. Len(Directory) \in Nat
      BY DirectoryAssumption
    <3>4. next \in 1 .. Len(Directory) + 1 /\ entry[t] \in 0 .. Len(Directory)
      BY <1>0 DEF TypeOK
    <3> QED
      BY <3>1, <3>2, <3>3, <3>4
  <2>4. CASE f # File(t)
    <3>1. ~ (entry[t] # 0 /\ Directory[entry[t]] = f) /\ ~ (entry'[t] # 0 /\ Directory[entry'[t]] = f)
      BY <2>2, <2>3, <2>4
    <3> QED
      BY ONLY <1>2, <2>1, <2>2, <3>1
  <2>5. CASE f = File(t)
    <3>1. Progress(f, next, entry, ip) = ip[t] - 1
      BY <1>1, <2>3, <2>5, ProgressIs
    <3>2. ~ \E u \in Threads : entry'[u] # 0 /\ Directory[entry'[u]] = f
      <4> SUFFICES ASSUME NEW u \in Threads \ {t}, entry[u] # 0, Directory[entry[u]] = f
                   PROVE  FALSE
        BY <2>2
      <4>1. entry[u] \in DOMAIN Directory /\ entry[t] \in DOMAIN Directory
        <5>1. Len(Directory) \in Nat /\ DOMAIN Directory = 1 .. Len(Directory)
          BY DirectoryAssumption
        <5>2. entry[u] \in 0 .. Len(Directory) /\ entry[t] \in 0 .. Len(Directory)
          BY <1>0 DEF TypeOK
        <5> QED
          BY <2>3, <5>1, <5>2
      <4>2. entry[u] = entry[t]
        BY <2>3, <2>5, <4>1, DirectoryAssumption DEF IsInjective
      <4> QED
        BY <1>0, <2>3, <4>2 DEF EntriesHeld
    <3>3. entry[t] \in 1 .. next' - 1 /\ Directory[entry[t]] = f
      BY <2>1, <2>3, <2>5
    <3>4. Progress(f, next', entry', ip') = Len(Program[f])
      <4>1. f \notin Unreadable /\ Places(next', entry')
        BY <1>1, <2>3, <2>5
      <4>2. Progress(f, next', entry', ip') = IF \E i \in 1 .. next' - 1 : Directory[i] = f
                                              THEN Len(Program[f]) ELSE 0
        BY <3>2, <4>1, ProgressIs
      <4> QED
        BY <3>3, <4>2
    <3> QED
      BY <2>1, <2>3, <2>5, <3>1, <3>4
  <2> QED
    BY <2>4, <2>5
<1> QED
  BY <1>3, <1>4, <1>5, <1>6

\* The steps that end a command.
EndStep(t) == Other(t) \/ WriteUnlock(t) \/ ReadUnlock(t) \/ Backup(t)

\* They take their file one command further.
LEMMA CommandEnds ==
  ASSUME IInv, IInv', NEW t \in Threads, EndStep(t)
  PROVE  /\ File(t) \in JobFiles /\ ip[t] \in Nat \ {0} /\ ip[t] <= Len(Program[File(t)])
         /\ Len(Program[File(t)]) \in Nat
         /\ Executed(File(t)) = ip[t] - 1 /\ Executed(File(t))' = ip[t]
         /\ \A f \in JobFiles \ {File(t)} : Executed(f)' = Executed(f)
<1>0. TypeOK /\ EntriesHeld /\ CommandsCounted
  BY DEF IInv
<1>1. CommandStep(t) /\ Finish(t)
  BY DEF EndStep, CommandStep, Other, WriteUnlock, ReadUnlock, Backup
<1>2. ip'[t] = ip[t] + 1
  BY <1>0, <1>1 DEF Finish, TypeOK
<1>3. /\ File(t) \in JobFiles /\ Executed(File(t)) = ip[t] - 1
      /\ Executed(File(t))' = ip'[t] - 1
      /\ \A f \in JobFiles \ {File(t)} : Executed(f)' = Executed(f)
  BY <1>1, <1>2, CommandExecuted
<1>4. ip[t] <= Len(Program[File(t)])
  <2>1. CASE Other(t) \/ Backup(t)
    BY <2>1 DEF Other, Backup, At
  <2>2. CASE WriteUnlock(t) \/ ReadUnlock(t)
    BY <1>0, <2>2 DEF WriteUnlock, ReadUnlock, CommandsCounted, Working
  <2> QED
    BY <2>1, <2>2 DEF EndStep
<1>5. ip[t] \in Nat \ {0} /\ Len(Program[File(t)]) \in Nat
  BY <1>0, <1>3, ProgramAssumption DEF TypeOK
<1> QED
  BY <1>2, <1>3, <1>4, <1>5

\* The other steps of a thread change nothing that the service shows.
LEMMA ThreadStutters ==
  ASSUME IInv, IInv', NEW t \in Threads, ThreadStep(t), ~ EndStep(t)
  PROVE  /\ \A f \in JobFiles : Executed(f)' = Executed(f)
         /\ UNCHANGED <<committed, out, children, bck>>
<1>1. CASE LockDirectory(t) \/ ReadDirectory(t) \/ Open(t) \/ Close(t)
  <2>1. UNCHANGED <<committed, out, children, bck>>
    BY <1>1, FileFrame DEF IInv, kvsVars, bckVars
  <2> QED
    BY <1>1, <2>1, FileExecuted
<1>2. CASE WriteLock(t) \/ ReadLock(t) \/ WritePair(t) \/ DeleteKey(t) \/ ReadKey(t) \/ ShowChain(t)
  <2>1. UNCHANGED <<ip, committed, out, children, bck>>
    BY <1>2 DEF WriteLock, ReadLock, WritePair, DeleteKey, ReadKey, ShowChain, kvsVars, bckVars
  <2>2. CommandStep(t)
    BY <1>2 DEF CommandStep
  <2>3. ip'[t] = ip[t]
    BY <2>1
  <2>4. /\ File(t) \in JobFiles /\ Executed(File(t)) = ip[t] - 1
        /\ Executed(File(t))' = ip'[t] - 1
        /\ \A f \in JobFiles \ {File(t)} : Executed(f)' = Executed(f)
    BY <2>2, <2>3, CommandExecuted
  <2>5. PICK g \in JobFiles : g = File(t)
    BY <2>4
  <2>6. File(t)' = File(t)
    BY <1>2 DEF WriteLock, ReadLock, WritePair, DeleteKey, ReadKey, ShowChain, File
  <2>7. Executed(g)' = ip[t] - 1 /\ Executed(g) = ip[t] - 1
    BY <2>3, <2>4, <2>5, <2>6
  <2> QED
    BY <2>1, <2>4, <2>5, <2>7
<1> QED
  BY <1>1, <1>2 DEF ThreadStep, EndStep

-----------------------------------------------------------------------------
(* Backups.                                                                *)

\* Within one buffer the entry a thread works on keeps its name.
LEMMA OwnName ==
  ASSUME OneBuffer, TypeOK, EntriesHeld, NEW t \in Threads, entry[t] # 0
  PROVE  EntryNames(t) = {File(t)}
<1>1. Len(Directory) \in Nat /\ Len(Directory) <= DirBuffer /\ DirBuffer \in Nat \ {0}
  BY DirectoryAssumption, BufferAssumption DEF OneBuffer
<1>2. next \in 1 .. Len(Directory) + 1 /\ entry[t] \in 0 .. Len(Directory) /\ entry[t] < next
  BY DEF TypeOK, EntriesHeld
<1>3. entry[t] \in 1 .. DirBuffer /\ next - 1 \in 1 .. DirBuffer
  BY <1>1, <1>2
<1>4. \A i \in 1 .. DirBuffer : Block(i) = 0
  <2> SUFFICES ASSUME NEW i \in 1 .. DirBuffer
               PROVE  (i - 1) \div DirBuffer = 0
    BY DEF Block
  <2>1. i - 1 \in Nat /\ i - 1 < DirBuffer
    BY <1>1
  <2> QED
    BY <1>1, <2>1
<1> QED
  BY <1>3, <1>4 DEF EntryNames

\* A BACKUP that forks makes the next file of its own job file, of the store as the
\* last change left it.
LEMMA BackupMakes ==
  ASSUME OneBuffer, IInv, NEW t \in Threads, Backup(t)
  PROVE  /\ nback[t] \in Nat /\ nback[t] = BackupsBefore(File(t), ip[t] - 1)
         /\ nback[t] + 1 = BackupsBefore(File(t), ip[t])
         /\ committed = Contents(table)
         /\ \/ children' = children \cup {[name |-> <<Stem[File(t)], nback[t] + 1>>, image |-> table]}
            \/ children' = children
<1>0. TypeOK /\ EntriesHeld /\ CommandsCounted /\ LockHeld
  BY DEF IInv
<1>1. /\ pc[t] = "get" /\ ip[t] <= Len(Program[File(t)]) /\ Command(t).op = "backup"
      /\ writer = NoThread
  BY DEF Backup, At
<1>2. entry[t] # 0 /\ nback[t] = BackupsBefore(File(t), ip[t] - 1)
  BY <1>0, <1>1 DEF EntriesHeld, CommandsCounted
<1>3. File(t) \in JobFiles /\ ip[t] \in Nat \ {0}
  BY <1>0, <1>2, AtCommand
<1> DEFINE m == ip[t] - 1
<1>4. m \in Nat /\ m + 1 = ip[t] /\ m + 1 <= Len(Program[File(t)])
  BY <1>1, <1>3
<1> HIDE DEF m
<1>5. /\ BackupsBefore(File(t), m + 1) =
           BackupsBefore(File(t), m) + (IF Program[File(t)][m + 1].op = "backup" THEN 1 ELSE 0)
      /\ BackupsBefore(File(t), m) \in Nat
  BY <1>3, <1>4, BackupsGrow
<1>6. Program[File(t)][m + 1] = Command(t)
  BY <1>4 DEF Command
<1>7. /\ nback[t] \in Nat /\ nback[t] + 1 = BackupsBefore(File(t), ip[t])
  BY <1>1, <1>2, <1>4, <1>5, <1>6 DEF m
<1>8. EntryNames(t) = {File(t)}
  BY <1>0, <1>2, OwnName
<1>9. \/ children' = children \cup {[name |-> <<Stem[File(t)], nback[t] + 1>>, image |-> table]}
      \/ children' = children
  BY <1>8 DEF Backup
<1>10. committed = Contents(table)
  BY <1>0, <1>1 DEF LockHeld
<1> QED
  BY <1>2, <1>7, <1>9, <1>10

\* No backup that was counted is forgotten.
LEMMA BackupsKept ==
  ASSUME IInv, IInv', [Next]_vars, NEW f \in JobFiles
  PROVE  \A n \in Nat : n <= BackupsBefore(f, Executed(f)) => n <= BackupsBefore(f, Executed(f)')
<1>1. ASSUME Executed(f)' = Executed(f)
      PROVE  \A n \in Nat : n <= BackupsBefore(f, Executed(f)) => n <= BackupsBefore(f, Executed(f)')
  BY <1>1
<1>2. ASSUME NEW t \in Threads, EndStep(t)
      PROVE  \A n \in Nat : n <= BackupsBefore(f, Executed(f)) => n <= BackupsBefore(f, Executed(f)')
  <2>1. /\ File(t) \in JobFiles /\ ip[t] \in Nat \ {0} /\ ip[t] <= Len(Program[File(t)])
        /\ Executed(File(t)) = ip[t] - 1 /\ Executed(File(t))' = ip[t]
        /\ \A g \in JobFiles \ {File(t)} : Executed(g)' = Executed(g)
    BY <1>2, CommandEnds
  <2>2. CASE f # File(t)
    BY <1>1, <2>1, <2>2
  <2>3. CASE f = File(t)
    <3> DEFINE m == ip[t] - 1
    <3>1. m \in Nat /\ m + 1 = ip[t] /\ m + 1 <= Len(Program[f])
      BY <2>1, <2>3
    <3>2. Executed(f) = m
      BY <2>1, <2>3
    <3>3. Executed(f)' = m + 1
      <4>1. File(t)' = File(t)
        BY <1>2, CommandFrame DEF EndStep, CommandStep, IInv, File
      <4> QED
        BY <2>1, <2>3, <3>1, <4>1
    <3> HIDE DEF m
    <3>4. /\ BackupsBefore(f, m) \in Nat
          /\ BackupsBefore(f, m + 1) =
               BackupsBefore(f, m) + (IF Program[f][m + 1].op = "backup" THEN 1 ELSE 0)
      BY <3>1, BackupsGrow
    <3>5. \A n \in Nat : n <= BackupsBefore(f, m) => n <= BackupsBefore(f, m + 1)
      BY <3>4
    <3> QED
      BY <3>2, <3>3, <3>5
  <2> QED
    BY <2>2, <2>3
<1>3. ASSUME NEW t \in Threads, ThreadStep(t), ~ EndStep(t)
      PROVE  Executed(f)' = Executed(f)
  BY <1>3, ThreadStutters
<1>4. ASSUME UNCHANGED <<next, entry, ip>>
      PROVE  Executed(f)' = Executed(f)
  BY <1>4, ProgressMade
<1> QED
  BY <1>1, <1>2, <1>3, <1>4 DEF Next, ChildWrite, vars, dirVars, jobVars

\* The file that a BACKUP makes is not one that a child is still at.
LEMMA NewName ==
  ASSUME DistinctStems, OneBuffer, IInv, IInv', BackupsApart, NEW t \in Threads, Backup(t),
         NEW c \in children
  PROVE  c.name # <<Stem[File(t)], nback[t] + 1>>
<1> SUFFICES ASSUME c.name = <<Stem[File(t)], nback[t] + 1>>
             PROVE  FALSE
  OBVIOUS
<1>1. nback[t] \in Nat /\ nback[t] = BackupsBefore(File(t), ip[t] - 1)
  BY BackupMakes
<1>2. File(t) \in JobFiles /\ Executed(File(t)) = ip[t] - 1
  BY CommandEnds DEF EndStep
<1>3. PICK f \in JobFiles : c.name[1] = Stem[f] /\ c.name[2] <= BackupsBefore(f, Executed(f))
  BY DEF BackupsApart
<1>4. f = File(t)
  BY <1>2, <1>3 DEF DistinctStems
<1>5. nback[t] + 1 <= nback[t]
  BY <1>1, <1>2, <1>3, <1>4
<1> QED
  BY <1>1, <1>5

\* Every step keeps the children apart.
LEMMA ApartStep ==
  ASSUME DistinctStems, OneBuffer, IInv, IInv', BackupsApart, [Next]_vars
  PROVE  BackupsApart'
<1> DEFINE Kept(c) == \E f \in JobFiles :
                        c.name[1] = Stem[f] /\ c.name[2] <= BackupsBefore(f, Executed(f)')
<1>1. ASSUME NEW c \in children
      PROVE  Kept(c)
  <2>1. PICK f \in JobFiles : c.name[1] = Stem[f] /\ c.name[2] <= BackupsBefore(f, Executed(f))
    BY DEF BackupsApart
  <2>2. c.name \in Names
    BY DEF IInv, TypeOK
  <2>3. c.name[2] \in Nat
    <3> DEFINE count(g) == Cardinality({i \in DOMAIN Program[g] : Program[g][i].op = "backup"})
    <3>1. \E g \in JobFiles : c.name[2] \in 1 .. count(g)
      BY <2>2 DEF Names, BackupNames
    <3> HIDE DEF count
    <3>2. PICK g \in JobFiles : c.name[2] \in 1 .. count(g)
      BY <3>1
    <3> QED
      BY <3>2
  <2>4. c.name[2] <= BackupsBefore(f, Executed(f)')
    BY <2>1, <2>3, BackupsKept
  <2> QED
    BY <2>1, <2>4
<1>2. ASSUME children' \subseteq children
      PROVE  BackupsApart'
  <2>1. \A c, d \in children' : c.name = d.name => c = d
    BY <1>2 DEF BackupsApart
  <2>2. \A c \in children' : Kept(c)
    BY <1>1, <1>2
  <2> QED
    BY <2>1, <2>2 DEF BackupsApart, BackupsBefore
<1>3. ASSUME NEW t \in Threads, Backup(t),
             children' = children \cup {[name |-> <<Stem[File(t)], nback[t] + 1>>, image |-> table]}
      PROVE  BackupsApart'
  <2> DEFINE x == [name |-> <<Stem[File(t)], nback[t] + 1>>, image |-> table]
  <2>1. /\ nback[t] \in Nat /\ nback[t] = BackupsBefore(File(t), ip[t] - 1)
        /\ nback[t] + 1 = BackupsBefore(File(t), ip[t])
    BY <1>3, BackupMakes
  <2>2. /\ File(t) \in JobFiles /\ Executed(File(t)) = ip[t] - 1 /\ Executed(File(t))' = ip[t]
    BY <1>3, CommandEnds DEF EndStep
  <2>3. x.name[1] = Stem[File(t)] /\ x.name[2] = nback[t] + 1 /\ x.name = <<Stem[File(t)], nback[t] + 1>>
    OBVIOUS
  <2> HIDE DEF x
  <2>4. \A c \in children : c.name # x.name
    BY <1>3, <2>3, NewName
  <2>5. Kept(x)
    <3>1. File(t)' = File(t)
      BY <1>3 DEF Backup, File
    <3>2. PICK g \in JobFiles : g = File(t)
      BY <2>2
    <3>3. Executed(g)' = ip[t]
      BY <2>2, <3>1, <3>2
    <3>4. x.name[1] = Stem[g] /\ x.name[2] <= BackupsBefore(g, Executed(g)')
      BY <2>1, <2>3, <3>2, <3>3
    <3> QED
      BY <3>4
  <2>6. \A c \in children' : c \in children \/ c = x
    BY <1>3 DEF x
  <2>7. \A c, d \in children' : c.name = d.name => c = d
    BY <2>4, <2>6 DEF BackupsApart
  <2>8. \A c \in children' : Kept(c)
    BY <1>1, <2>5, <2>6
  <2> QED
    BY <2>7, <2>8 DEF BackupsApart, BackupsBefore
<1>4. ASSUME NEW t \in Threads, ThreadStep(t)
      PROVE  BackupsApart'
  <2>1. CASE Backup(t)
    BY <1>2, <1>3, <2>1, BackupMakes
  <2>2. CASE Other(t) \/ WriteUnlock(t) \/ ReadUnlock(t)
    BY <1>2, <2>2 DEF Other, WriteUnlock, ReadUnlock, bckVars
  <2>3. CASE ~ EndStep(t)
    BY <1>2, <1>4, <2>3, ThreadStutters
  <2> QED
    BY <2>1, <2>2, <2>3 DEF EndStep
<1>5. ASSUME NEW c \in children, ChildWrite(c)
      PROVE  BackupsApart'
  BY <1>2, <1>5 DEF ChildWrite
<1>6. ASSUME UNCHANGED vars
      PROVE  BackupsApart'
  BY <1>2, <1>6 DEF vars, bckVars
<1> QED
  BY <1>4, <1>5, <1>6 DEF Next

\* The content of a backup, from the children and the files.
Content(n, ch, b) ==
  IF \E c \in ch : c.name = n THEN Contents((CHOOSE c \in ch : c.name = n).image)
  ELSE IF b[n] = NoBackup THEN NoBackup ELSE AsMap(b[n])

\* Content is BackupOf, with the state it looks at as arguments.
LEMMA BackupsAre ==
  /\ \A n : BackupOf(n) = Content(n, children, bck)
  /\ \A n : BackupOf(n)' = Content(n, children', bck')
  BY DEF BackupOf, Content

\* A new child is the content of its file, and of no other.
LEMMA ChildAdded ==
  ASSUME NEW ch, NEW b, NEW x, \A c \in ch : c.name # x.name, NEW n
  PROVE  Content(n, ch \cup {x}, b) = IF n = x.name THEN Contents(x.image) ELSE Content(n, ch, b)
<1> DEFINE dh == ch \cup {x}
<1>1. CASE n = x.name
  <2>1. x \in dh /\ \A c \in dh : c.name = n <=> c = x
    BY <1>1
  <2>2. (CHOOSE c \in dh : c.name = n) = x
    BY <2>1
  <2> QED
    BY <1>1, <2>1, <2>2 DEF Content
<1>2. CASE n # x.name
  <2>1. \A c : (c \in dh /\ c.name = n) <=> (c \in ch /\ c.name = n)
    BY <1>2
  <2>2. (CHOOSE c \in dh : c.name = n) = (CHOOSE c \in ch : c.name = n)
    BY <2>1
  <2> QED
    BY <1>2, <2>1, <2>2 DEF Content
<1> QED
  BY <1>1, <1>2

\* The file that a child leaves has the content of the child.
LEMMA ChildStutters ==
  ASSUME IInv, BackupsApart, NEW c \in children, ChildWrite(c), NEW n \in Names
  PROVE  BackupOf(n)' = BackupOf(n)
<1> DEFINE m == c.name
           ch == children \ {c}
<1>1. /\ c.name \in Names /\ c.image \in Table /\ Sound(c.image)
      /\ bck \in [Names -> Seq(Node) \cup {NoBackup}]
  BY DEF IInv, TypeOK, ImagesSound
<1>2. children' = ch /\ bck' = [bck EXCEPT ![m] = Listing(c.image)]
  BY DEF ChildWrite
<1>3. \A d \in children : d.name = c.name => d = c
  BY DEF BackupsApart
<1>4. children = ch \cup {c} /\ \A d \in ch : d.name # c.name
  BY <1>3
<1>5. Content(n, children, bck) = IF n = c.name THEN Contents(c.image) ELSE Content(n, ch, bck)
  <2> HIDE DEF ch
  <2> QED
    BY <1>4, ChildAdded
<1>6. CASE n = m
  <2>1. bck'[n] = Listing(c.image) /\ Listing(c.image) # NoBackup
    BY <1>1, <1>2, <1>6, ListingHolds, BackupAssumption
  <2>2. ~ \E d \in ch : d.name = n
    BY <1>3, <1>6
  <2>3. Content(n, ch, bck') = AsMap(Listing(c.image))
    <3> HIDE DEF ch
    <3> QED
      BY <2>1, <2>2 DEF Content
  <2> QED
    BY <1>1, <1>2, <1>5, <1>6, <2>3, BackupsAre, ListingShows
<1>7. CASE n # m
  <2>1. bck'[n] = bck[n]
    BY <1>1, <1>2, <1>7
  <2>2. Content(n, ch, bck') = Content(n, ch, bck)
    <3> HIDE DEF ch
    <3> QED
      BY <2>1 DEF Content
  <2> QED
    BY <1>2, <1>5, <1>7, <2>2, BackupsAre
<1> QED
  BY <1>6, <1>7

-----------------------------------------------------------------------------
(* Each end of a command is its step of the service.                       *)

\* The end of a command of t counts in its file.
LEMMA Counts ==
  ASSUME IInv, IInv', NEW t \in Threads, EndStep(t)
  PROVE  /\ File(t) \in JobFiles /\ Service!Executes(File(t), Command(t).op)
         /\ Service!Current(File(t)) = Command(t)
         /\ CommandsDone[File(t)] = ip[t] - 1
<1>1. /\ File(t) \in JobFiles /\ ip[t] \in Nat \ {0} /\ ip[t] <= Len(Program[File(t)])
      /\ Len(Program[File(t)]) \in Nat
      /\ Executed(File(t)) = ip[t] - 1 /\ Executed(File(t))' = ip[t]
      /\ \A f \in JobFiles \ {File(t)} : Executed(f)' = Executed(f)
  BY CommandEnds
<1>2. File(t)' = File(t)
  BY CommandFrame DEF EndStep, CommandStep, IInv, File
<1> DEFINE g == File(t)
           D == CommandsDone
<1>3. D = [f \in JobFiles |-> Executed(f)] /\ D' = [f \in JobFiles |-> Executed(f)']
  BY DEF CommandsDone
<1>4. D[g] = ip[t] - 1 /\ D'[g] = ip[t]
  <2>1. PICK f \in JobFiles : f = g
    BY <1>1
  <2>2. Executed(f)' = ip[t]
    BY <1>1, <1>2, <2>1
  <2> QED
    BY <1>1, <1>3, <2>1, <2>2
<1>5. D' = [D EXCEPT ![g] = @ + 1]
  <2>1. \A f \in JobFiles : D'[f] = IF f = g THEN D[g] + 1 ELSE D[f]
    <3> SUFFICES ASSUME NEW f \in JobFiles
                 PROVE  D'[f] = IF f = g THEN D[g] + 1 ELSE D[f]
      OBVIOUS
    <3>1. CASE f = g
      BY <1>1, <1>4, <3>1
    <3>2. CASE f # g
      BY <1>1, <1>3, <3>2
    <3> QED
      BY <3>1, <3>2
  <2>2. DOMAIN D = JobFiles /\ D' = [f \in JobFiles |-> D'[f]]
    BY <1>3
  <2> HIDE DEF D, g
  <2> QED
    BY <2>1, <2>2
<1>6. Program[g][D[g] + 1] = Command(t) /\ D[g] < Len(Program[g])
  BY <1>1, <1>4 DEF Command
<1> QED
  BY <1>1, <1>4, <1>5, <1>6 DEF Service!Executes, Service!Current

\* Nothing happens to the backups while their children and files stay as they are.
LEMMA BackupsStay ==
  ASSUME \A n \in BackupNames(JobFiles) : BackupOf(n)' = BackupOf(n)
  PROVE  BackupsMade' = BackupsMade
  BY DEF BackupsMade

\* The same for a step that touches neither children nor files.
LEMMA BackupsSame ==
  ASSUME UNCHANGED <<children, bck>>
  PROVE  BackupsMade' = BackupsMade
  BY BackupsAre, BackupsStay

\* A batch under a lock is through when it is unlocked.
LEMMA BatchEnds ==
  ASSUME IInv, NEW t \in Threads, pc[t] \in Working, left[t] = <<>>
  PROVE  /\ pc[t] = Command(t).op /\ Through(t) = Len(Batch(t)) /\ Len(Batch(t)) \in Nat
         /\ Batch(t) \in Left(t)
         /\ line[t] \in Lines /\ out \in [JobFiles -> Seq(Lines)]
         /\ table \in Table /\ Sound(table) /\ committed \in [Keys -> Values \cup {Missing}]
         /\ Contents(table) \in [Keys -> Values \cup {Missing}]
<1>1. /\ TypeOK /\ ChainsSound /\ EntriesHeld /\ CommandsCounted /\ LeftInStep
  BY DEF IInv
<1>2. Batch(t) \in Left(t) /\ Len(Batch(t)) \in Nat /\ Through(t) = Len(Batch(t))
  BY <1>1, OneKey
<1>3. pc[t] = Command(t).op
  BY <1>1 DEF CommandsCounted
<1>4. /\ line[t] \in Lines /\ out \in [JobFiles -> Seq(Lines)] /\ table \in Table
      /\ committed \in [Keys -> Values \cup {Missing}] /\ Sound(table)
  BY <1>1 DEF TypeOK, ChainsSound
<1>5. Contents(table) \in [Keys -> Values \cup {Missing}]
  BY <1>4, ContentsType
<1> QED
  BY <1>2, <1>3, <1>4, <1>5

\* The unlock of a WRITE.
LEMMA WriteSimulates ==
  ASSUME IInv, IInv', NEW t \in Threads, WriteUnlock(t), pc[t] = "write"
  PROVE  Service!Write(File(t)) /\ File(t) \in JobFiles
<1>1. left[t] = <<>> /\ pc[t] \in Working /\ EndStep(t)
  BY DEF WriteUnlock, Working, EndStep
<1>2. /\ pc[t] = Command(t).op /\ Through(t) = Len(Batch(t)) /\ Len(Batch(t)) \in Nat
      /\ Contents(table) \in [Keys -> Values \cup {Missing}]
  BY <1>1, BatchEnds
<1>3. /\ File(t) \in JobFiles /\ Service!Executes(File(t), "write")
      /\ Service!Current(File(t)) = Command(t)
  BY <1>1, <1>2, Counts
<1> DEFINE b == Command(t).batch
<1>4. Batch(t) = b
  BY DEF Batch
<1>5. Written(committed, Contents(table), b, Len(b)) /\ line[t] = <<>> /\ Len(b) \in Nat
  BY <1>2, <1>4 DEF IInv, HalfDone
<1>6. committed' = Contents(table) /\ out' = out /\ UNCHANGED <<children, bck>>
  BY <1>5 DEF WriteUnlock, bckVars
<1> HIDE DEF b
<1>7. Service!Overwritten(b) = Contents(table)
  <2> DEFINE I(k) == {i \in 1 .. Len(b) : b[i][1] = k}
             last(k) == Latest(I(k))
  <2>1. ASSUME NEW k \in Keys
        PROVE  /\ I(k) # {} => last(k) \in 1 .. Len(b) /\ Contents(table)[k] = b[last(k)][2]
               /\ I(k) = {} => Contents(table)[k] = committed[k]
    <3> DEFINE C == Contents(table)
               J == I(k)
    <3>1. Written(committed, C, b, Len(b)) /\ Len(b) \in Nat
      BY <1>5
    <3>2. \A i : i \in J <=> i \in 1 .. Len(b) /\ b[i][1] = k
      OBVIOUS
    <3> HIDE DEF C, J
    <3>3. /\ J # {} => Latest(J) \in 1 .. Len(b) /\ C[k] = b[Latest(J)][2]
          /\ J = {} => C[k] = committed[k]
      BY ONLY <3>1, <3>2, k \in Keys, WriteEnds
    <3> QED
      BY <3>3 DEF C, J
  <2>2. Service!Overwritten(b) =
          [k \in Keys |-> LET i == IF I(k) # {} THEN last(k) ELSE 0
                          IN IF i = 0 THEN committed[k] ELSE b[i][2]]
    BY DEF Service!Overwritten, Service!SelectLastInSeq, Service!Max, Latest
  <2> HIDE DEF I, last
  <2>3. \A k \in Keys : Service!Overwritten(b)[k] = Contents(table)[k]
    BY <1>5, <2>1, <2>2
  <2> QED
    BY <1>2, <2>2, <2>3
<1> QED
  BY <1>3, <1>6, <1>7, BackupsSame DEF Service!Write, b

\* The unlock of a DELETE.
LEMMA DeleteSimulates ==
  ASSUME IInv, IInv', NEW t \in Threads, WriteUnlock(t), pc[t] = "delete"
  PROVE  Service!Delete(File(t)) /\ File(t) \in JobFiles
<1>1. left[t] = <<>> /\ pc[t] \in Working /\ EndStep(t)
  BY DEF WriteUnlock, Working, EndStep
<1>2. /\ pc[t] = Command(t).op /\ Through(t) = Len(Batch(t)) /\ Batch(t) \in Seq(Keys)
      /\ line[t] \in Lines /\ Contents(table) \in [Keys -> Values \cup {Missing}]
  BY <1>1, BatchEnds DEF Left
<1>3. /\ File(t) \in JobFiles /\ Service!Executes(File(t), "delete")
      /\ Service!Current(File(t)) = Command(t)
  BY <1>1, <1>2, Counts
<1> DEFINE ks == Command(t).batch
           l == line[t]
           S == Lost(committed, ks, Len(ks))
<1>4. Batch(t) = ks
  BY DEF Batch
<1>5. /\ Deleted(committed, Contents(table), ks, Len(ks)) /\ LostInLine(committed, ks, Len(ks), l)
      /\ ks \in Seq(Keys) /\ l \in Lines
  BY <1>2, <1>4 DEF IInv, HalfDone
<1>6. /\ committed' = Contents(table)
      /\ out' = IF l = <<>> THEN out ELSE [out EXCEPT ![File(t)] = Append(@, l)]
      /\ UNCHANGED <<children, bck>>
  BY DEF WriteUnlock, bckVars
<1> HIDE DEF ks, l
<1>7. /\ Contents(table) =
           [k \in Keys |-> IF k \in {ks[i] : i \in DOMAIN ks} THEN Missing ELSE committed[k]]
      /\ Cardinality(S) = Len(l)
      /\ \E lost \in [1 .. Len(l) -> S] :
           /\ \A i, j \in 1 .. Len(l) : i # j => lost[i] # lost[j]
           /\ \A i, j \in DOMAIN lost : i < j => lost[i] < lost[j]
           /\ l = [i \in DOMAIN lost |-> <<ks[lost[i]], Missing>>]
  <2> DEFINE C == Contents(table)
  <2>1. /\ C \in [Keys -> Values \cup {Missing}] /\ Deleted(committed, C, ks, Len(ks))
        /\ LostInLine(committed, ks, Len(ks), l) /\ ks \in Seq(Keys) /\ l \in Lines
    BY <1>2, <1>5
  <2> HIDE DEF C
  <2>2. /\ \A k \in Keys : C[k] = IF \E i \in 1 .. Len(ks) : ks[i] = k
                                   THEN Missing ELSE committed[k]
        /\ Cardinality(Lost(committed, ks, Len(ks))) = Len(l)
        /\ \E lost \in [1 .. Len(l) -> Lost(committed, ks, Len(ks))] :
             /\ \A i, j \in 1 .. Len(l) : i # j => lost[i] # lost[j]
             /\ \A i, j \in DOMAIN lost : i < j => lost[i] < lost[j]
             /\ \A i \in 1 .. Len(l) : l[i] = <<ks[lost[i]], Missing>>
    BY ONLY <2>1, DeleteEnds
  <2> HIDE DEF S
  <2>3. C = [k \in Keys |-> IF k \in {ks[i] : i \in DOMAIN ks} THEN Missing ELSE committed[k]]
    <3> DEFINE K == {ks[i] : i \in DOMAIN ks}
    <3>1. \A k : k \in K <=> \E i \in 1 .. Len(ks) : ks[i] = k
      BY <2>1
    <3> HIDE DEF K
    <3>2. C = [k \in Keys |-> IF k \in K THEN Missing ELSE committed[k]]
      BY <2>1, <2>2, <3>1
    <3> QED
      BY <3>2 DEF K
  <2>4. PICK lost \in [1 .. Len(l) -> S] :
             /\ \A i, j \in 1 .. Len(l) : i # j => lost[i] # lost[j]
             /\ \A i, j \in DOMAIN lost : i < j => lost[i] < lost[j]
             /\ \A i \in 1 .. Len(l) : l[i] = <<ks[lost[i]], Missing>>
    BY <2>2 DEF S
  <2>5. l = [i \in DOMAIN lost |-> <<ks[lost[i]], Missing>>]
    <3>1. l = [i \in 1 .. Len(l) |-> l[i]] /\ DOMAIN lost = 1 .. Len(l)
      BY <2>1, <2>4 DEF Lines
    <3> QED
      BY <2>4, <3>1
  <2> QED
    BY <2>2, <2>3, <2>4, <2>5 DEF C, S
<1> HIDE DEF S
<1>8. PICK lost \in [1 .. Len(l) -> S] :
           /\ \A i, j \in 1 .. Len(l) : i # j => lost[i] # lost[j]
           /\ \A i, j \in DOMAIN lost : i < j => lost[i] < lost[j]
           /\ l = [i \in DOMAIN lost |-> <<ks[lost[i]], Missing>>]
  BY <1>7
<1>9. lost \in Service!SetToSeqs(S)
  <2>1. Service!Cardinality(S) = Cardinality(S)
    BY Zenon DEF Service!Cardinality, Cardinality
  <2>2. Service!Cardinality(S) = Len(l)
    BY <1>7, <2>1
  <2> QED
    BY <1>8, <2>2 DEF Service!SetToSeqs
<1>10. lost = <<>> <=> l = <<>>
  <2>1. Len(l) \in Nat /\ DOMAIN l = DOMAIN lost /\ DOMAIN lost = 1 .. Len(l)
    BY <1>5, <1>8 DEF Lines
  <2>2. CASE l = <<>>
    <3>1. Len(l) = 0
      BY <2>2
    <3> QED
      BY <2>1, <2>2, <3>1
  <2>3. CASE l # <<>>
    <3>1. Len(l) # 0
      BY <1>5, <2>3 DEF Lines
    <3>2. 1 \in DOMAIN lost
      BY <2>1, <3>1
    <3> QED
      BY <2>3, <3>2
  <2> QED
    BY <2>2, <2>3
<1>11. out' = IF lost = <<>> THEN out
              ELSE [out EXCEPT ![File(t)] =
                      Append(@, [i \in DOMAIN lost |-> <<ks[lost[i]], Missing>>])]
  BY <1>6, <1>8, <1>10
<1>12. committed' = [k \in Keys |-> IF k \in Service!ToSet(ks) THEN Missing ELSE committed[k]]
  BY <1>6, <1>7 DEF Service!ToSet
<1>13. /\ Service!Executes(File(t), "delete") /\ Service!Current(File(t)).batch = ks
       /\ BackupsMade' = BackupsMade
  BY <1>3, <1>6, BackupsSame DEF ks
<1>14. S = {i \in DOMAIN ks :
              committed[ks[i]] = Missing \/ \E j \in 1 .. i - 1 : ks[j] = ks[i]}
  BY <1>5 DEF S, Lost
<1> QED
  BY <1>3, <1>8, <1>9, <1>11, <1>12, <1>13, <1>14, ZenonT(20) DEF Service!Delete

\* The unlock of a READ.
LEMMA ReadSimulates ==
  ASSUME IInv, IInv', NEW t \in Threads, ReadUnlock(t), pc[t] = "read"
  PROVE  Service!Read(File(t)) /\ File(t) \in JobFiles
<1>1. left[t] = <<>> /\ pc[t] \in Working /\ EndStep(t)
  BY DEF ReadUnlock, Working, EndStep
<1>2. /\ pc[t] = Command(t).op /\ Through(t) = Len(Batch(t)) /\ Batch(t) \in Seq(Keys)
      /\ line[t] \in Lines
  BY <1>1, BatchEnds DEF Left
<1>3. /\ File(t) \in JobFiles /\ Service!Executes(File(t), "read")
      /\ Service!Current(File(t)) = Command(t)
  BY <1>1, <1>2, Counts
<1> DEFINE ks == Command(t).batch
           l == line[t]
<1>4. Batch(t) = ks
  BY DEF Batch
<1>5. ReadInLine(committed, ks, Len(ks), l) /\ ks \in Seq(Keys) /\ l \in Lines
  BY <1>2, <1>4 DEF IInv, HalfDone
<1>6. l = [i \in DOMAIN ks |-> <<ks[i], committed[ks[i]]>>]
  <2> HIDE DEF ks, l
  <2> QED
    BY <1>5, ReadEnds
<1>7. /\ out' = [out EXCEPT ![File(t)] = Append(@, l)]
      /\ UNCHANGED <<committed, children, bck>>
  BY DEF ReadUnlock, bckVars
<1>8. Service!Current(File(t)).batch = ks /\ BackupsMade' = BackupsMade
  BY <1>3, <1>7, BackupsSame
<1> HIDE DEF ks, l
<1> QED
  BY <1>3, <1>6, <1>7, <1>8 DEF Service!Read

\* The unlock of a SHOW: nobody changed the store while the chains were shown.
LEMMA ShowSimulates ==
  ASSUME IInv, IInv', NEW t \in Threads, ReadUnlock(t), pc[t] = "show"
  PROVE  Service!Show(File(t)) /\ File(t) \in JobFiles
<1>1. left[t] = <<>> /\ pc[t] \in Working /\ EndStep(t)
  BY DEF ReadUnlock, Working, EndStep
<1>2. /\ pc[t] = Command(t).op /\ Through(t) = Len(Batch(t)) /\ line[t] \in Lines
      /\ table \in Table /\ Sound(table)
  BY <1>1, BatchEnds
<1>3. File(t) \in JobFiles /\ Service!Executes(File(t), "show")
  BY <1>1, <1>2, Counts
<1> DEFINE l == line[t]
           S == {<<k, committed[k]>> : k \in {x \in Keys : committed[x] # Missing}}
<1>4. Len(Batch(t)) = TABLE_SIZE
  BY TableAssumption DEF Batch
<1>5. ShownInLine(table, TABLE_SIZE, l)
  BY <1>2, <1>4 DEF IInv, HalfDone
<1>6. committed = Contents(table)
  BY DEF IInv, LockHeld
<1>7. /\ Cardinality(S) = Len(l) /\ l \in [1 .. Len(l) -> S]
      /\ \A i, j \in 1 .. Len(l) : i # j => l[i] # l[j]
  <2>1. l \in Lines
    BY <1>2
  <2> HIDE DEF l
  <2> QED
    BY <1>2, <1>5, <1>6, <2>1, ShowEnds, ZenonT(20)
<1>8. /\ out' = [out EXCEPT ![File(t)] = Append(@, l)]
      /\ UNCHANGED <<committed, children, bck>>
  BY DEF ReadUnlock, bckVars
<1> HIDE DEF l, S
<1>9. l \in Service!SetToSeqs(S)
  <2>1. Service!Cardinality(S) = Cardinality(S)
    BY Zenon DEF Service!Cardinality, Cardinality
  <2>2. Service!Cardinality(S) = Len(l)
    BY <1>7, <2>1
  <2> QED
    BY <1>7, <2>2 DEF Service!SetToSeqs
<1>10. l \in Service!Listings
  BY <1>9 DEF Service!Listings, S
<1> QED
  BY <1>3, <1>8, <1>10, BackupsSame DEF Service!Show

\* WAIT, HELP, an empty or an invalid line.
LEMMA OtherSimulates ==
  ASSUME IInv, IInv', NEW t \in Threads, Other(t)
  PROVE  Service!Other(File(t)) /\ File(t) \in JobFiles
<1>1. Command(t).op = "other" /\ UNCHANGED <<committed, out, children, bck>> /\ EndStep(t)
  BY DEF Other, At, kvsVars, bckVars, EndStep
<1> QED
  BY <1>1, Counts, BackupsSame DEF Service!Other

\* The fork of a BACKUP.
LEMMA BackupSimulates ==
  ASSUME DistinctStems, OneBuffer, IInv, IInv', BackupsApart, NEW t \in Threads, Backup(t)
  PROVE  Service!Backup(File(t)) /\ File(t) \in JobFiles
<1> DEFINE g == File(t)
           nm == <<Stem[g], nback[t] + 1>>
           x == [name |-> nm, image |-> table]
<1>1. Command(t).op = "backup" /\ UNCHANGED <<committed, out, bck>> /\ EndStep(t)
  BY DEF Backup, At, kvsVars, EndStep
<1>2. /\ g \in JobFiles /\ Service!Executes(g, "backup") /\ CommandsDone[g] = ip[t] - 1
      /\ ip[t] \in Nat
  <2>1. ip[t] \in Nat
    BY DEF IInv, TypeOK
  <2> QED
    BY <1>1, <2>1, Counts
<1>3. /\ nback[t] + 1 = BackupsBefore(g, ip[t]) /\ committed = Contents(table)
      /\ children' = children \cup {x} \/ children' = children
  BY BackupMakes
<1>4. Service!Cardinality({i \in 1 .. CommandsDone[g] + 1 : Program[g][i].op = "backup"}) = nback[t] + 1
  <2> DEFINE U == {i \in 1 .. CommandsDone[g] + 1 : Program[g][i].op = "backup"}
             V == {i \in 1 .. ip[t] : Program[g][i].op = "backup"}
  <2>1. CommandsDone[g] + 1 = ip[t]
    BY <1>2
  <2>2. U = V
    BY <2>1
  <2>3. Service!Cardinality(V) = Cardinality(V)
    BY Zenon DEF Service!Cardinality, Cardinality
  <2>4. Cardinality(V) = nback[t] + 1
    BY <1>3 DEF BackupsBefore
  <2> HIDE DEF U, V
  <2> QED
    BY <2>2, <2>3, <2>4 DEF U
<1>5. CASE children' = children
  <2>1. BackupsMade' = BackupsMade
    BY <1>1, <1>5, BackupsSame
  <2> QED
    BY <1>1, <1>2, <2>1 DEF Service!Backup
<1>6. CASE children' = children \cup {x}
  <2>1. x.name = nm /\ x.image = table
    OBVIOUS
  <2>2. \A c \in children : c.name # x.name
    BY <2>1, NewName
  <2> HIDE DEF x, nm
  <2>3. \A n : Content(n, children \cup {x}, bck) =
                 IF n = x.name THEN Contents(x.image) ELSE Content(n, children, bck)
    BY <2>2, ChildAdded
  <2>4. \A n : BackupOf(n)' = IF n = nm THEN committed ELSE BackupOf(n)
    <3> SUFFICES ASSUME NEW n
                 PROVE  BackupOf(n)' = IF n = nm THEN committed ELSE BackupOf(n)
      OBVIOUS
    <3>1. BackupOf(n) = Content(n, children, bck) /\ BackupOf(n)' = Content(n, children', bck')
      BY BackupsAre
    <3>2. Content(n, children', bck') = Content(n, children \cup {x}, bck)
      BY <1>1, <1>6
    <3>3. Content(n, children \cup {x}, bck) =
            IF n = x.name THEN Contents(x.image) ELSE Content(n, children, bck)
      BY <2>3
    <3> QED
      BY <1>3, <2>1, <3>1, <3>2, <3>3
  <2>5. BackupsMade' = [BackupsMade EXCEPT ![nm] = committed]
    BY <2>4 DEF BackupsMade
  <2>6. BackupsMade' \in {BackupsMade, [BackupsMade EXCEPT ![<<Stem[g], nback[t] + 1>>] = committed]}
    BY <2>5 DEF nm
  <2> QED
    BY <1>1, <1>2, <1>4, <2>6 DEF Service!Backup
<1> QED
  BY <1>2, <1>3, <1>5, <1>6

\* A child that writes its file changes nothing of what the service shows.
LEMMA ChildSimulates ==
  ASSUME IInv, BackupsApart, NEW c \in children, ChildWrite(c)
  PROVE  UNCHANGED <<committed, CommandsDone, out, BackupsMade>>
<1>1. UNCHANGED <<next, entry, ip, committed, out>>
  BY DEF ChildWrite, dirVars, jobVars, kvsVars
<1>2. \A f \in JobFiles : Executed(f)' = Executed(f)
  BY <1>1, ProgressMade
<1>3. CommandsDone' = CommandsDone
  BY <1>2 DEF CommandsDone
<1>4. BackupNames(JobFiles) \subseteq Names
  BY FileAssumption DEF Names, BackupNames
<1>5. \A n \in BackupNames(JobFiles) : BackupOf(n)' = BackupOf(n)
  BY <1>4, ChildStutters
<1> QED
  BY <1>1, <1>3, <1>5, BackupsStay

\* Every step of a job thread and of a child is a step of the service or leaves it as it is.
LEMMA StepSimulates ==
  ASSUME DistinctStems, OneBuffer, IInv, IInv', BackupsApart, [Next]_vars
  PROVE  [Service!Next]_<<committed, CommandsDone, out, BackupsMade>>
<1>1. ASSUME NEW t \in Threads, EndStep(t)
      PROVE  Service!Next
  <2> DEFINE g == File(t)
  <2>1. g \in JobFiles /\ \/ Service!Write(g) \/ Service!Delete(g) \/ Service!Read(g)
                          \/ Service!Show(g) \/ Service!Backup(g) \/ Service!Other(g)
    <3>1. CASE WriteUnlock(t)
      <4>1. pc[t] = "write" \/ pc[t] = "delete"
        BY <3>1 DEF WriteUnlock
      <4> QED
        BY <3>1, <4>1, WriteSimulates, DeleteSimulates
    <3>2. CASE ReadUnlock(t)
      <4>1. pc[t] = "read" \/ pc[t] = "show"
        BY <3>2 DEF ReadUnlock
      <4> QED
        BY <3>2, <4>1, ReadSimulates, ShowSimulates
    <3>3. CASE Backup(t)
      BY <3>3, BackupSimulates
    <3>4. CASE Other(t)
      BY <3>4, OtherSimulates
    <3> QED
      BY <1>1, <3>1, <3>2, <3>3, <3>4 DEF EndStep
  <2> HIDE DEF g
  <2> QED
    BY <2>1 DEF Service!Next
<1>2. ASSUME NEW t \in Threads, ThreadStep(t), ~ EndStep(t)
      PROVE  UNCHANGED <<committed, CommandsDone, out, BackupsMade>>
  <2>1. (\A f \in JobFiles : Executed(f)' = Executed(f)) /\ UNCHANGED <<committed, out, children, bck>>
    BY <1>2, ThreadStutters
  <2>2. CommandsDone' = CommandsDone
    BY <2>1 DEF CommandsDone
  <2> QED
    BY <2>1, <2>2, BackupsSame
<1>3. ASSUME NEW c \in children, ChildWrite(c)
      PROVE  UNCHANGED <<committed, CommandsDone, out, BackupsMade>>
  BY <1>3, ChildSimulates
<1>4. CASE UNCHANGED vars
  <2>1. UNCHANGED <<next, entry, ip, committed, out, children, bck>>
    BY <1>4 DEF vars, dirVars, jobVars, kvsVars, bckVars
  <2>2. \A f \in JobFiles : Executed(f)' = Executed(f)
    BY <2>1, ProgressMade
  <2>3. CommandsDone' = CommandsDone
    BY <2>2 DEF CommandsDone
  <2> QED
    BY <2>1, <2>3, BackupsSame
<1> QED
  BY <1>1, <1>2, <1>3, <1>4 DEF Next

\* The threads begin where the service begins.
LEMMA InitSimulates == Init => Service!Init /\ BackupsApart
<1> SUFFICES ASSUME Init
             PROVE  Service!Init /\ BackupsApart
  OBVIOUS
<1>1. /\ next = 1 /\ entry = [t \in Threads |-> 0] /\ out = [f \in JobFiles |-> <<>>]
      /\ children = {} /\ bck = [n \in Names |-> NoBackup] /\ committed = Contents(EmptyTable)
  BY DEF Init
<1>2. committed = [k \in Keys |-> Missing]
  BY <1>1, ContentsEmpty
<1>3. CommandsDone = [f \in JobFiles |-> 0]
  <2>1. ASSUME NEW f \in JobFiles
        PROVE  Executed(f) = 0
    BY <1>1 DEF Executed, Finished
  <2> QED
    BY <2>1 DEF CommandsDone
<1>4. BackupsMade = [n \in BackupNames(JobFiles) |-> NoBackup]
  <2>1. BackupNames(JobFiles) \subseteq Names
    BY FileAssumption DEF Names, BackupNames
  <2>2. \A n \in BackupNames(JobFiles) : BackupOf(n) = NoBackup
    BY <1>1, <2>1 DEF BackupOf
  <2> QED
    BY <2>2 DEF BackupsMade
<1>5. Service!Names = BackupNames(JobFiles)
  BY Zenon DEF Service!Names, BackupNames, Service!Cardinality, Cardinality
<1>6. BackupsApart
  BY <1>1 DEF BackupsApart
<1> QED
  BY <1>1, <1>2, <1>3, <1>4, <1>5, <1>6 DEF Service!Init

-----------------------------------------------------------------------------
(* The theorems.                                                           *)

\* No two children write to the same file, and the file is that of a BACKUP that was
\* executed: when job files differ in their names up to the first dot, and readdir
\* does not fill its buffer anew (kvs_backup, run_job).
THEOREM ApartTheorem == DistinctStems /\ OneBuffer => (Spec => []BackupsApart)
<1> SUFFICES ASSUME DistinctStems, OneBuffer
             PROVE  Spec => []BackupsApart
  OBVIOUS
<1>1. Init => BackupsApart
  BY InitSimulates
<1>2. IInv /\ IInv' /\ BackupsApart /\ [Next]_vars => BackupsApart'
  BY ApartStep
<1> QED
  BY <1>1, <1>2, Invariance, PTL DEF Spec

\* The job threads implement JobService: whatever their number, the chains and the
\* order of their steps, each command of a job file takes effect once, in its
\* place and at one moment (get_file, run_job, kvs_write ... kvs_backup).
THEOREM Refinement == DistinctStems /\ OneBuffer => (Spec => ImplementsService)
<1> SUFFICES ASSUME DistinctStems, OneBuffer
             PROVE  Spec => ImplementsService
  OBVIOUS
<1>1. Init => Service!Init
  BY InitSimulates
<1>2. IInv /\ IInv' /\ BackupsApart /\ [Next]_vars
        => [Service!Next]_(Service!vars)
  BY StepSimulates DEF Service!vars
<1>3. Spec => []BackupsApart
  BY ApartTheorem
<1> QED
  BY <1>1, <1>2, <1>3, Invariance, PTL DEF Spec, ImplementsService, Service!Spec
=============================================================================
