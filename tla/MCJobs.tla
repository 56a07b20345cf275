------------------------------- MODULE MCJobs -------------------------------
(* Values for the constants of Jobs.                                       *)
EXTENDS Jobs

CONSTANTS k1, k2, k3, k4, v1, v2

\* Three keys in one chain, so that the first, a middle and the last node of a
\* chain can be deleted.
TwoChains == (k1 :> 0) @@ (k2 :> 0) @@ (k3 :> 0) @@ (k4 :> 1)

\* Files that are not jobs, and a job file that does not open.
Entries == <<"one.job", "bad.job", "one.out", "two.job", "two.out", "three.job">>

Stems == "one.job" :> "one" @@ "bad.job" :> "bad" @@ "one.out" :> "one"
         @@ "two.job" :> "two" @@ "two.out" :> "two" @@ "three.job" :> "three"

WRITE(pairs) == [op |-> "write", batch |-> pairs]
READ(ks)     == [op |-> "read", batch |-> ks]
DELETE(ks)   == [op |-> "delete", batch |-> ks]
Single(op)   == [op |-> op, batch |-> <<>>]

Programs ==
  "one.job" :> <<WRITE(<<<<k1, v1>>, <<k2, v1>>, <<k4, v1>>>>),
                 READ(<<k4, k2>>), DELETE(<<k2, k3, k2>>)>>
  @@ "bad.job" :> <<Single("show")>>
  @@ "two.job" :> <<DELETE(<<k1, k4>>), Single("backup"), Single("other"), Single("backup")>>
  @@ "three.job" :> <<WRITE(<<<<k3, v1>>, <<k2, v2>>>>), Single("show")>>
=============================================================================
