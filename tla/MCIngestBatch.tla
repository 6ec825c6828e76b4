---------------------------- MODULE MCIngestBatch ----------------------------
EXTENDS IngestBatch

CONSTANTS full, quick, ws, other, text,     \* requests
          f1, f2, f3, bad,                  \* statements
          u1, u2, w, site

(* A conversation that states a thing twice, one that another client       *)
(* captured, two users in a workspace and a text stored as it is.          *)
MCJob ==
  (full :> [mode |-> "full", user |-> u1, workspace |-> None, site |-> site,
            session |-> 1, facts |-> <<f1, f1, f2, f1>>])
  @@ (quick :> [mode |-> "quick", user |-> u1, workspace |-> None,
                site |-> site, session |-> 2, facts |-> <<bad, f2>>])
  @@ (ws :> [mode |-> "workspace", user |-> u1, workspace |-> w,
             site |-> site, session |-> 3, facts |-> <<f1, f3>>])
  @@ (other :> [mode |-> "workspace", user |-> u2, workspace |-> w,
                site |-> site, session |-> None, facts |-> <<f3>>])
  @@ (text :> [mode |-> "verbatim", user |-> u1, workspace |-> None,
               site |-> site, session |-> None, facts |-> <<f3>>])

MCAlike ==
  [f \in {f1, f2, f3, bad} |-> [g \in {f1, f2, f3, bad} |->
     CASE f = g -> 100
       [] {f, g} = {f1, f3} -> 96
       [] {f, g} = {f1, f2} -> 80
       [] {f, g} = {f2, f3} -> 60
       [] OTHER -> 10]]

MCKeywords ==
  (f1 :> {"a", "b"}) @@ (f2 :> {"a"}) @@ (f3 :> {"b"}) @@ (bad :> {})

MCWords ==
  (f1 :> {"x", "y"}) @@ (f2 :> {"x"}) @@ (f3 :> {"x", "z"}) @@ (bad :> {})

MCLiterals == (f1 :> {}) @@ (f2 :> {"q"}) @@ (f3 :> {"q"}) @@ (bad :> {})

(* The first two state one relation of the same two entities.              *)
MCSlot ==
  [f \in {f1, f2, f3, bad} |-> IF f \in {f1, f2} THEN "relation" ELSE None]

MCFindings ==
  [f \in {f1, f2, f3, bad} |->
     [injections |-> IF f = bad THEN 1 ELSE 0,
      anomalies |-> IF f = f3 THEN 1 ELSE 0]]

MCTogether == {{full, quick, text}, {ws, other}}

MCMaxAttempts ==
  [j \in {full, quick, ws, other, text} |->
     IF j \in {full, ws} THEN 2 ELSE 1]

MCSettings ==
  [candidate |-> 70, duplicate |-> 95, link |-> 70, cluster |-> 55,
   minCluster |-> 2, maxCluster |-> 3, composites |-> TRUE, fastAudn |-> TRUE,
   trustScoring |-> TRUE, minTrust |-> 3,
   entropyGate |-> TRUE, entropyThreshold |-> 5, alpha |-> 50]

=============================================================================
