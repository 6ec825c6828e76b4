--------------------------- MODULE MCMemoryUpkeep ---------------------------
EXTENDS MemoryUpkeep

CONSTANTS s1, s2, s3, s4,            \* ingests
          fill,                      \* backfill
          k1, k2, decay, reset, drop, edit, o1, o2,
          n1, n2, n3, firm,          \* names: n2 is like n1 and n3
          a, b, c, d, e,             \* statements
          here, there                \* sites

Person(n) == [type |-> "person", name |-> n]
Firm == [type |-> "organization", name |-> firm]
Relation(type, n, m) == [source |-> n, type |-> type, target |-> m]
Ingest(f, mentioned, related) ==
  [fact |-> f, site |-> there, importance |-> 60,
   mentions |-> mentioned, relations |-> related]

MCStores ==
  (s1 :> Ingest(a, <<Person(n1), Person(n2)>>,
                <<Relation("knows", n1, n2)>>))
  @@ (s2 :> Ingest(b, <<Person(n3), Person(n2)>>, <<>>))
  @@ (s3 :> Ingest(c, <<Person(n3)>>, <<>>))
  @@ (s4 :> Ingest(d, <<Person(n3), Firm>>,
                   <<Relation("works_at", n3, firm)>>))

MCNormal == [n \in {n1, n2, n3, firm} |-> n]
MCNear ==
  [n \in {n1, n2, n3, firm} |-> [m \in {n1, n2, n3, firm} |->
     CASE n = m -> 100
       [] {n, m} = {n1, n2} -> 93
       [] {n, m} = {n2, n3} -> 96
       [] OTHER -> 60]]

MCWork ==
  (k1 :> [kind |-> "consolidate"]) @@ (k2 :> [kind |-> "consolidate"])
  @@ (decay :> [kind |-> "decay"])
  @@ (reset :> [kind |-> "reset", site |-> there])
  @@ (drop :> [kind |-> "delete"])
  @@ (edit :> [kind |-> "update", fact |-> e, site |-> there,
               importance |-> 40])
  @@ (o1 :> [kind |-> "opinion", action |-> "SUPERSEDE", fact |-> d,
             site |-> here])
  @@ (o2 :> [kind |-> "opinion", action |-> "NOOP", fact |-> e,
             site |-> there])

MCAlike ==
  [f \in {a, b, c, d, e} |-> [g \in {a, b, c, d, e} |->
     CASE f = g -> 100
       [] {f, g} \subseteq {a, b, c} -> 95
       [] OTHER -> 20]]

MCRecency == [t \in 0..60 |-> IF t < 10 THEN 95 ELSE IF t < 40 THEN 60 ELSE 5]

MCSettings ==
  [beta |-> 90, affinity |-> 88, minCluster |-> 2,
   consolidationPage |-> 3, decayPage |-> 4,
   importanceWeight |-> 40, recencyWeight |-> 40, accessWeight |-> 20,
   retention |-> 25, minAge |-> 7]

Kept(f, site) ==
  [NewRow({f}, site, 50) EXCEPT !.claim = "open", !.versions = {site},
                                !.current = site, !.age = 3]

(* Two rows of two sites that belong together, one nobody asked for in a   *)
(* long time, and an opinion that is nearly given up.                      *)
MCRows ==
  << Kept(a, here), Kept(b, there),
     [Kept(c, here) EXCEPT !.age = 30, !.idle = 50, !.importance = 10],
     [Kept(d, here) EXCEPT !.confidence = 20] >>

Entity(mention) ==
  [type |-> mention.type, name |-> mention.name, names |-> {mention.name}]

Bare(jobs) == [jobs |-> jobs, rows |-> <<>>, entities |-> <<>>]
Known(jobs) == [jobs |-> jobs, rows |-> <<>>,
                entities |-> <<Entity(Person(n3)), Entity(Firm)>>]
On(jobs) == [jobs |-> jobs, rows |-> MCRows, entities |-> <<>>]

MCScenarios ==
  {Bare({s1, s2}), Bare({s3, s4}), Known({s3, s4}), Bare({s4, fill, reset}),
   On({k1, k2}), On({k1, drop}), On({k1, decay, edit}), On({k1, reset, edit}),
   On({o1, o2, decay}), On({k1, s3})}

=============================================================================
