--------------------------- MODULE PublicationProofs ---------------------------
(******************************************************************************)
(* What readers find beside the partitions, for any number of versions,      *)
(* failures and dropped jobs: published histories have their stations,       *)
(* documents agree with the objects they hash, and a chain that ends has     *)
(* published what its compaction left.  And what a client gets that lists    *)
(* the bucket page by page, for any keys and pages: Listing has names of its *)
(* own, so both can be extended here.                                        *)
(******************************************************************************)
EXTENDS Publication, Listing, SequenceTheorems, FiniteSetTheorems,
        WellFoundedInduction, TLAPS

--------------------------------------------------------------------------------
(* The steps of the jobs *)

Kinds == {"get", "put", "build", "fold", "load", "describe", "root"}
Names == {"networks", "variables", "frequencies", "stations", "histories",
          "observations", "manifest", "summary", "catalog"}

Steps == [do : Kinds, of : Names]

LEMMA Listed ==
    ASSUME NEW T, NEW n \in Nat, NEW s \in [1 .. n -> T]
    PROVE  s \in Seq(T) /\ Len(s) = n
<1>1. s \in Seq(T)
    BY SeqDef
<1>2. Len(s) \in Nat /\ DOMAIN s = 1 .. Len(s)
    BY <1>1, LenProperties
<1>3. DOMAIN s = 1 .. n
    OBVIOUS
<1> QED
    BY <1>1, <1>2, <1>3

LEMMA Concatenated ==
    ASSUME NEW s \in Seq(Steps), NEW t \in Seq(Steps)
    PROVE  /\ s \o t \in Seq(Steps)
           /\ Len(s \o t) = Len(s) + Len(t)
           /\ \A i \in 1 .. Len(s) + Len(t) :
                 (s \o t)[i] = IF i <= Len(s) THEN s[i] ELSE t[i - Len(s)]
    BY ConcatProperties

\* Five requests, then five writes: the stations are asked for before the
\* histories and written before them.
LEMMA MetadataSteps ==
    LET S == StepsOf("metadata")
    IN  /\ S \in Seq(Steps) /\ Len(S) = 10
        /\ \A i \in 1 .. 10 : S[i].do = IF i <= 5 THEN "get" ELSE "put"
        /\ \A i \in 1 .. 5 : S[i].of = "stations" <=> i = 4
        /\ \A i \in 6 .. 10 :
              /\ S[i].of = "stations" <=> i = 8
              /\ S[i].of = "histories" <=> i = 9
              /\ S[i].of \notin {"manifest", "summary"}
        /\ \A i \in 1 .. 5 : S[i].of \notin {"manifest", "summary"}
<1> DEFINE g == <<"networks", "variables", "frequencies", "stations", "histories">>
           p == <<"networks", "variables", "stations", "histories", "frequencies">>
           G == Each("get", g)
           P == Each("put", p)
<1>1. /\ G = [i \in 1 .. 5 |-> [do |-> "get", of |-> g[i]]]
      /\ P = [i \in 1 .. 5 |-> [do |-> "put", of |-> p[i]]]
    BY DEF Each
<1>2. /\ \A i \in 1 .. 5 : g[i] \in Names /\ p[i] \in Names
      /\ \A i \in 1 .. 5 : g[i] = "stations" <=> i = 4
      /\ \A i \in 1 .. 5 : p[i] = "stations" <=> i = 3
      /\ \A i \in 1 .. 5 : p[i] = "histories" <=> i = 4
      /\ \A i \in 1 .. 5 : g[i] \notin {"manifest", "summary"}
      /\ \A i \in 1 .. 5 : p[i] \notin {"manifest", "summary"}
    BY DEF Names
<1>3. StepsOf("metadata") = G \o P
    BY DEF StepsOf, Fetches, Writes
<1> HIDE DEF g, p
<1>4. G \in [1 .. 5 -> Steps] /\ P \in [1 .. 5 -> Steps]
    BY <1>1, <1>2 DEF Steps, Kinds, Names
<1>5. G \in Seq(Steps) /\ P \in Seq(Steps) /\ Len(G) = 5 /\ Len(P) = 5
    BY <1>4, Listed
<1>6. /\ \A i \in 1 .. 5 : G[i].do = "get" /\ G[i].of = g[i]
      /\ \A i \in 1 .. 5 : P[i].do = "put" /\ P[i].of = p[i]
    BY <1>1
<1> HIDE DEF G, P
<1>7. /\ G \o P \in Seq(Steps) /\ Len(G \o P) = 10
      /\ \A i \in 1 .. 10 : (G \o P)[i] = IF i <= 5 THEN G[i] ELSE P[i - 5]
  <2>1. /\ G \o P \in Seq(Steps) /\ Len(G \o P) = Len(G) + Len(P)
        /\ \A i \in 1 .. Len(G) + Len(P) :
              (G \o P)[i] = IF i <= Len(G) THEN G[i] ELSE P[i - Len(G)]
    BY <1>5, Concatenated
  <2>2. Len(G) + Len(P) = 10
    BY <1>5
  <2> QED
    BY <1>5, <2>1, <2>2
<1> QED
  <2> DEFINE S == G \o P
  <2>0. \A i \in 1 .. 10 : S[i] = IF i <= 5 THEN G[i] ELSE P[i - 5]
    BY <1>7
  <2> HIDE DEF S
  <2>5. \A i \in 1 .. 5 : i \in 1 .. 10 /\ i <= 5
    OBVIOUS
  <2>6. \A i \in 6 .. 10 : i \in 1 .. 10 /\ ~(i <= 5) /\ i - 5 \in 1 .. 5
    OBVIOUS
  <2>7. \A i \in 1 .. 5 : S[i] = G[i]
    BY <2>0, <2>5
  <2>8. \A i \in 6 .. 10 : S[i] = P[i - 5] /\ i - 5 \in 1 .. 5
    BY <2>0, <2>6
  <2>9. \A i \in 1 .. 5 : S[i].do = "get" /\ S[i].of = g[i]
    BY <1>6, <2>7
  <2>10. \A i \in 6 .. 10 : i - 5 \in 1 .. 5 /\ S[i].do = "put" /\ S[i].of = p[i - 5]
    BY <1>6, <2>8
  <2>1. /\ \A i \in 1 .. 5 : S[i].do = "get" /\ S[i].of = g[i]
        /\ \A i \in 6 .. 10 : i - 5 \in 1 .. 5 /\ S[i].do = "put" /\ S[i].of = p[i - 5]
    BY <2>9, <2>10
  <2>2. \A i \in 1 .. 10 : S[i].do = IF i <= 5 THEN "get" ELSE "put"
    BY <2>1
  <2>3. \A i \in 1 .. 5 :
           /\ S[i].of = "stations" <=> i = 4
           /\ S[i].of \notin {"manifest", "summary"}
    BY <1>2, <2>1
  <2>4. \A i \in 6 .. 10 :
           /\ S[i].of = "stations" <=> i = 8
           /\ S[i].of = "histories" <=> i = 9
           /\ S[i].of \notin {"manifest", "summary"}
    BY <1>2, <2>1
  <2> QED
    BY <1>3, <1>7, <2>2, <2>3, <2>4 DEF S

LEMMA Single ==
    ASSUME NEW T, NEW x \in T
    PROVE  <<x>> \in Seq(T) /\ Len(<<x>>) = 1 /\ <<x>>[1] = x
    OBVIOUS

LEMMA RebuildSteps ==
    /\ Rebuild \in Seq(Steps) /\ Len(Rebuild) = 3
    /\ Rebuild[1] = [do |-> "build", of |-> "manifest"]
    /\ Rebuild[2] = [do |-> "put", of |-> "manifest"]
    /\ Rebuild[3] = [do |-> "put", of |-> "summary"]
<1> DEFINE b == [do |-> "build", of |-> "manifest"]
           p == <<"manifest", "summary">>
           P == Each("put", p)
<1>1. P = [i \in 1 .. 2 |-> [do |-> "put", of |-> p[i]]]
    BY DEF Each
<1>2. /\ \A i \in 1 .. 2 : p[i] \in Names
      /\ p[1] = "manifest" /\ p[2] = "summary"
    BY DEF Names
<1>3. b \in Steps
    BY DEF Steps, Kinds, Names
<1>4. Rebuild = <<b>> \o P
    BY DEF Rebuild
<1>5. b = [do |-> "build", of |-> "manifest"]
    OBVIOUS
<1> HIDE DEF b, p, P
<1>6. P \in [1 .. 2 -> Steps]
    BY <1>1, <1>2 DEF Steps, Kinds, Names
<1>7. P \in Seq(Steps) /\ Len(P) = 2
    BY <1>6, Listed
<1>8. <<b>> \in Seq(Steps) /\ Len(<<b>>) = 1 /\ <<b>>[1] = b
    BY <1>3, Single
<1> DEFINE B == <<b>>
<1> HIDE DEF B
<1>9. /\ B \o P \in Seq(Steps) /\ Len(B \o P) = 3
      /\ \A i \in 1 .. 3 : (B \o P)[i] = IF i <= 1 THEN B[i] ELSE P[i - 1]
  <2>1. B \in Seq(Steps) /\ Len(B) = 1
    BY <1>8 DEF B
  <2>2. /\ B \o P \in Seq(Steps) /\ Len(B \o P) = Len(B) + Len(P)
        /\ \A i \in 1 .. Len(B) + Len(P) :
              (B \o P)[i] = IF i <= Len(B) THEN B[i] ELSE P[i - Len(B)]
    BY <1>7, <2>1, Concatenated
  <2>3. Len(B) + Len(P) = 3
    BY <1>7, <2>1
  <2> QED
    BY <2>1, <2>2, <2>3
<1>10. (B \o P)[1] = b /\ (B \o P)[2] = P[1] /\ (B \o P)[3] = P[2]
    BY <1>8, <1>9 DEF B
<1> QED
    BY <1>1, <1>2, <1>4, <1>5, <1>9, <1>10 DEF B

LEMMA CatalogSteps == StepsOf("catalog") = Rebuild
    BY DEF StepsOf

LEMMA CompactSteps ==
    LET S == StepsOf("compact")
    IN  /\ S \in Seq(Steps) /\ Len(S) = 4
        /\ S[1] = [do |-> "fold", of |-> "observations"]
        /\ S[2] = [do |-> "build", of |-> "manifest"]
        /\ S[3] = [do |-> "put", of |-> "manifest"]
        /\ S[4] = [do |-> "put", of |-> "summary"]
<1> DEFINE f == [do |-> "fold", of |-> "observations"]
<1>1. f \in Steps
    BY DEF Steps, Kinds, Names
<1>2. StepsOf("compact") = <<f>> \o Rebuild
    BY DEF StepsOf
<1>3. f = [do |-> "fold", of |-> "observations"]
    OBVIOUS
<1> HIDE DEF f
<1> DEFINE F == <<f>>
<1>4. F \in Seq(Steps) /\ Len(F) = 1 /\ F[1] = f
    BY <1>1, Single
<1> HIDE DEF F
<1>5. /\ F \o Rebuild \in Seq(Steps) /\ Len(F \o Rebuild) = 4
      /\ \A i \in 1 .. 4 :
            (F \o Rebuild)[i] = IF i <= 1 THEN F[i] ELSE Rebuild[i - 1]
  <2> DEFINE R == Rebuild
  <2>1. R \in Seq(Steps) /\ Len(R) = 3
    BY RebuildSteps
  <2> HIDE DEF R
  <2>2. /\ F \o R \in Seq(Steps) /\ Len(F \o R) = Len(F) + Len(R)
        /\ \A i \in 1 .. Len(F) + Len(R) :
              (F \o R)[i] = IF i <= Len(F) THEN F[i] ELSE R[i - Len(F)]
    BY <1>4, <2>1, Concatenated
  <2>3. Len(F) + Len(R) = 4
    BY <1>4, <2>1
  <2>4. /\ F \o R \in Seq(Steps) /\ Len(F \o R) = 4
        /\ \A i \in 1 .. 4 : (F \o R)[i] = IF i <= 1 THEN F[i] ELSE R[i - 1]
    BY <1>4, <2>2, <2>3
  <2> QED
    BY <2>4 DEF R
<1>6. /\ (F \o Rebuild)[1] = f /\ (F \o Rebuild)[2] = Rebuild[1]
      /\ (F \o Rebuild)[3] = Rebuild[2] /\ (F \o Rebuild)[4] = Rebuild[3]
    BY <1>4, <1>5
<1> QED
    BY <1>2, <1>3, <1>5, <1>6, RebuildSteps DEF F

LEMMA Eleven ==
    ASSUME NEW T, NEW a \in T, NEW b \in T, NEW c \in T, NEW d \in T, NEW e \in T,
           NEW f \in T, NEW g \in T, NEW h \in T, NEW i \in T, NEW j \in T, NEW k \in T
    PROVE  /\ <<a, b, c, d, e, f, g, h, i, j, k>> \in Seq(T)
           /\ Len(<<a, b, c, d, e, f, g, h, i, j, k>>) = 11
    OBVIOUS

\* A table is loaded right before its document is written.
LEMMA PortolanSteps ==
    LET S == StepsOf("portolan")
    IN  /\ S \in Seq(Steps) /\ Len(S) = 11
        /\ S[1] = Load("observations") /\ S[10] = Describe("observations")
        /\ \A i \in 1 .. 11 : S[i].do \in {"load", "describe", "root"}
        /\ \A i \in 1 .. 11 : S[i].do # "root" =>
              S[i].of \in {"networks", "variables", "stations", "histories",
                          "observations"}
        /\ \A i \in 2 .. 11 : S[i].do = "load" => S[i].of # "observations"
        /\ \A i \in 1 .. 11 : S[i].do = "describe" /\ S[i].of = "observations" => i = 10
        /\ \A i \in 1 .. 11 : S[i].do = "describe" /\ S[i].of # "observations" =>
              /\ i > 2
              /\ S[i - 1].do = "load" /\ S[i - 1].of = S[i].of
        /\ \A i \in 1 .. 11 : S[i].do = "load" => i <= 8
        /\ \A i \in 1 .. 11 :
              S[i].do = "load" /\ S[i].of # "observations" /\ S[i + 2].do = "describe"
              => S[i + 2].of = "observations"
<1> DEFINE S == StepsOf("portolan")
<1>1. S = <<Load("observations"),
            Load("networks"), Describe("networks"),
            Load("variables"), Describe("variables"),
            Load("stations"), Describe("stations"),
            Load("histories"), Describe("histories"),
            Describe("observations"), [do |-> "root", of |-> "catalog"]>>
    BY DEF StepsOf
<1>2. \A c \in Names : Load(c) \in Steps /\ Describe(c) \in Steps
    BY DEF Steps, Kinds, Names, Load, Describe
<1>3. S \in Seq(Steps) /\ Len(S) = 11
  <2> DEFINE r == [do |-> "root", of |-> "catalog"]
  <2>1. r \in Steps
    BY DEF Steps, Kinds, Names
  <2>2. /\ Load("observations") \in Steps /\ Describe("observations") \in Steps
        /\ Load("networks") \in Steps /\ Describe("networks") \in Steps
        /\ Load("variables") \in Steps /\ Describe("variables") \in Steps
        /\ Load("stations") \in Steps /\ Describe("stations") \in Steps
        /\ Load("histories") \in Steps /\ Describe("histories") \in Steps
    BY <1>2 DEF Names
  <2>3. S = <<Load("observations"),
              Load("networks"), Describe("networks"),
              Load("variables"), Describe("variables"),
              Load("stations"), Describe("stations"),
              Load("histories"), Describe("histories"),
              Describe("observations"), r>>
    BY <1>1
  <2> HIDE DEF r, S
  <2> QED
    BY <2>1, <2>2, <2>3, Eleven
<1> USE DEF Load, Describe
<1>4. /\ S[1] = Load("observations") /\ S[2] = Load("networks")
      /\ S[3] = Describe("networks") /\ S[4] = Load("variables")
      /\ S[5] = Describe("variables") /\ S[6] = Load("stations")
      /\ S[7] = Describe("stations") /\ S[8] = Load("histories")
      /\ S[9] = Describe("histories") /\ S[10] = Describe("observations")
      /\ S[11] = [do |-> "root", of |-> "catalog"]
    BY <1>1
<1> HIDE DEF S
<1>5. \A i \in 1 .. 11 : i = 1 \/ i = 2 \/ i = 3 \/ i = 4 \/ i = 5 \/ i = 6 \/ i = 7
                         \/ i = 8 \/ i = 9 \/ i = 10 \/ i = 11
    OBVIOUS
<1>6. \A i \in 1 .. 11 : S[i].do \in {"load", "describe", "root"}
    BY <1>4, <1>5
<1>7. \A i \in 2 .. 11 : S[i].do = "load" => S[i].of # "observations"
    BY <1>4, <1>5
<1>8. \A i \in 1 .. 11 : S[i].do = "describe" /\ S[i].of = "observations" => i = 10
    BY <1>4, <1>5
<1>9. \A i \in 1 .. 11 : S[i].do = "describe" /\ S[i].of # "observations" =>
              /\ i > 2
              /\ S[i - 1].do = "load" /\ S[i - 1].of = S[i].of
    BY <1>4, <1>5
<1>10. \A i \in 1 .. 11 : S[i].do = "load" => i <= 8
    BY <1>4, <1>5
<1>11. \A i \in 1 .. 11 :
              S[i].do = "load" /\ S[i].of # "observations" /\ S[i + 2].do = "describe"
              => S[i + 2].of = "observations"
    BY <1>4, <1>5
<1>12. \A i \in 1 .. 11 : S[i].do # "root" =>
              S[i].of \in {"networks", "variables", "stations", "histories",
                          "observations"}
    BY <1>4, <1>5
<1> QED
    BY <1>3, <1>4, <1>6, <1>7, <1>8, <1>9, <1>10, <1>11, <1>12 DEF S

--------------------------------------------------------------------------------
(* The invariant.  What a workflow holds is said by how many steps its job   *)
(* has left; a job that has begun runs, so all the other workflows are at    *)
(* the first step of theirs.                                                 *)

Archiving == {"compact", "backfill"}

Left(w) == Len(todo[w])

Shapes ==
    /\ upstream \in Nat /\ obs \in Nat
    /\ store \in [Objects -> Nat]
    /\ DOMAIN docs = Collections
    /\ line \in Seq(Workflows) /\ Len(line) <= 2
    /\ at \in [Workflows -> 0 .. 3] /\ at["metadata"] <= 1
    /\ todo \in [Workflows -> Seq(Steps)]
    /\ mem \in [Workflows -> [Objects -> Nat]]
    /\ made \in [Workflows -> Nat]

\* What a job has left is the end of its steps.
InCourse(w) ==
    /\ at[w] = 0 => todo[w] = <<>>
    /\ at[w] # 0 =>
          LET S == StepsOf(Job(w)) IN
          /\ Left(w) <= Len(S)
          /\ \A i \in 1 .. Left(w) : todo[w][i] = S[Len(S) - Left(w) + i]
          /\ Left(w) < Len(S) => Runs(w)

\* No version is newer than its source.
Old(w) ==
    /\ mem[w]["stations"] <= upstream
    /\ mem[w]["manifest"] <= obs /\ mem[w]["summary"] <= obs
    /\ made[w] <= obs

\* Once a refresh has asked for the stations it holds some at least as new as
\* the published ones, and the same ones once it has written them.
Refreshing(w) ==
    w = "metadata" /\ at[w] = 1 =>
       /\ Left(w) <= 6 => store["stations"] <= mem[w]["stations"]
       /\ Left(w) <= 2 => store["stations"] = mem[w]["stations"]

\* A manifest that has been built is no older than the one it replaces.
Rebuilding(w) ==
    w \in Archiving /\ at[w] \in {1, 2} /\ Left(w) \in {1, 2} =>
       /\ store["manifest"] <= mem[w]["manifest"]
       /\ store["summary"] <= mem[w]["summary"]

\* Along the chain, what compaction left goes to the manifest, to the summary,
\* to the summary portolan has read and to the document.
Cataloguing(w) ==
    w \in Archiving /\ at[w] = 2 =>
       /\ Left(w) <= 2 => made[w] <= mem[w]["manifest"] /\ made[w] <= mem[w]["summary"]
       /\ Left(w) <= 1 => made[w] <= store["manifest"]
       /\ Left(w) = 0 => made[w] <= store["summary"]

Documented(w) ==
    /\ made[w] <= docs["observations"].table
    /\ made[w] <= docs["observations"].sums["manifest"]

Documenting(w) ==
    w \in Archiving /\ at[w] = 3 =>
       /\ made[w] <= store["manifest"] /\ made[w] <= store["summary"]
       /\ Left(w) <= 10 => made[w] <= mem[w]["summary"]
       /\ Left(w) <= 1 /\ made[w] > 1 => Documented(w)

\* A table that is about to be described is the one that was loaded.
Loaded(w) ==
    w \in Archiving /\ at[w] = 3 /\ todo[w] # <<>> =>
       LET step == todo[w][1] IN
       step.do = "describe" /\ step.of # "observations" =>
          mem[w][step.of] = store[step.of]

Sound(w) ==
    InCourse(w) /\ Old(w) /\ Refreshing(w) /\ Rebuilding(w) /\ Cataloguing(w)
    /\ Documenting(w) /\ Loaded(w)

Published ==
    /\ store["histories"] <= store["stations"]
    /\ store["stations"] <= upstream
    /\ store["manifest"] <= obs /\ store["summary"] <= obs

PubInv ==
    /\ Shapes
    /\ Published
    /\ \A w \in Workflows : Sound(w)
    /\ DocAgreesWithItself

--------------------------------------------------------------------------------
(* Where a job is *)

LEMMA Things ==
    /\ Collections = {"networks", "variables", "stations", "histories", "observations"}
    /\ Range(Tables) = {"networks", "variables", "stations", "histories"}
    /\ Objects = {"networks", "variables", "frequencies", "stations", "histories",
                  "manifest", "summary"}
    /\ \A c \in Range(Tables) : c \in Assets[c]
    /\ "manifest" \in Assets["observations"]
<1>1. Range(Tables) = {"networks", "variables", "stations", "histories"}
  <2>1. DOMAIN Tables = 1 .. 4
    BY DEF Tables
  <2>2. /\ Tables[1] = "networks" /\ Tables[2] = "variables"
        /\ Tables[3] = "stations" /\ Tables[4] = "histories"
    BY DEF Tables
  <2> QED
    BY <2>1, <2>2 DEF Range
<1>2. Collections = {"networks", "variables", "stations", "histories", "observations"}
    BY <1>1 DEF Collections
<1>3. /\ Assets["networks"] = {"networks"}
      /\ Assets["variables"] = {"variables", "frequencies"}
      /\ Assets["stations"] = {"stations"} /\ Assets["histories"] = {"histories"}
      /\ Assets["observations"] = {"manifest"}
    BY DEF Assets
<1>4. Objects = {"networks", "variables", "frequencies", "stations", "histories",
                 "manifest", "summary"}
  <2>1. {Assets[c] : c \in Collections}
          = {{"networks"}, {"variables", "frequencies"}, {"stations"}, {"histories"},
             {"manifest"}}
    BY <1>2, <1>3
  <2>2. UNION {{"networks"}, {"variables", "frequencies"}, {"stations"}, {"histories"},
               {"manifest"}}
          = {"networks", "variables", "frequencies", "stations", "histories",
             "manifest"}
    OBVIOUS
  <2> QED
    BY <2>1, <2>2 DEF Objects
<1> QED
    BY <1>1, <1>2, <1>3, <1>4

Numbers ==
    /\ upstream \in Nat /\ obs \in Nat
    /\ \A o \in {"stations", "histories", "manifest", "summary"} : store[o] \in Nat
    /\ \A w \in Workflows :
          /\ made[w] \in Nat
          /\ \A o \in {"stations", "histories", "manifest", "summary"} : mem[w][o] \in Nat

LEMMA Numbered == Shapes => Numbers
<1>1. {"stations", "histories", "manifest", "summary"} \subseteq Objects
    BY Things
<1> QED
    BY <1>1 DEF Shapes, Numbers

LEMMA Jobs ==
    /\ Workflows = {"compact", "backfill", "metadata"}
    /\ JobsOf["metadata"] = <<"metadata">> /\ Len(JobsOf["metadata"]) = 1
    /\ \A w \in Archiving :
          /\ Len(JobsOf[w]) = 3
          /\ JobsOf[w][1] = "compact" /\ JobsOf[w][2] = "catalog"
          /\ JobsOf[w][3] = "portolan"
<1>1. Workflows = {"compact", "backfill", "metadata"}
    BY DEF Workflows, JobsOf
<1>2. JobsOf["metadata"] = <<"metadata">> /\ Len(JobsOf["metadata"]) = 1
    BY DEF JobsOf
<1>3. JobsOf["compact"] = Chain /\ JobsOf["backfill"] = Chain
    BY DEF JobsOf
<1>4. /\ Len(Chain) = 3
      /\ Chain[1] = "compact" /\ Chain[2] = "catalog" /\ Chain[3] = "portolan"
    BY DEF Chain
<1> QED
    BY <1>1, <1>2, <1>3, <1>4 DEF Archiving

LEMMA Places ==
    ASSUME Shapes, NEW w \in Workflows, at[w] # 0
    PROVE  at[w] \in 1 .. Len(JobsOf[w])
<1>1. at[w] \in 1 .. 3 /\ (w = "metadata" => at[w] = 1)
    BY DEF Shapes
<1>2. CASE w = "metadata"
    BY <1>1, <1>2, Jobs
<1>3. CASE w # "metadata"
  <2>1. w \in Archiving
    BY <1>3, Jobs DEF Archiving
  <2>2. Len(JobsOf[w]) = 3
    BY <2>1, Jobs
  <2> QED
    BY <1>1, <2>2
<1> QED
    BY <1>2, <1>3

LEMMA JobSteps ==
    ASSUME NEW w \in Workflows, NEW k \in 1 .. Len(JobsOf[w])
    PROVE  LET S == StepsOf(JobsOf[w][k])
           IN  /\ S \in Seq(Steps)
               /\ w = "metadata" => k = 1 /\ Len(S) = 10
               /\ w # "metadata" => w \in Archiving /\ k \in 1 .. 3
               /\ w \in Archiving /\ k = 1 => Len(S) = 4
               /\ w \in Archiving /\ k = 2 => Len(S) = 3
               /\ w \in Archiving /\ k = 3 => Len(S) = 11 /\ S[1] = Load("observations")
<1>1. CASE w = "metadata"
  <2>1. k = 1 /\ JobsOf[w][k] = "metadata"
    BY <1>1, Jobs
  <2> QED
    BY <1>1, <2>1, MetadataSteps DEF Archiving
<1>2. CASE w # "metadata"
  <2>1. w \in Archiving /\ k \in 1 .. 3
    BY <1>2, Jobs DEF Archiving
  <2>2. CASE k = 1
    BY <2>1, <2>2, <1>2, Jobs, CompactSteps
  <2>3. CASE k = 2
    BY <2>1, <2>3, <1>2, Jobs, CatalogSteps, RebuildSteps
  <2>4. CASE k = 3
    BY <2>1, <2>4, <1>2, Jobs, PortolanSteps
  <2> QED
    BY <2>1, <2>2, <2>3, <2>4
<1> QED
    BY <1>1, <1>2

\* The step a job is at, by how many it has left.
LEMMA Heads ==
    ASSUME Shapes, NEW w \in Workflows, InCourse(w), todo[w] # <<>>
    PROVE  LET n == Left(w)
               h == todo[w][1]
           IN  /\ n \in Nat \ {0} /\ h = Head(todo[w])
               /\ w \in Archiving <=> w # "metadata"
               /\ w = "metadata" =>
                     /\ at[w] = 1 /\ n \in 1 .. 10
                     /\ h.do = IF n >= 6 THEN "get" ELSE "put"
                     /\ n >= 6 => (h.of = "stations" <=> n = 7)
                     /\ n <= 5 => (h.of = "stations" <=> n = 3)
                     /\ n <= 5 => (h.of = "histories" <=> n = 2)
                     /\ h.of \notin {"manifest", "summary"}
               /\ w \in Archiving =>
                     /\ at[w] \in {1, 2, 3}
                     /\ at[w] = 1 => n \in 1 .. 4
                     /\ at[w] = 2 => n \in 1 .. 3
                     /\ at[w] \in {1, 2} =>
                           /\ n = 4 => h.do = "fold"
                           /\ n = 3 => h.do = "build"
                           /\ n = 2 => h.do = "put" /\ h.of = "manifest"
                           /\ n = 1 => h.do = "put" /\ h.of = "summary"
                     /\ at[w] = 3 =>
                           /\ n \in 1 .. 11
                           /\ h.do \in {"load", "describe", "root"}
                           /\ n = 11 => h.do = "load" /\ h.of = "observations"
                           /\ h.do = "load" /\ h.of = "observations" => n = 11
                           /\ h.do = "describe" /\ h.of = "observations" => n = 2
                           /\ n = 2 => h.do = "describe" /\ h.of = "observations"
                           /\ h.do = "load" => n >= 4
                           /\ h.do = "describe" => n < 11
                           /\ h.do # "root" =>
                                 h.of \in {"networks", "variables", "stations",
                                           "histories", "observations"}
<1> DEFINE n == Left(w)
           h == todo[w][1]
           S == StepsOf(Job(w))
<1>1. todo[w] \in Seq(Steps)
    BY DEF Shapes
<1>2. n \in Nat \ {0} /\ h = Head(todo[w])
    BY <1>1, EmptySeq, HeadTailProperties, LenProperties DEF Left
<1>3. at[w] # 0 /\ n <= Len(S) /\ h = S[Len(S) - n + 1] /\ at[w] \in {1, 2, 3}
    BY <1>2 DEF InCourse, Shapes
<1>4. CASE w = "metadata"
  <2>1. at[w] = 1
    BY <1>3, <1>4 DEF Shapes
  <2>2. S = StepsOf("metadata")
    BY <1>4, <2>1, Jobs DEF Job
  <2> DEFINE i == 11 - n
  <2>0. Len(S) = 10
    BY <2>2, MetadataSteps
  <2>3. Len(S) = 10 /\ n \in 1 .. 10 /\ h = S[i] /\ i \in 1 .. 10
    BY <1>2, <1>3, <2>0
  <2>4. n >= 6 <=> i \in 1 .. 5
    BY <2>3
  <2>5. n <= 5 <=> i \in 6 .. 10
    BY <2>3
  <2>6. h.do = IF n >= 6 THEN "get" ELSE "put"
    BY <2>2, <2>3, MetadataSteps
  <2>7. n >= 6 => (h.of = "stations" <=> n = 7) /\ h.of \notin {"manifest", "summary"}
    BY <2>2, <2>3, <2>4, MetadataSteps
  <2>8. n <= 5 => /\ h.of = "stations" <=> n = 3
                  /\ h.of = "histories" <=> n = 2
                  /\ h.of \notin {"manifest", "summary"}
    BY <2>2, <2>3, <2>5, MetadataSteps
  <2> QED
    BY <1>2, <1>4, <2>1, <2>3, <2>6, <2>7, <2>8 DEF Archiving
<1>5. CASE w # "metadata" /\ at[w] = 1
  <2>1. w \in Archiving /\ S = StepsOf("compact")
    BY <1>5, Jobs DEF Job, Archiving
  <2>0. Len(S) = 4
    BY <2>1, CompactSteps
  <2>2. n \in 1 .. 4 /\ h = S[5 - n]
    BY <1>2, <1>3, <2>0
  <2>3. /\ n = 4 => h.do = "fold"
        /\ n = 3 => h.do = "build"
        /\ n = 2 => h.do = "put" /\ h.of = "manifest"
        /\ n = 1 => h.do = "put" /\ h.of = "summary"
    BY <2>1, <2>2, CompactSteps
  <2> QED
    BY <1>2, <1>5, <2>1, <2>2, <2>3
<1>6. CASE w # "metadata" /\ at[w] = 2
  <2>1. w \in Archiving /\ S = Rebuild
    BY <1>6, Jobs, CatalogSteps DEF Job, Archiving
  <2>0. Len(S) = 3
    BY <2>1, RebuildSteps
  <2>2. n \in 1 .. 3 /\ h = S[4 - n]
    BY <1>2, <1>3, <2>0
  <2>3. /\ n = 3 => h.do = "build"
        /\ n = 2 => h.do = "put" /\ h.of = "manifest"
        /\ n = 1 => h.do = "put" /\ h.of = "summary"
    BY <2>1, <2>2, RebuildSteps
  <2> QED
    BY <1>2, <1>6, <2>1, <2>2, <2>3
<1>7. CASE w # "metadata" /\ at[w] = 3
  <2>1. w \in Archiving /\ S = StepsOf("portolan")
    BY <1>7, Jobs DEF Job, Archiving
  <2> DEFINE i == 12 - n
  <2>0. Len(S) = 11
    BY <2>1, PortolanSteps
  <2>2. Len(S) = 11 /\ n \in 1 .. 11 /\ h = S[i] /\ i \in 1 .. 11
    BY <1>2, <1>3, <2>0
  <2>3. /\ n = 11 => h.do = "load" /\ h.of = "observations"
        /\ n = 2 => h.do = "describe" /\ h.of = "observations"
    BY <2>1, <2>2, PortolanSteps DEF Load, Describe
  <2>4. h.do \in {"load", "describe", "root"}
    BY <2>1, <2>2, PortolanSteps
  <2>5. h.do = "load" /\ h.of = "observations" => n = 11
    <3>1. i # 1 => i \in 2 .. 11
        BY <2>2
    <3>2. i = 1 => n = 11
        BY <2>2
    <3> QED
        BY <2>1, <2>2, <3>1, <3>2, PortolanSteps
  <2>6. h.do = "describe" /\ h.of = "observations" => n = 2
    BY <2>1, <2>2, PortolanSteps
  <2>7. h.do = "load" => n >= 4
    BY <2>1, <2>2, PortolanSteps
  <2>8. h.do = "describe" => n < 11
    BY <2>2, <2>3
  <2>9. h.do # "root" =>
           h.of \in {"networks", "variables", "stations", "histories", "observations"}
    BY <2>1, <2>2, PortolanSteps
  <2> QED
    BY <1>2, <1>7, <2>1, <2>2, <2>3, <2>4, <2>5, <2>6, <2>7, <2>8, <2>9
<1> QED
    BY <1>3, <1>4, <1>5, <1>6, <1>7

--------------------------------------------------------------------------------
(* Jobs that begin, go on, wait and end *)

\* A job that does not run yet has all of its steps left.
LEMMA Whole ==
    ASSUME Shapes, NEW w \in Workflows, InCourse(w), at[w] # 0, ~Runs(w)
    PROVE  /\ at[w] \in 1 .. Len(JobsOf[w])
           /\ todo[w] = StepsOf(JobsOf[w][at[w]])
<1>1. at[w] \in 1 .. Len(JobsOf[w])
    BY Places
<1> DEFINE S == StepsOf(JobsOf[w][at[w]])
           t == todo[w]
<1>2. S \in Seq(Steps)
    BY <1>1, JobSteps
<1>3. t \in Seq(Steps)
    BY DEF Shapes
<1>4. /\ Len(t) <= Len(S)
      /\ \A i \in 1 .. Len(t) : t[i] = S[Len(S) - Len(t) + i]
      /\ ~(Len(t) < Len(S))
    BY DEF InCourse, Job, Left
<1> HIDE DEF S, t
<1>5. Len(t) \in Nat /\ Len(S) \in Nat
    BY <1>2, <1>3, LenProperties
<1>6. Len(t) = Len(S)
    BY <1>4, <1>5
<1>7. \A i \in 1 .. Len(t) : t[i] = S[i]
    BY <1>4, <1>5, <1>6
<1>8. t = S
    BY <1>2, <1>3, <1>6, <1>7, SeqEqual
<1> QED
    BY <1>1, <1>8 DEF S, t

LEMMA Begun ==
    ASSUME NEW w \in Workflows, NEW k \in 1 .. Len(JobsOf[w]),
           at'[w] = k, todo'[w] = StepsOf(JobsOf[w][k]), Old(w)',
           k = 3 => made'[w] <= store'["manifest"] /\ made'[w] <= store'["summary"]
    PROVE  Sound(w)'
<1> DEFINE S == StepsOf(JobsOf[w][k])
<1>1. /\ S \in Seq(Steps)
      /\ w = "metadata" => k = 1 /\ Len(S) = 10
      /\ w # "metadata" => w \in Archiving /\ k \in 1 .. 3
      /\ w \in Archiving /\ k = 1 => Len(S) = 4
      /\ w \in Archiving /\ k = 2 => Len(S) = 3
      /\ w \in Archiving /\ k = 3 => Len(S) = 11 /\ S[1] = Load("observations")
    BY JobSteps
<1>2. todo'[w] = S /\ Left(w)' = Len(S) /\ Job(w)' = JobsOf[w][k]
    BY DEF Left, Job
<1>3. Len(S) \in Nat /\ Len(S) # 0
    BY <1>1, LenProperties DEF Archiving
<1>4. InCourse(w)'
  <2>1. StepsOf(Job(w)') = S
    BY <1>2
  <2>2. \A i \in 1 .. Left(w)' : todo'[w][i] = S[Len(S) - Left(w)' + i]
    BY <1>2, <1>3
  <2>3. Left(w)' <= Len(S) /\ ~(Left(w)' < Len(S))
    BY <1>2, <1>3
  <2> HIDE DEF S
  <2> QED
    BY <2>1, <2>2, <2>3 DEF InCourse
<1> HIDE DEF S
<1>10. /\ at'[w] = k
       /\ w = "metadata" => Left(w)' = 10
       /\ w \in Archiving /\ k = 1 => Left(w)' = 4
       /\ w \in Archiving /\ k = 2 => Left(w)' = 3
       /\ w \in Archiving /\ k = 3 => Left(w)' = 11
    BY <1>1, <1>2
<1>5. Refreshing(w)'
    BY <1>10 DEF Refreshing
<1>6. Rebuilding(w)'
    BY <1>10 DEF Rebuilding
<1>7. Cataloguing(w)'
    BY <1>10 DEF Cataloguing
<1>8. Documenting(w)'
    BY <1>10 DEF Documenting
<1>9. Loaded(w)'
    BY <1>1, <1>2 DEF Loaded, Load
<1> QED
    BY <1>4, <1>5, <1>6, <1>7, <1>8, <1>9 DEF Sound

LEMMA Gone ==
    ASSUME NEW w \in Workflows, at'[w] = 0, todo'[w] = <<>>, Old(w)'
    PROVE  Sound(w)'
    BY DEF Sound, InCourse, Refreshing, Rebuilding, Cataloguing, Documenting, Loaded

\* Another job's steps leave a waiting workflow as it is: manifest and summary
\* do not get older.
LEMMA Waiting ==
    ASSUME Shapes, NEW w \in Workflows, Sound(w), ~Runs(w),
           at'[w] = at[w], todo'[w] = todo[w], made'[w] = made[w], Old(w)',
           store'["manifest"] \in Nat, store["manifest"] <= store'["manifest"],
           store'["summary"] \in Nat, store["summary"] <= store'["summary"]
    PROVE  Sound(w)'
<1>1. CASE at[w] = 0
    BY <1>1, Gone DEF Sound, InCourse
<1>2. CASE at[w] # 0
  <2>1. /\ at[w] \in 1 .. Len(JobsOf[w])
        /\ todo[w] = StepsOf(JobsOf[w][at[w]])
    BY <1>2, Whole DEF Sound
  <2>2. at[w] = 3 => made[w] <= store["manifest"] /\ made[w] <= store["summary"]
    BY Jobs DEF Sound, Documenting, Shapes, Archiving
  <2>3. /\ made[w] \in Nat
        /\ store["manifest"] \in Nat /\ store["summary"] \in Nat
    BY Numbered DEF Numbers
  <2>4. at[w] = 3 => made'[w] <= store'["manifest"] /\ made'[w] <= store'["summary"]
    BY <2>2, <2>3
  <2> QED
    BY <2>1, <2>4, Begun
<1> QED
    BY <1>1, <1>2

LEMMA Unmoved ==
    ASSUME NEW w \in Workflows, Sound(w), Runs(w) => Runs(w)',
           at'[w] = at[w], todo'[w] = todo[w], mem'[w] = mem[w], made'[w] = made[w],
           store' = store, docs' = docs, Old(w)'
    PROVE  Sound(w)'
<1>1. Left(w)' = Left(w) /\ Job(w)' = Job(w)
    BY DEF Left, Job
<1>2. InCourse(w)'
    BY <1>1 DEF Sound, InCourse
<1>3. Refreshing(w)' /\ Rebuilding(w)' /\ Cataloguing(w)'
    BY <1>1 DEF Sound, Refreshing, Rebuilding, Cataloguing
<1>4. Documenting(w)' /\ Loaded(w)'
    BY <1>1 DEF Sound, Documenting, Documented, Loaded
<1> QED
    BY <1>2, <1>3, <1>4 DEF Sound

\* A step of a job leaves it a step further on.
LEMMA Further ==
    ASSUME Shapes, NEW w \in Workflows, InCourse(w), Runs(w), line' = line,
           todo[w] # <<>>, at'[w] = at[w], todo'[w] = Tail(todo[w])
    PROVE  /\ todo'[w] \in Seq(Steps) /\ InCourse(w)'
           /\ Left(w)' = Left(w) - 1
           /\ \A i \in 1 .. Left(w) - 1 : todo'[w][i] = todo[w][i + 1]
<1> DEFINE t == todo[w]
           u == todo'[w]
           S == StepsOf(Job(w))
<1>1. t \in Seq(Steps) /\ t # <<>>
    BY DEF Shapes
<1>2. /\ u \in Seq(Steps) /\ Len(u) = Len(t) - 1
      /\ \A i \in 1 .. Len(u) : u[i] = t[i + 1]
    BY <1>1, HeadTailProperties, LenProperties
<1>3. Len(t) \in Nat \ {0}
    BY <1>1, EmptySeq, LenProperties
<1>4. at[w] # 0 /\ Len(t) <= Len(S) /\ \A i \in 1 .. Len(t) : t[i] = S[Len(S) - Len(t) + i]
    BY <1>1 DEF InCourse, Left
<1>5. Len(S) \in Nat
  <2>1. at[w] \in 1 .. Len(JobsOf[w])
    BY <1>4, Places
  <2> QED
    BY <2>1, JobSteps, LenProperties DEF Job
<1>6. Job(w)' = Job(w) /\ Left(w)' = Len(u) /\ Left(w) = Len(t)
    BY DEF Job, Left
<1> DEFINE n == Len(t)
           L == Len(S)
<1>7. \A i \in 1 .. Len(u) : u[i] = S[L - Len(u) + i]
  <2> HIDE DEF u, t, S
  <2> TAKE i \in 1 .. Len(u)
  <2>1. i + 1 \in 1 .. n /\ u[i] = t[i + 1]
    BY <1>2, <1>3
  <2>2. t[i + 1] = S[L - n + (i + 1)]
    BY <1>4, <2>1
  <2>3. L - n + (i + 1) = L - Len(u) + i
    BY <1>2, <1>3, <1>5
  <2> QED
    BY <2>1, <2>2, <2>3
<1>8. Len(u) <= L
  <2> HIDE DEF u, t, S
  <2> QED
    BY <1>2, <1>3, <1>4, <1>5
<1>9. Runs(w)'
    BY DEF Runs
<1>10. InCourse(w)'
  <2>1. todo'[w] = u /\ at'[w] # 0 /\ StepsOf(Job(w)') = S
    BY <1>4, <1>6
  <2> HIDE DEF u, t, S
  <2> QED
    BY <1>6, <1>7, <1>8, <1>9, <2>1 DEF InCourse
<1> QED
    BY <1>2, <1>6, <1>10

--------------------------------------------------------------------------------
(* The steps keep the invariant *)

LEMMA Aged ==
    ASSUME Shapes, Shapes', NEW w \in Workflows, Old(w),
           mem'[w] = mem[w], made'[w] = made[w], upstream <= upstream', obs <= obs'
    PROVE  Old(w)'
<1>1. Numbers /\ Numbers'
    BY Numbered, PTL
<1> QED
    BY <1>1 DEF Numbers, Old

\* While one job runs the others wait.
LEMMA Others ==
    ASSUME PubInv, Shapes', NEW w \in Workflows, Runs(w),
           \A v \in Workflows \ {w} :
              /\ at'[v] = at[v] /\ todo'[v] = todo[v]
              /\ mem'[v] = mem[v] /\ made'[v] = made[v],
           upstream <= upstream', obs <= obs',
           store["manifest"] <= store'["manifest"],
           store["summary"] <= store'["summary"]
    PROVE  \A v \in Workflows \ {w} : Sound(v)'
<1> TAKE v \in Workflows \ {w}
<1>1. ~Runs(v)
    BY DEF Runs
<1>2. Shapes /\ Sound(v) /\ Old(v)
    BY DEF PubInv, Sound
<1>3. Old(v)'
    BY <1>2, Aged
<1>4. store'["manifest"] \in Nat /\ store'["summary"] \in Nat
  <2>1. Numbers'
    BY Numbered, PTL
  <2> QED
    BY <2>1 DEF Numbers
<1> QED
    BY <1>1, <1>2, <1>3, <1>4, Waiting

LEMMA Stepped ==
    ASSUME PubInv, NEW w \in Workflows, Runs(w), todo[w] # <<>>, Go(w),
           line' = line, at' = at
    PROVE  /\ todo' \in [Workflows -> Seq(Steps)]
           /\ \A v \in Workflows \ {w} : todo'[v] = todo[v]
           /\ InCourse(w)' /\ Left(w)' = Left(w) - 1
           /\ \A i \in 1 .. Left(w) - 1 : todo'[w][i] = todo[w][i + 1]
<1>1. Shapes /\ InCourse(w) /\ todo \in [Workflows -> Seq(Steps)]
    BY DEF PubInv, Sound, Shapes
<1>2. /\ todo'[w] = Tail(todo[w]) /\ DOMAIN todo' = Workflows
      /\ todo' = [todo EXCEPT ![w] = todo'[w]]
    BY <1>1 DEF Go
<1>3. /\ todo'[w] \in Seq(Steps) /\ InCourse(w)'
      /\ Left(w)' = Left(w) - 1
      /\ \A i \in 1 .. Left(w) - 1 : todo'[w][i] = todo[w][i + 1]
    BY <1>1, <1>2, Further
<1> HIDE DEF Go
<1>4. todo' \in [Workflows -> Seq(Steps)]
    BY <1>1, <1>2, <1>3
<1> QED
    BY <1>1, <1>2, <1>3, <1>4

\* What the acting workflow's step says of the steps it has left.
LEMMA HeadOf ==
    ASSUME PubInv, NEW w \in Workflows, todo[w] # <<>>
    PROVE  LET n == Left(w)
               h == todo[w][1]
           IN  /\ n \in Nat \ {0} /\ h = Head(todo[w])
               /\ h.do = "get" => w = "metadata" /\ n >= 6
               /\ h.do = "build" => w \in Archiving /\ at[w] \in {1, 2} /\ n = 3
               /\ h.do = "fold" => w \in Archiving /\ at[w] = 1 /\ n = 4
               /\ h.do \in {"load", "describe", "root"} => w \in Archiving /\ at[w] = 3
               /\ h.do = "put" =>
                     \/ w = "metadata" /\ at[w] = 1 /\ n <= 5
                     \/ w \in Archiving /\ at[w] \in {1, 2} /\ n \in {1, 2}
<1>1. Shapes /\ InCourse(w)
    BY DEF PubInv, Sound
<1> DEFINE n == Left(w)
           h == todo[w][1]
<1>2. /\ n \in Nat \ {0} /\ h = Head(todo[w])
      /\ w \in Archiving <=> w # "metadata"
      /\ w = "metadata" => at[w] = 1 /\ n \in 1 .. 10
      /\ w = "metadata" => h.do = IF n >= 6 THEN "get" ELSE "put"
    BY <1>1, Heads
<1>3. w \in Archiving => at[w] \in {1, 2, 3}
    BY <1>1, Heads
<1>4. w \in Archiving /\ at[w] \in {1, 2} =>
         /\ n \in 1 .. 4 /\ (at[w] = 2 => n \in 1 .. 3)
         /\ n = 4 => h.do = "fold"
         /\ n = 3 => h.do = "build"
         /\ n = 2 => h.do = "put"
         /\ n = 1 => h.do = "put"
    BY <1>1, Heads
<1>5. w \in Archiving /\ at[w] = 3 => h.do \in {"load", "describe", "root"}
    BY <1>1, Heads
<1> HIDE DEF h, n
<1>6. CASE w = "metadata"
    BY <1>2, <1>6 DEF h, n
<1>7. CASE w \in Archiving /\ at[w] \in {1, 2}
  <2>1. n = 1 \/ n = 2 \/ n = 3 \/ (n = 4 /\ at[w] = 1)
    BY <1>4, <1>7
  <2> QED
    BY <1>2, <1>4, <1>7, <2>1 DEF h, n
<1>8. CASE w \in Archiving /\ at[w] = 3
    BY <1>2, <1>5, <1>8 DEF h, n
<1> QED
    BY <1>2, <1>3, <1>6, <1>7, <1>8

LEMMA GetKeeps ==
    ASSUME PubInv, NEW w \in Workflows, Get(w)
    PROVE  PubInv'
<1>1. /\ Runs(w) /\ todo[w] # <<>> /\ Head(todo[w]).do = "get"
      /\ Go(w) /\ line' = line /\ at' = at
      /\ mem' = [mem EXCEPT ![w][Head(todo[w]).of] = upstream]
      /\ upstream' = upstream /\ obs' = obs /\ store' = store /\ docs' = docs
      /\ made' = made
    BY DEF Get, At, Of
<1> DEFINE n == Left(w)
           h == todo[w][1]
<1>2. /\ n \in Nat \ {0} /\ h = Head(todo[w]) /\ h.do = "get"
      /\ w = "metadata" /\ n >= 6
    BY <1>1, HeadOf
<1>3. (h.of = "stations" <=> n = 7) /\ h.of \notin {"manifest", "summary"}
  <2>1. Shapes /\ InCourse(w)
    BY DEF PubInv, Sound
  <2> QED
    BY <1>1, <1>2, <2>1, Heads
<1>4. Shapes /\ Published /\ Sound(w) /\ DocAgreesWithItself
    BY DEF PubInv
<1>5. mem \in [Workflows -> [Objects -> Nat]] /\ upstream \in Nat
    BY <1>4 DEF Shapes
<1>6. /\ \A v \in Workflows \ {w} : mem'[v] = mem[v]
      /\ mem' \in [Workflows -> [Objects -> Nat]]
      /\ mem'[w] = [mem[w] EXCEPT ![h.of] = upstream]
    BY <1>1, <1>2, <1>5
<1>7. /\ todo' \in [Workflows -> Seq(Steps)]
      /\ \A v \in Workflows \ {w} : todo'[v] = todo[v]
      /\ InCourse(w)' /\ Left(w)' = n - 1
    BY <1>1, Stepped
<1>8. Shapes'
    BY <1>1, <1>4, <1>6, <1>7 DEF Shapes
<1> HIDE DEF h, n
<1>9. Published' /\ DocAgreesWithItself'
    BY <1>1, <1>4 DEF Published, DocAgreesWithItself
<1>10. /\ mem[w] \in [Objects -> Nat]
       /\ mem'[w]["manifest"] = mem[w]["manifest"]
       /\ mem'[w]["summary"] = mem[w]["summary"]
       /\ mem'[w]["stations"] = IF n = 7 THEN upstream ELSE mem[w]["stations"]
  <2>1. mem[w] \in [Objects -> Nat]
    BY <1>5
  <2> QED
    BY <1>3, <1>6, <2>1, Things
<1>11. Old(w)'
    BY <1>1, <1>4, <1>5, <1>10 DEF Sound, Old
<1>12. Refreshing(w)'
  <2>1. store["stations"] <= upstream
    BY <1>4 DEF Published
  <2>2. n <= 6 /\ at[w] = 1 => store["stations"] <= mem[w]["stations"]
    BY <1>2, <1>4 DEF Sound, Refreshing, n
  <2>3. at[w] = 1 /\ Left(w)' <= 6 => store["stations"] <= mem'[w]["stations"]
    BY <1>2, <1>7, <1>10, <2>1, <2>2
  <2>4. ~(Left(w)' <= 2)
    BY <1>2, <1>7
  <2> QED
    BY <1>1, <2>3, <2>4 DEF Refreshing
<1>13. w \notin Archiving
    BY <1>2 DEF Archiving
<1>14. Sound(w)'
    BY <1>7, <1>11, <1>12, <1>13 DEF Sound, Rebuilding, Cataloguing, Documenting, Loaded
<1>15. \A v \in Workflows \ {w} : Sound(v)'
  <2>0. Numbers
    BY <1>4, Numbered
  <2>1. upstream <= upstream' /\ obs <= obs'
    BY <1>1, <2>0 DEF Numbers
  <2>2. /\ store["manifest"] <= store'["manifest"]
        /\ store["summary"] <= store'["summary"]
    BY <1>1, <2>0 DEF Numbers
  <2> QED
    BY <1>1, <1>6, <1>7, <1>8, <2>1, <2>2, Others
<1> QED
    BY <1>8, <1>9, <1>14, <1>15 DEF PubInv

LEMMA PutKeeps ==
    ASSUME PubInv, NEW w \in Workflows, Put(w)
    PROVE  PubInv'
<1>1. /\ Runs(w) /\ todo[w] # <<>> /\ Head(todo[w]).do = "put"
      /\ Go(w) /\ line' = line /\ at' = at
      /\ store' = [store EXCEPT ![Head(todo[w]).of] = Content(Head(todo[w]).of, mem[w])]
      /\ upstream' = upstream /\ obs' = obs /\ mem' = mem /\ docs' = docs
      /\ made' = made
    BY DEF Put, At, Of
<1> DEFINE n == Left(w)
           h == todo[w][1]
           x == Content(h.of, mem[w])
<1>2. /\ n \in Nat \ {0} /\ h = Head(todo[w]) /\ h.do = "put"
      /\ \/ w = "metadata" /\ at[w] = 1 /\ n <= 5
         \/ w \in Archiving /\ at[w] \in {1, 2} /\ n \in {1, 2}
    BY <1>1, HeadOf
<1>4. Shapes /\ Published /\ Sound(w) /\ DocAgreesWithItself /\ Numbers
    BY Numbered DEF PubInv
<1>5. /\ mem[w] \in [Objects -> Nat] /\ store \in [Objects -> Nat]
      /\ store' = [store EXCEPT ![h.of] = x]
    BY <1>1, <1>2, <1>4 DEF Shapes
<1>6. h.of \in Objects => x \in Nat
  <2>1. {"histories", "stations"} \subseteq Objects
    BY Things
  <2>2. mem[w]["histories"] \in Nat /\ mem[w]["stations"] \in Nat
    BY <1>5, <2>1
  <2> HIDE DEF h
  <2> QED
    BY <1>5, <2>2 DEF Content, Histories, Lesser
<1> HIDE DEF x
<1>7. /\ todo' \in [Workflows -> Seq(Steps)]
      /\ \A v \in Workflows \ {w} : todo'[v] = todo[v]
      /\ InCourse(w)' /\ Left(w)' = n - 1
    BY <1>1, Stepped
<1> HIDE DEF h, n
<1>8. Shapes'
  <2>1. store' \in [Objects -> Nat]
    BY <1>5, <1>6
  <2> QED
    BY <1>1, <1>4, <1>7, <2>1 DEF Shapes
<1>9. Old(w)' /\ DocAgreesWithItself'
    BY <1>1, <1>4 DEF Sound, Old, DocAgreesWithItself
<1>10. {"stations", "histories", "manifest", "summary"} \subseteq Objects
    BY Things
<1>11. \A o \in {"stations", "histories", "manifest", "summary"} :
          store'[o] = IF h.of = o THEN x ELSE store[o]
    BY <1>5, <1>10
<1>12. ASSUME store["manifest"] <= store'["manifest"],
              store["summary"] <= store'["summary"]
       PROVE  \A v \in Workflows \ {w} : Sound(v)'
  <2>1. upstream <= upstream' /\ obs <= obs'
    BY <1>1, <1>4 DEF Numbers
  <2> QED
    BY <1>1, <1>7, <1>8, <1>12, <2>1, Others
<1>13. CASE w = "metadata" /\ at[w] = 1 /\ n <= 5
  <2>0. InCourse(w)
    BY <1>4 DEF Sound
  <2>1. /\ h.of = "stations" <=> n = 3
        /\ h.of = "histories" <=> n = 2
        /\ h.of \notin {"manifest", "summary"}
    BY <1>1, <1>4, <1>13, <2>0, Heads DEF h, n
  <2>2. /\ store'["manifest"] = store["manifest"]
        /\ store'["summary"] = store["summary"]
    BY <1>11, <2>1
  <2>3. /\ n \in Nat \ {0} /\ n <= 5 /\ store["stations"] <= mem[w]["stations"]
        /\ n <= 2 => store["stations"] = mem[w]["stations"]
        /\ mem[w]["stations"] <= upstream
        /\ store["histories"] <= store["stations"] /\ store["stations"] <= upstream
        /\ store["manifest"] <= obs /\ store["summary"] <= obs
    BY <1>2, <1>4, <1>13 DEF Sound, Refreshing, Old, Published, n
  <2>4. /\ h.of = "stations" => x = mem[w]["stations"]
        /\ h.of = "histories" => x <= mem[w]["stations"]
    BY <1>4 DEF x, Content, Histories, Lesser, Numbers
  <2>5. /\ store'["stations"] = IF n = 3 THEN mem[w]["stations"] ELSE store["stations"]
        /\ store'["histories"] = IF n = 2 THEN x ELSE store["histories"]
    BY <1>11, <2>1, <2>4
  <2>6. /\ store["stations"] \in Nat /\ store["histories"] \in Nat
        /\ mem[w]["stations"] \in Nat /\ upstream \in Nat
    BY <1>4 DEF Numbers
  <2>7. /\ store'["histories"] <= store'["stations"] /\ store'["stations"] <= upstream
    <3>1. CASE n = 3
        BY <2>3, <2>5, <2>6, <3>1
    <3>2. CASE n = 2
        BY <2>1, <2>3, <2>4, <2>5, <3>2
    <3>3. CASE n # 2 /\ n # 3
        BY <2>3, <2>5, <3>3
    <3> QED
        BY <3>1, <3>2, <3>3
  <2>8. Published'
    BY <1>1, <2>2, <2>3, <2>7 DEF Published
  <2>9. /\ store'["stations"] <= mem[w]["stations"]
        /\ n - 1 <= 2 => store'["stations"] = mem[w]["stations"]
    BY <2>3, <2>5, <2>6
  <2>10. Refreshing(w)'
    BY <1>1, <1>7, <2>9 DEF Refreshing
  <2>11. w \notin Archiving
    BY <1>13 DEF Archiving
  <2>12. Sound(w)'
    BY <1>7, <1>9, <2>10, <2>11
       DEF Sound, Rebuilding, Cataloguing, Documenting, Loaded
  <2>13. /\ store["manifest"] <= store'["manifest"]
         /\ store["summary"] <= store'["summary"]
    BY <1>4, <2>2 DEF Numbers
  <2> QED
    BY <1>8, <1>9, <1>12, <2>8, <2>12, <2>13 DEF PubInv
<1>14. CASE w \in Archiving /\ at[w] \in {1, 2} /\ n \in {1, 2}
  <2>0. InCourse(w)
    BY <1>4 DEF Sound
  <2>1. h.of = IF n = 2 THEN "manifest" ELSE "summary"
    BY <1>1, <1>4, <1>14, <2>0, Heads DEF h, n
  <2>2. /\ store'["stations"] = store["stations"]
        /\ store'["histories"] = store["histories"]
        /\ store'["manifest"] = IF n = 2 THEN mem[w]["manifest"] ELSE store["manifest"]
        /\ store'["summary"] = IF n = 1 THEN mem[w]["summary"] ELSE store["summary"]
    BY <1>11, <1>14, <2>1 DEF x, Content
  <2>3. /\ mem[w]["manifest"] <= obs /\ mem[w]["summary"] <= obs
        /\ store["manifest"] <= mem[w]["manifest"]
        /\ store["summary"] <= mem[w]["summary"]
        /\ store["manifest"] <= obs /\ store["summary"] <= obs
    BY <1>4, <1>14 DEF Sound, Old, Rebuilding, Published, n
  <2>4. /\ store["manifest"] \in Nat /\ store["summary"] \in Nat
        /\ mem[w]["manifest"] \in Nat /\ mem[w]["summary"] \in Nat /\ obs \in Nat
        /\ made[w] \in Nat
    BY <1>4 DEF Numbers
  <2>5. /\ store["manifest"] <= store'["manifest"]
        /\ store["summary"] <= store'["summary"]
    BY <2>2, <2>3, <2>4
  <2>6. Published'
    BY <1>1, <1>4, <2>2, <2>3 DEF Published
  <2>7. w # "metadata"
    BY <1>14 DEF Archiving
  <2>8. at'[w] = at[w] /\ mem'[w] = mem[w] /\ made'[w] = made[w] /\ Left(w)' = n - 1
    BY <1>1, <1>7
  <2>9. Rebuilding(w)'
    BY <1>14, <2>2, <2>3, <2>4, <2>8 DEF Rebuilding
  <2>10. Cataloguing(w)'
    <3>1. at[w] = 2 =>
             /\ made[w] <= mem[w]["manifest"] /\ made[w] <= mem[w]["summary"]
             /\ n = 1 => made[w] <= store["manifest"]
        BY <1>4, <1>14 DEF Sound, Cataloguing, n
    <3>2. CASE n = 2
        BY <1>14, <2>2, <2>4, <2>8, <3>1, <3>2 DEF Cataloguing
    <3>3. CASE n = 1
        BY <1>14, <2>2, <2>4, <2>8, <3>1, <3>3 DEF Cataloguing
    <3> QED
        BY <1>14, <3>2, <3>3
  <2>11. Refreshing(w)' /\ Documenting(w)' /\ Loaded(w)'
    BY <1>14, <2>7, <2>8 DEF Refreshing, Documenting, Loaded
  <2>12. Sound(w)'
    BY <1>7, <1>9, <2>9, <2>10, <2>11 DEF Sound
  <2> QED
    BY <1>8, <1>9, <1>12, <2>5, <2>6, <2>12 DEF PubInv
<1> QED
    BY <1>2, <1>13, <1>14

LEMMA BuildKeeps ==
    ASSUME PubInv, NEW w \in Workflows, Build(w)
    PROVE  PubInv'
<1>1. /\ Runs(w) /\ todo[w] # <<>> /\ Head(todo[w]).do = "build"
      /\ Go(w) /\ line' = line /\ at' = at
      /\ mem' = [mem EXCEPT ![w]["manifest"] = obs, ![w]["summary"] = obs]
      /\ upstream' = upstream /\ obs' = obs /\ store' = store /\ docs' = docs
      /\ made' = made
    BY DEF Build, At
<1> DEFINE n == Left(w)
<1>2. w \in Archiving /\ at[w] \in {1, 2} /\ n = 3
    BY <1>1, HeadOf
<1>3. Shapes /\ Published /\ Sound(w) /\ DocAgreesWithItself /\ Numbers
    BY Numbered DEF PubInv
<1>4. {"stations", "manifest", "summary"} \subseteq Objects
    BY Things
<1>5. mem \in [Workflows -> [Objects -> Nat]] /\ obs \in Nat
    BY <1>3 DEF Shapes
<1>6. /\ mem' = [mem EXCEPT ![w] = [[mem[w] EXCEPT !["manifest"] = obs]
                                    EXCEPT !["summary"] = obs]]
    BY <1>1, <1>5
<1>7. /\ mem' \in [Workflows -> [Objects -> Nat]]
      /\ \A v \in Workflows \ {w} : mem'[v] = mem[v]
      /\ mem'[w]["manifest"] = obs /\ mem'[w]["summary"] = obs
      /\ mem'[w]["stations"] = mem[w]["stations"]
    BY <1>4, <1>5, <1>6
<1>8. /\ todo' \in [Workflows -> Seq(Steps)]
      /\ \A v \in Workflows \ {w} : todo'[v] = todo[v]
      /\ InCourse(w)' /\ Left(w)' = n - 1
    BY <1>1, Stepped
<1> HIDE DEF n
<1>9. Shapes'
    BY <1>1, <1>3, <1>7, <1>8 DEF Shapes
<1>10. Published' /\ DocAgreesWithItself'
    BY <1>1, <1>3 DEF Published, DocAgreesWithItself
<1>11. Old(w)'
  <2>1. /\ mem'[w]["stations"] <= upstream' /\ made'[w] <= obs'
        /\ mem'[w]["manifest"] = obs' /\ mem'[w]["summary"] = obs' /\ obs' \in Nat
    BY <1>1, <1>3, <1>5, <1>7 DEF Sound, Old
  <2> QED
    BY <2>1 DEF Old
<1>12. Left(w)' = 2 /\ at'[w] = at[w] /\ made'[w] = made[w]
    BY <1>1, <1>2, <1>8
<1>13. Rebuilding(w)' /\ Cataloguing(w)'
  <2>1. /\ store["manifest"] <= obs /\ store["summary"] <= obs /\ made[w] <= obs
    BY <1>3 DEF Published, Sound, Old
  <2> QED
    BY <1>1, <1>7, <1>12, <2>1 DEF Rebuilding, Cataloguing
<1>14. Refreshing(w)' /\ Documenting(w)' /\ Loaded(w)'
    BY <1>2, <1>12 DEF Refreshing, Documenting, Loaded, Archiving
<1>15. Sound(w)'
    BY <1>8, <1>11, <1>13, <1>14 DEF Sound
<1>16. \A v \in Workflows \ {w} : Sound(v)'
  <2>1. /\ upstream <= upstream' /\ obs <= obs'
        /\ store["manifest"] <= store'["manifest"]
        /\ store["summary"] <= store'["summary"]
    BY <1>1, <1>3 DEF Numbers
  <2> QED
    BY <1>1, <1>7, <1>8, <1>9, <2>1, Others
<1> QED
    BY <1>9, <1>10, <1>15, <1>16 DEF PubInv

\* A compaction's job has no more to keep outside its manifest's writes.
LEMMA Compacting ==
    ASSUME NEW w \in Workflows, w \in Archiving, at'[w] = 1, InCourse(w)', Old(w)',
           Left(w)' \in {0, 3}
    PROVE  Sound(w)'
<1>1. w # "metadata"
    BY DEF Archiving
<1>2. Refreshing(w)' /\ Rebuilding(w)'
    BY <1>1 DEF Refreshing, Rebuilding
<1>3. Cataloguing(w)' /\ Documenting(w)' /\ Loaded(w)'
    BY DEF Cataloguing, Documenting, Loaded
<1> QED
    BY <1>2, <1>3 DEF Sound

LEMMA Stopped ==
    ASSUME PubInv, NEW w \in Workflows, Runs(w), at[w] # 0, Stop(w),
           line' = line, at' = at
    PROVE  /\ todo' \in [Workflows -> Seq(Steps)]
           /\ \A v \in Workflows \ {w} : todo'[v] = todo[v]
           /\ InCourse(w)' /\ Left(w)' = 0
<1>1. todo \in [Workflows -> Seq(Steps)] /\ Shapes
    BY DEF PubInv, Shapes
<1>2. <<>> \in Seq(Steps) /\ Len(<<>>) = 0
    OBVIOUS
<1>3. todo' = [todo EXCEPT ![w] = <<>>]
    BY DEF Stop
<1>4. /\ todo' \in [Workflows -> Seq(Steps)]
      /\ \A v \in Workflows \ {w} : todo'[v] = todo[v]
      /\ todo'[w] = <<>>
    BY <1>1, <1>2, <1>3
<1>5. Left(w)' = 0
    BY <1>2, <1>4 DEF Left
<1>6. InCourse(w)'
  <2>1. at[w] \in 1 .. Len(JobsOf[w])
    BY <1>1, Places
  <2>2. StepsOf(Job(w)) \in Seq(Steps)
    BY <2>1, JobSteps DEF Job
  <2>3. Len(StepsOf(Job(w))) \in Nat
    BY <2>2, LenProperties
  <2>4. Job(w)' = Job(w) /\ Runs(w)' /\ at'[w] # 0
    BY DEF Job, Runs
  <2> QED
    BY <1>5, <2>3, <2>4 DEF InCourse
<1> QED
    BY <1>4, <1>5, <1>6

\* The archive may have changed, the other jobs wait.
LEMMA FoldingKeeps ==
    ASSUME PubInv, NEW w \in Workflows, Runs(w), w \in Archiving, at[w] = 1,
           line' = line, at' = at, mem' = mem, store' = store, docs' = docs,
           upstream' = upstream, obs' \in Nat, obs <= obs',
           \/ made' = made
           \/ made' = [made EXCEPT ![w] = obs'],
           todo' \in [Workflows -> Seq(Steps)],
           \A v \in Workflows \ {w} : todo'[v] = todo[v],
           InCourse(w)', Left(w)' \in {0, 3}
    PROVE  PubInv'
<1>1. Shapes /\ Published /\ Sound(w) /\ DocAgreesWithItself /\ Numbers
    BY Numbered DEF PubInv
<1>2. made \in [Workflows -> Nat]
    BY <1>1 DEF Shapes
<1>3. /\ made' \in [Workflows -> Nat]
      /\ \A v \in Workflows \ {w} : made'[v] = made[v]
      /\ made'[w] = made[w] \/ made'[w] = obs'
    BY <1>2
<1>4. Shapes'
    BY <1>1, <1>3 DEF Shapes
<1>5. Published' /\ DocAgreesWithItself'
  <2>1. /\ obs \in Nat /\ store["manifest"] \in Nat /\ store["summary"] \in Nat
        /\ store["manifest"] <= obs /\ store["summary"] <= obs
    BY <1>1 DEF Numbers, Published
  <2>2. store["manifest"] <= obs' /\ store["summary"] <= obs'
    BY <2>1
  <2> QED
    BY <1>1, <2>2 DEF Published, DocAgreesWithItself
<1>6. Old(w)'
  <2>1. /\ obs \in Nat /\ made[w] \in Nat /\ mem[w]["manifest"] \in Nat
        /\ mem[w]["summary"] \in Nat
        /\ made[w] <= obs /\ mem[w]["manifest"] <= obs /\ mem[w]["summary"] <= obs
        /\ mem[w]["stations"] <= upstream
    BY <1>1 DEF Numbers, Sound, Old
  <2>2. made[w] <= obs' /\ mem[w]["manifest"] <= obs' /\ mem[w]["summary"] <= obs'
        /\ obs' <= obs'
    BY <2>1
  <2> QED
    BY <1>3, <2>1, <2>2 DEF Old
<1>7. Sound(w)'
    BY <1>6, Compacting
<1>8. \A v \in Workflows \ {w} : Sound(v)'
  <2>1. /\ upstream <= upstream'
        /\ store["manifest"] <= store'["manifest"]
        /\ store["summary"] <= store'["summary"]
    BY <1>1 DEF Numbers
  <2> QED
    BY <1>3, <1>4, <2>1, Others
<1> QED
    BY <1>4, <1>5, <1>7, <1>8 DEF PubInv

LEMMA FoldKeeps ==
    ASSUME PubInv, NEW w \in Workflows, Fold(w) \/ NothingToFold(w) \/ BuildFails(w)
    PROVE  PubInv'
<1>1. /\ Runs(w) /\ todo[w] # <<>> /\ line' = line /\ at' = at /\ mem' = mem
      /\ store' = store /\ docs' = docs /\ upstream' = upstream
      /\ Go(w) \/ Stop(w)
      /\ \/ Head(todo[w]).do = "fold"
         \/ Head(todo[w]).do = "build" /\ Stop(w) /\ Job(w) = "compact"
      /\ \/ obs' = obs
         \/ obs' = obs + 1
      /\ \/ made' = made
         \/ made' = [made EXCEPT ![w] = obs']
  <2>1. CASE Fold(w)
    BY <2>1 DEF Fold, At
  <2>2. CASE NothingToFold(w)
    BY <2>2 DEF NothingToFold, At
  <2>3. CASE BuildFails(w)
    BY <2>3 DEF BuildFails, At
  <2> QED
    BY <2>1, <2>2, <2>3
<1>2. w \in Archiving /\ at[w] = 1 /\ (Go(w) => Left(w) = 4)
  <2>1. CASE Head(todo[w]).do = "fold"
    BY <1>1, <2>1, HeadOf
  <2>2. CASE Head(todo[w]).do = "build" /\ Stop(w) /\ Job(w) = "compact"
    <3>1. w \in Archiving /\ at[w] \in {1, 2}
        BY <1>1, <2>2, HeadOf
    <3>2. at[w] # 2
        BY <2>2, <3>1, Jobs DEF Job
    <3>3. Left(w) = 3 /\ Left(w) = Len(todo[w])
        BY <1>1, <2>2, HeadOf DEF Left
    <3>4. ~Go(w)
      <4>1. todo[w] \in Seq(Steps) /\ todo \in [Workflows -> Seq(Steps)]
        BY DEF PubInv, Shapes
      <4>2. Len(Tail(todo[w])) = 2
        BY <1>1, <3>3, <4>1, HeadTailProperties
      <4>3. Len(todo'[w]) = 0
        BY <2>2, <4>1 DEF Stop
      <4>4. Go(w) => Len(todo'[w]) = 2
        BY <4>1, <4>2 DEF Go
      <4> QED
        BY <4>3, <4>4
    <3> QED
        BY <3>1, <3>2, <3>4
  <2> QED
    BY <1>1, <2>1, <2>2
<1>3. /\ todo' \in [Workflows -> Seq(Steps)]
      /\ \A v \in Workflows \ {w} : todo'[v] = todo[v]
      /\ InCourse(w)' /\ Left(w)' \in {0, 3}
  <2>1. CASE Go(w)
    BY <1>1, <1>2, <2>1, Stepped
  <2>2. CASE Stop(w)
    BY <1>1, <1>2, <2>2, Stopped
  <2> QED
    BY <1>1, <2>1, <2>2
<1>4. obs' \in Nat /\ obs <= obs'
  <2>1. obs \in Nat
    BY DEF PubInv, Shapes
  <2> QED
    BY <1>1, <2>1
<1> QED
    BY <1>1, <1>2, <1>3, <1>4, FoldingKeeps

--------------------------------------------------------------------------------
(* Portolan's steps *)

LEMMA Following ==
    ASSUME Shapes, NEW w \in Workflows, InCourse(w), w \in Archiving, at[w] = 3,
           todo[w] # <<>>
    PROVE  LET n == Left(w)
               h == todo[w][1]
           IN  /\ n >= 2 /\ todo[w][2].do = "describe" /\ todo[w][2].of # "observations"
                  => h.do = "load" /\ h.of = todo[w][2].of
               /\ n >= 3 /\ h.do = "load" /\ h.of # "observations"
                  /\ todo[w][3].do = "describe"
                  => todo[w][3].of = "observations"
<1> DEFINE n == Left(w)
           S == StepsOf(Job(w))
<1>1. todo[w] \in Seq(Steps)
    BY DEF Shapes
<1>2. n \in Nat \ {0}
    BY <1>1, EmptySeq, LenProperties DEF Left
<1>3. S = StepsOf("portolan")
    BY Jobs DEF Job
<1>4. Len(S) = 11
    BY <1>3, PortolanSteps
<1>5. n <= 11 /\ \A i \in 1 .. n : todo[w][i] = S[11 - n + i]
    BY <1>4 DEF InCourse
<1>9. /\ \A i \in 1 .. 11 : S[i].do = "describe" /\ S[i].of # "observations" =>
              S[i - 1].do = "load" /\ S[i - 1].of = S[i].of
      /\ \A i \in 1 .. 11 :
              S[i].do = "load" /\ S[i].of # "observations" /\ S[i + 2].do = "describe"
              => S[i + 2].of = "observations"
    BY <1>3, PortolanSteps
<1> HIDE DEF n, S
<1>6. /\ 12 - n \in 1 .. 11 /\ todo[w][1] = S[12 - n]
      /\ n >= 2 => 13 - n \in 1 .. 11 /\ todo[w][2] = S[13 - n]
      /\ n >= 3 => 14 - n \in 1 .. 11 /\ todo[w][3] = S[14 - n]
  <2>1. 11 - n + 1 = 12 - n /\ 11 - n + 2 = 13 - n /\ 11 - n + 3 = 14 - n
    BY <1>2
  <2>2. 1 \in 1 .. n /\ (n >= 2 => 2 \in 1 .. n) /\ (n >= 3 => 3 \in 1 .. n)
    BY <1>2
  <2>3. 12 - n \in 1 .. 11 /\ (n >= 2 => 13 - n \in 1 .. 11)
        /\ (n >= 3 => 14 - n \in 1 .. 11)
    BY <1>2, <1>5
  <2> QED
    BY <1>5, <2>1, <2>2, <2>3
<1>7. n >= 2 /\ todo[w][2].do = "describe" /\ todo[w][2].of # "observations"
      => todo[w][1].do = "load" /\ todo[w][1].of = todo[w][2].of
  <2> SUFFICES ASSUME n >= 2, todo[w][2].do = "describe",
                      todo[w][2].of # "observations"
               PROVE  todo[w][1].do = "load" /\ todo[w][1].of = todo[w][2].of
    OBVIOUS
  <2> DEFINE i == 13 - n
  <2>1. i \in 1 .. 11 /\ todo[w][2] = S[i] /\ i - 1 = 12 - n
    BY <1>2, <1>6
  <2> HIDE DEF i
  <2>2. S[i - 1].do = "load" /\ S[i - 1].of = S[i].of
    BY <1>9, <2>1
  <2> QED
    BY <1>6, <2>1, <2>2
<1>8. n >= 3 /\ todo[w][1].do = "load" /\ todo[w][1].of # "observations"
      /\ todo[w][3].do = "describe"
      => todo[w][3].of = "observations"
  <2> SUFFICES ASSUME n >= 3, todo[w][1].do = "load", todo[w][1].of # "observations",
                      todo[w][3].do = "describe"
               PROVE  todo[w][3].of = "observations"
    OBVIOUS
  <2> DEFINE i == 12 - n
  <2>1. i \in 1 .. 11 /\ todo[w][1] = S[i] /\ i + 2 = 14 - n
    BY <1>2, <1>6
  <2> HIDE DEF i
  <2>2. S[i + 2] = todo[w][3]
    BY <1>6, <2>1
  <2> QED
    BY <1>9, <2>1, <2>2
<1> QED
    BY <1>7, <1>8 DEF n

\* What a step of portolan has to show: its document and what it loaded.
LEMMA PortolanKeeps ==
    ASSUME PubInv, NEW w \in Workflows, Runs(w), w \in Archiving, at[w] = 3,
           line' = line, at' = at, store' = store, upstream' = upstream, obs' = obs,
           made' = made, DOMAIN docs' = Collections,
           mem' \in [Workflows -> [Objects -> Nat]],
           \A v \in Workflows \ {w} : mem'[v] = mem[v],
           todo' \in [Workflows -> Seq(Steps)],
           \A v \in Workflows \ {w} : todo'[v] = todo[v],
           InCourse(w)', Old(w)',
           Left(w)' <= 10 => made[w] <= mem'[w]["summary"],
           Left(w)' <= 1 /\ made[w] > 1 => Documented(w)',
           Loaded(w)', DocAgreesWithItself'
    PROVE  PubInv'
<1>1. Shapes /\ Published /\ Sound(w) /\ Numbers
    BY Numbered DEF PubInv
<1>2. Shapes'
    BY <1>1 DEF Shapes
<1>3. Published'
    BY <1>1 DEF Published
<1>4. at'[w] = 3 /\ made'[w] = made[w] /\ w # "metadata"
    BY DEF Archiving
<1>5. Documenting(w)'
  <2>1. made[w] <= store["manifest"] /\ made[w] <= store["summary"]
    BY <1>1 DEF Sound, Documenting
  <2> QED
    BY <1>4, <2>1 DEF Documenting
<1>6. Refreshing(w)' /\ Rebuilding(w)' /\ Cataloguing(w)'
    BY <1>4 DEF Refreshing, Rebuilding, Cataloguing
<1>7. Sound(w)'
    BY <1>5, <1>6 DEF Sound
<1>8. \A v \in Workflows \ {w} : Sound(v)'
  <2>1. /\ upstream <= upstream' /\ obs <= obs'
        /\ store["manifest"] <= store'["manifest"]
        /\ store["summary"] <= store'["summary"]
    BY <1>1 DEF Numbers
  <2> QED
    BY <1>2, <2>1, Others
<1> QED
    BY <1>2, <1>3, <1>7, <1>8 DEF PubInv

LEMMA LoadSummaryKeeps ==
    ASSUME PubInv, NEW w \in Workflows, LoadSummary(w)
    PROVE  PubInv'
<1> DEFINE x == IF store["summary"] # 0 THEN store["summary"] ELSE store["manifest"]
<1>1. /\ Runs(w) /\ todo[w] # <<>> /\ Head(todo[w]).do = "load"
      /\ Head(todo[w]).of = "observations"
      /\ Go(w) /\ line' = line /\ at' = at
      /\ mem' = [mem EXCEPT ![w]["summary"] = x]
      /\ upstream' = upstream /\ obs' = obs /\ store' = store /\ docs' = docs
      /\ made' = made
    BY DEF LoadSummary, At, Of
<1>2. Shapes /\ Published /\ Sound(w) /\ DocAgreesWithItself /\ Numbers
    BY Numbered DEF PubInv
<1>3. w \in Archiving /\ at[w] = 3
    BY <1>1, HeadOf
<1>4. Left(w) = 11
  <2>1. InCourse(w) /\ todo[w][1] = Head(todo[w])
    BY <1>1, <1>2, HeadOf DEF Sound
  <2> QED
    BY <1>1, <1>2, <1>3, <2>1, Heads
<1>5. x \in Nat /\ x <= obs /\ made[w] <= x
  <2>1. /\ made[w] <= store["manifest"] /\ made[w] <= store["summary"]
        /\ store["manifest"] <= obs /\ store["summary"] <= obs
    BY <1>2, <1>3 DEF Sound, Documenting, Published
  <2> QED
    BY <1>2, <2>1 DEF Numbers
<1> HIDE DEF x
<1>6. {"stations", "manifest", "summary"} \subseteq Objects
    BY Things
<1>7. mem \in [Workflows -> [Objects -> Nat]]
    BY <1>2 DEF Shapes
<1>8. /\ mem' \in [Workflows -> [Objects -> Nat]]
      /\ \A v \in Workflows \ {w} : mem'[v] = mem[v]
      /\ mem'[w]["summary"] = x
      /\ mem'[w]["manifest"] = mem[w]["manifest"]
      /\ mem'[w]["stations"] = mem[w]["stations"]
    BY <1>1, <1>5, <1>6, <1>7
<1>9. /\ todo' \in [Workflows -> Seq(Steps)]
      /\ \A v \in Workflows \ {w} : todo'[v] = todo[v]
      /\ InCourse(w)' /\ Left(w)' = 10
      /\ \A i \in 1 .. 10 : todo'[w][i] = todo[w][i + 1]
  <2>1. /\ todo' \in [Workflows -> Seq(Steps)]
        /\ \A v \in Workflows \ {w} : todo'[v] = todo[v]
        /\ InCourse(w)' /\ Left(w)' = Left(w) - 1
        /\ \A i \in 1 .. Left(w) - 1 : todo'[w][i] = todo[w][i + 1]
    BY <1>1, Stepped
  <2> QED
    BY <1>4, <2>1
<1>10. Old(w)'
    BY <1>1, <1>2, <1>5, <1>8 DEF Sound, Old
<1>11. Loaded(w)'
  <2>1. todo'[w][1] = todo[w][2]
    BY <1>9
  <2>2. /\ todo[w][2].do = "describe" /\ todo[w][2].of # "observations"
           => todo[w][1].of = todo[w][2].of
        /\ todo[w][1] = Head(todo[w])
    BY <1>1, <1>2, <1>3, <1>4, Following, HeadOf DEF Sound
  <2> QED
    BY <1>1, <2>1, <2>2 DEF Loaded
<1>12. DocAgreesWithItself' /\ DOMAIN docs' = Collections
    BY <1>1, <1>2 DEF DocAgreesWithItself, Shapes
<1>13. ~(Left(w)' <= 1)
    BY <1>9
<1> QED
    BY <1>1, <1>3, <1>5, <1>8, <1>9, <1>10, <1>11, <1>12, <1>13, PortolanKeeps

\* The end of a sequence without its first step is an end of it, too.
LEMMA Ends ==
    ASSUME NEW T, NEW S \in Seq(T), NEW t \in Seq(T), t # <<>>, Len(t) <= Len(S),
           \A i \in 1 .. Len(t) : t[i] = S[Len(S) - Len(t) + i]
    PROVE  /\ Tail(t) \in Seq(T) /\ Len(Tail(t)) = Len(t) - 1
           /\ Len(Tail(t)) <= Len(S)
           /\ \A i \in 1 .. Len(t) - 1 : Tail(t)[i] = t[i + 1]
           /\ \A i \in 1 .. Len(Tail(t)) : Tail(t)[i] = S[Len(S) - Len(Tail(t)) + i]
<1> DEFINE u == Tail(t)
<1>1. /\ u \in Seq(T) /\ Len(u) = Len(t) - 1
      /\ \A i \in 1 .. Len(u) : u[i] = t[i + 1]
    BY HeadTailProperties
<1>2. Len(t) \in Nat \ {0} /\ Len(S) \in Nat
    BY EmptySeq, LenProperties
<1> HIDE DEF u
<1>3. ASSUME NEW i \in 1 .. Len(u)
      PROVE  u[i] = S[Len(S) - Len(u) + i]
  <2>1. i + 1 \in 1 .. Len(t) /\ u[i] = t[i + 1]
    BY <1>1, <1>2
  <2>2. t[i + 1] = S[Len(S) - Len(t) + (i + 1)]
    BY <2>1
  <2>3. Len(S) - Len(t) + (i + 1) = Len(S) - Len(u) + i
    BY <1>1, <1>2
  <2> QED
    BY <2>1, <2>2, <2>3
<1>4. Len(u) <= Len(S)
    BY <1>1, <1>2
<1> QED
    BY <1>1, <1>3, <1>4 DEF u

LEMMA SteppedPast ==
    ASSUME PubInv, NEW w \in Workflows, Runs(w), Left(w) >= 2, at[w] # 0, GoPast(w),
           line' = line, at' = at
    PROVE  /\ todo' \in [Workflows -> Seq(Steps)]
           /\ \A v \in Workflows \ {w} : todo'[v] = todo[v]
           /\ InCourse(w)' /\ Left(w)' = Left(w) - 2
           /\ Left(w) >= 3 => todo'[w][1] = todo[w][3]
<1>1. Shapes /\ InCourse(w) /\ todo \in [Workflows -> Seq(Steps)]
    BY DEF PubInv, Sound, Shapes
<1> DEFINE t == todo[w]
           u == Tail(t)
           x == Tail(u)
           S == StepsOf(Job(w))
<1>2. t \in Seq(Steps) /\ Len(t) \in Nat /\ Len(t) >= 2
    BY <1>1, LenProperties DEF Left
<1>3. S \in Seq(Steps)
    BY <1>1, Places, JobSteps DEF Job
<1>4. Len(t) <= Len(S) /\ \A i \in 1 .. Len(t) : t[i] = S[Len(S) - Len(t) + i]
    BY <1>1 DEF InCourse, Left
<1>5. todo' = [todo EXCEPT ![w] = x]
    BY DEF GoPast
<1> HIDE DEF t, u, x, S
<1>6. t # <<>>
    BY <1>2, EmptySeq
<1>7. /\ u \in Seq(Steps) /\ Len(u) = Len(t) - 1 /\ Len(u) <= Len(S)
      /\ \A i \in 1 .. Len(t) - 1 : u[i] = t[i + 1]
      /\ \A i \in 1 .. Len(u) : u[i] = S[Len(S) - Len(u) + i]
    BY <1>2, <1>3, <1>4, <1>6, Ends DEF u
<1>8. Len(u) \in Nat /\ Len(u) >= 1
    BY <1>2, <1>7
<1>9. u # <<>>
    BY <1>7, <1>8, EmptySeq
<1>10. /\ x \in Seq(Steps) /\ Len(x) = Len(u) - 1 /\ Len(x) <= Len(S)
       /\ \A i \in 1 .. Len(u) - 1 : x[i] = u[i + 1]
       /\ \A i \in 1 .. Len(x) : x[i] = S[Len(S) - Len(x) + i]
  <2>1. /\ u \in Seq(Steps) /\ Len(u) <= Len(S)
        /\ \A i \in 1 .. Len(u) : u[i] = S[Len(S) - Len(u) + i]
    BY <1>7
  <2>2. /\ Tail(u) \in Seq(Steps) /\ Len(Tail(u)) = Len(u) - 1
        /\ Len(Tail(u)) <= Len(S)
        /\ \A i \in 1 .. Len(u) - 1 : Tail(u)[i] = u[i + 1]
        /\ \A i \in 1 .. Len(Tail(u)) : Tail(u)[i] = S[Len(S) - Len(Tail(u)) + i]
    BY <1>3, <1>9, <2>1, Ends
  <2> QED
    BY <2>2 DEF x
<1>11. /\ todo' \in [Workflows -> Seq(Steps)]
       /\ \A v \in Workflows \ {w} : todo'[v] = todo[v]
       /\ todo'[w] = x
    BY <1>1, <1>5, <1>10
<1>12. Left(w)' = Len(x) /\ Left(w) = Len(t) /\ Job(w)' = Job(w) /\ Runs(w)' /\ at'[w] # 0
    BY <1>11 DEF Left, Job, Runs, t
<1>13. InCourse(w)'
    BY <1>10, <1>11, <1>12 DEF InCourse, S
<1>14. Len(t) >= 3 => x[1] = t[3]
  <2> SUFFICES ASSUME Len(t) >= 3 PROVE x[1] = t[3]
    OBVIOUS
  <2>1. x[1] = u[1 + 1]
    BY <1>2, <1>7, <1>10
  <2>2. u[2] = t[2 + 1]
    BY <1>2, <1>7
  <2> QED
    BY <2>1, <2>2
<1>15. Left(w)' = Left(w) - 2
    BY <1>2, <1>7, <1>10, <1>12
<1> QED
    BY <1>11, <1>12, <1>13, <1>14, <1>15 DEF t

LEMMA LoadTableKeeps ==
    ASSUME PubInv, NEW w \in Workflows, LoadTable(w)
    PROVE  PubInv'
<1> DEFINE h == todo[w][1]
<1>1. /\ Runs(w) /\ todo[w] # <<>> /\ Head(todo[w]).do = "load"
      /\ Head(todo[w]).of # "observations"
      /\ Go(w) /\ line' = line /\ at' = at
      /\ mem' = [mem EXCEPT ![w][Head(todo[w]).of] = store[Head(todo[w]).of]]
      /\ upstream' = upstream /\ obs' = obs /\ store' = store /\ docs' = docs
      /\ made' = made
    BY DEF LoadTable, At, Of
<1>2. Shapes /\ Published /\ Sound(w) /\ DocAgreesWithItself /\ Numbers
    BY Numbered DEF PubInv
<1>3. /\ w \in Archiving /\ at[w] = 3 /\ Left(w) \in Nat \ {0}
      /\ h = Head(todo[w])
    BY <1>1, HeadOf
<1>4. /\ Left(w) \in 1 .. 11 /\ Left(w) >= 4 /\ Left(w) # 11
      /\ h.of \in {"networks", "variables", "stations", "histories"}
  <2>1. InCourse(w)
    BY <1>2 DEF Sound
  <2>2. /\ Left(w) \in 1 .. 11 /\ Left(w) >= 4
        /\ Left(w) = 11 => h.of = "observations"
    BY <1>1, <1>2, <1>3, <2>1, Heads
  <2>3. h.of \in {"networks", "variables", "stations", "histories", "observations"}
    BY <1>1, <1>2, <1>3, <2>1, Heads
  <2> QED
    BY <1>1, <1>3, <2>2, <2>3
<1>5. {"networks", "variables", "stations", "histories", "manifest", "summary"}
      \subseteq Objects
    BY Things
<1>6. /\ mem \in [Workflows -> [Objects -> Nat]] /\ store \in [Objects -> Nat]
      /\ mem' = [mem EXCEPT ![w][h.of] = store[h.of]]
    BY <1>1, <1>2, <1>3 DEF Shapes
<1>7. /\ todo' \in [Workflows -> Seq(Steps)]
      /\ \A v \in Workflows \ {w} : todo'[v] = todo[v]
      /\ InCourse(w)' /\ Left(w)' = Left(w) - 1
      /\ \A i \in 1 .. Left(w) - 1 : todo'[w][i] = todo[w][i + 1]
    BY <1>1, Stepped
<1>8. todo[w][2].do = "describe" /\ todo[w][2].of # "observations"
      => h.of = todo[w][2].of
    BY <1>1, <1>2, <1>3, <1>4, Following DEF Sound
<1> HIDE DEF h
<1>9. /\ mem' \in [Workflows -> [Objects -> Nat]]
      /\ \A v \in Workflows \ {w} : mem'[v] = mem[v]
      /\ mem'[w][h.of] = store[h.of]
      /\ mem'[w]["summary"] = mem[w]["summary"]
      /\ mem'[w]["manifest"] = mem[w]["manifest"]
      /\ mem'[w]["stations"] = IF h.of = "stations" THEN store["stations"]
                               ELSE mem[w]["stations"]
    BY <1>4, <1>5, <1>6
<1>10. Old(w)'
    BY <1>1, <1>2, <1>9 DEF Sound, Old, Published
<1>11. Loaded(w)'
  <2>1. todo'[w][1] = todo[w][2]
    BY <1>4, <1>7
  <2> QED
    BY <1>1, <1>8, <1>9, <2>1 DEF Loaded
<1>12. DocAgreesWithItself' /\ DOMAIN docs' = Collections
    BY <1>1, <1>2 DEF DocAgreesWithItself, Shapes
<1>13. ~(Left(w)' <= 1)
    BY <1>4, <1>7
<1>14. made[w] <= mem'[w]["summary"]
  <2>1. Left(w) <= 10
    BY <1>4
  <2> QED
    BY <1>2, <1>3, <1>9, <2>1 DEF Sound, Documenting
<1> QED
    BY <1>1, <1>3, <1>7, <1>9, <1>10, <1>11, <1>12, <1>13, <1>14, PortolanKeeps

LEMMA SkipKeeps ==
    ASSUME PubInv, NEW w \in Workflows, SkipCollection(w)
    PROVE  PubInv'
<1> DEFINE h == todo[w][1]
           n == Left(w)
<1>1. /\ Runs(w) /\ todo[w] # <<>>
      /\ line' = line /\ at' = at /\ mem' = mem
      /\ upstream' = upstream /\ obs' = obs /\ store' = store /\ docs' = docs
      /\ made' = made
      /\ \/ Head(todo[w]).do = "load" /\ Head(todo[w]).of # "observations" /\ GoPast(w)
         \/ Head(todo[w]).do = "describe" /\ Head(todo[w]).of = "observations" /\ Go(w)
            /\ obs = 1
    BY DEF SkipCollection, At, Of, Missing
<1>2. Shapes /\ Published /\ Sound(w) /\ DocAgreesWithItself /\ Numbers
    BY Numbered DEF PubInv
<1>3. /\ w \in Archiving /\ at[w] = 3 /\ n \in Nat \ {0} /\ h = Head(todo[w])
    BY <1>1, HeadOf
<1>4. /\ n \in 1 .. 11
      /\ h.do = "load" => n >= 4 /\ (n = 11 => h.of = "observations")
      /\ h.do = "describe" => n < 11
      /\ h.do = "describe" /\ h.of = "observations" => n = 2
    BY <1>1, <1>2, <1>3, Heads DEF Sound
<1>5. /\ todo' \in [Workflows -> Seq(Steps)]
      /\ \A v \in Workflows \ {w} : todo'[v] = todo[v]
      /\ InCourse(w)' /\ Left(w)' \in 1 .. 9
      /\ Left(w)' <= 1 => obs = 1
      /\ todo'[w][1].do = "describe" => todo'[w][1].of = "observations"
  <2>1. CASE h.do = "load" /\ h.of # "observations" /\ GoPast(w)
    <3>1. n >= 4 /\ n <= 10
        BY <1>4, <2>1
    <3>2. /\ todo' \in [Workflows -> Seq(Steps)]
          /\ \A v \in Workflows \ {w} : todo'[v] = todo[v]
          /\ InCourse(w)' /\ Left(w)' = n - 2
          /\ n >= 3 => todo'[w][1] = todo[w][3]
        BY <1>1, <1>3, <2>1, <3>1, SteppedPast
    <3>3. todo[w][3].do = "describe" => todo[w][3].of = "observations"
        BY <1>1, <1>2, <1>3, <2>1, <3>1, Following DEF Sound
    <3> HIDE DEF n
    <3>4. n - 2 \in 1 .. 9 /\ ~(n - 2 <= 1)
        BY <1>3, <3>1
    <3> QED
        BY <3>1, <3>2, <3>3, <3>4
  <2>2. CASE h.do = "describe" /\ h.of = "observations" /\ Go(w) /\ obs = 1
    <3>1. n = 2
        BY <1>4, <2>2
    <3>2. /\ todo' \in [Workflows -> Seq(Steps)]
          /\ \A v \in Workflows \ {w} : todo'[v] = todo[v]
          /\ InCourse(w)' /\ Left(w)' = n - 1
          /\ \A i \in 1 .. n - 1 : todo'[w][i] = todo[w][i + 1]
        BY <1>1, <2>2, Stepped
    <3>3. todo'[w][1] = todo[w][2]
        BY <3>1, <3>2
    <3>4. todo[w][2].do = "describe" /\ todo[w][2].of # "observations"
          => h.do = "load"
        BY <1>1, <1>2, <1>3, <3>1, Following DEF Sound
    <3> HIDE DEF n
    <3> QED
        BY <2>2, <3>1, <3>2, <3>3, <3>4
  <2> QED
    BY <1>1, <1>3, <2>1, <2>2
<1>6. Old(w)'
    BY <1>1, <1>2 DEF Sound, Old
<1>7. Loaded(w)'
    BY <1>5 DEF Loaded
<1>8. DocAgreesWithItself' /\ DOMAIN docs' = Collections
    BY <1>1, <1>2 DEF DocAgreesWithItself, Shapes
<1>9. ~(Left(w)' <= 1 /\ made[w] > 1)
  <2>1. made[w] <= obs /\ made[w] \in Nat
    BY <1>2 DEF Sound, Old, Numbers
  <2> QED
    BY <1>5, <2>1
<1>10. made[w] <= mem'[w]["summary"]
  <2>1. n <= 10
    BY <1>1, <1>3, <1>4
  <2> QED
    BY <1>1, <1>2, <1>3, <2>1 DEF Sound, Documenting
<1>11. mem' \in [Workflows -> [Objects -> Nat]] /\ \A v \in Workflows \ {w} : mem'[v] = mem[v]
    BY <1>1, <1>2 DEF Shapes
<1> QED
    BY <1>1, <1>3, <1>5, <1>6, <1>7, <1>8, <1>9, <1>10, <1>11, PortolanKeeps

LEMMA WriteDocKeeps ==
    ASSUME PubInv, NEW w \in Workflows, WriteDoc(w)
    PROVE  PubInv'
<1> DEFINE h == todo[w][1]
           n == Left(w)
           d == [table |-> RowsOf(h.of, mem[w]), sums |-> Checksums(h.of)]
<1>1. /\ Runs(w) /\ todo[w] # <<>> /\ Head(todo[w]).do = "describe" /\ Go(w)
      /\ line' = line /\ at' = at /\ mem' = mem
      /\ upstream' = upstream /\ obs' = obs /\ store' = store /\ made' = made
    BY DEF WriteDoc, At
<1>2. Shapes /\ Published /\ Sound(w) /\ DocAgreesWithItself /\ Numbers
    BY Numbered DEF PubInv
<1>3. /\ w \in Archiving /\ at[w] = 3 /\ n \in Nat \ {0} /\ h = Head(todo[w])
    BY <1>1, HeadOf
<1>4. docs' = [docs EXCEPT ![h.of] = d]
    BY <1>3 DEF WriteDoc, Of
<1>5. /\ n \in 1 .. 11 /\ n <= 10 /\ (n = 2 => h.of = "observations")
      /\ h.of \in {"networks", "variables", "stations", "histories", "observations"}
  <2>1. InCourse(w)
    BY <1>2 DEF Sound
  <2>2. n \in 1 .. 11 /\ (h.do = "describe" => n < 11) /\ (n = 2 => h.of = "observations")
    BY <1>1, <1>2, <1>3, <2>1, Heads
  <2>3. h.do # "root" =>
           h.of \in {"networks", "variables", "stations", "histories", "observations"}
    BY <1>1, <1>2, <1>3, <2>1, Heads
  <2> QED
    BY <1>1, <1>3, <2>2, <2>3
<1>6. /\ todo' \in [Workflows -> Seq(Steps)]
      /\ \A v \in Workflows \ {w} : todo'[v] = todo[v]
      /\ InCourse(w)' /\ Left(w)' = n - 1
      /\ \A i \in 1 .. n - 1 : todo'[w][i] = todo[w][i + 1]
    BY <1>1, Stepped
<1>7. ~(n >= 2 /\ todo[w][2].do = "describe" /\ todo[w][2].of # "observations")
    BY <1>1, <1>2, <1>3, Following DEF Sound
<1>8. h.of # "observations" => mem[w][h.of] = store[h.of]
    BY <1>1, <1>2, <1>3 DEF Sound, Loaded
<1>9. /\ d.table = IF h.of = "observations" THEN mem[w]["summary"] ELSE mem[w][h.of]
      /\ \A o \in Assets[h.of] : d.sums[o] = store[o]
    BY DEF RowsOf, Checksums
<1> HIDE DEF h, d
<1>10. DOMAIN docs = Collections /\ h.of \in Collections
  <2>1. DOMAIN docs = Collections
    BY <1>2 DEF Shapes
  <2> QED
    BY <1>5, <2>1, Things
<1>11. /\ DOMAIN docs' = Collections /\ docs'[h.of] = d
       /\ \A c \in Collections : c # h.of => docs'[c] = docs[c]
    BY <1>4, <1>10
<1>12. DocAgreesWithItself'
  <2>1. ASSUME NEW c \in Range(Tables)
        PROVE  docs'[c].table = docs'[c].sums[c]
    <3>1. c \in Assets[c] /\ c # "observations" /\ c \in Collections
        BY Things
    <3>2. CASE c = h.of
      <4>1. d.table = mem[w][c] /\ d.sums[c] = store[c] /\ mem[w][c] = store[c]
        BY <1>8, <1>9, <3>1, <3>2
      <4> QED
        BY <1>11, <3>2, <4>1
    <3>3. CASE c # h.of
        BY <1>2, <1>11, <3>1, <3>3 DEF DocAgreesWithItself
    <3> QED
        BY <3>2, <3>3
  <2> QED
    BY <2>1 DEF DocAgreesWithItself
<1>13. Loaded(w)'
  <2> HIDE DEF n
  <2>1. n = 1 \/ (n >= 2 /\ todo'[w][1] = todo[w][2])
    BY <1>3, <1>6
  <2>2. n = 1 => todo'[w] = <<>>
    <3>1. todo'[w] \in Seq(Steps)
        BY <1>6
    <3>2. n = 1 => Len(todo'[w]) = 0
        BY <1>6 DEF Left
    <3> QED
        BY <3>1, <3>2, EmptySeq
  <2> QED
    BY <1>7, <2>1, <2>2 DEF Loaded
<1>14. made[w] <= mem[w]["summary"]
    BY <1>2, <1>3, <1>5 DEF Sound, Documenting
<1>15. Left(w)' <= 1 /\ made[w] > 1 => Documented(w)'
  <2> SUFFICES ASSUME Left(w)' <= 1, made[w] > 1 PROVE Documented(w)'
    OBVIOUS
  <2>1. CASE h.of = "observations"
    <3>1. d.table = mem[w]["summary"] /\ d.sums["manifest"] = store["manifest"]
        BY <1>9, <2>1, Things
    <3>2. made[w] <= store["manifest"]
        BY <1>2, <1>3 DEF Sound, Documenting
    <3> QED
        BY <1>1, <1>11, <1>14, <2>1, <3>1, <3>2 DEF Documented
  <2>2. CASE h.of # "observations"
    <3>1. n # 2
        BY <1>5, <2>2
    <3> HIDE DEF n
    <3>2. n <= 1
        BY <1>3, <1>6, <3>1
    <3>3. Documented(w)
        BY <1>2, <1>3, <3>2 DEF Sound, Documenting, n
    <3>4. docs'["observations"] = docs["observations"]
        BY <1>11, <2>2, Things
    <3> QED
        BY <1>1, <3>3, <3>4 DEF Documented
  <2> QED
    BY <2>1, <2>2
<1>16. Old(w)' /\ mem' \in [Workflows -> [Objects -> Nat]]
    BY <1>1, <1>2 DEF Sound, Old, Shapes
<1> QED
    BY <1>1, <1>3, <1>6, <1>11, <1>12, <1>13, <1>14, <1>15, <1>16, PortolanKeeps

LEMMA WriteRootKeeps ==
    ASSUME PubInv, NEW w \in Workflows, WriteRoot(w)
    PROVE  PubInv'
<1> DEFINE h == todo[w][1]
           n == Left(w)
<1>1. /\ Runs(w) /\ todo[w] # <<>> /\ Head(todo[w]).do = "root" /\ Go(w)
      /\ line' = line /\ at' = at /\ mem' = mem /\ docs' = docs
      /\ upstream' = upstream /\ obs' = obs /\ store' = store /\ made' = made
    BY DEF WriteRoot, At
<1>2. Shapes /\ Published /\ Sound(w) /\ DocAgreesWithItself
    BY DEF PubInv
<1>3. /\ w \in Archiving /\ at[w] = 3 /\ n \in Nat \ {0} /\ h = Head(todo[w])
    BY <1>1, HeadOf
<1>4. n \in 1 .. 11 /\ n # 11 /\ n # 2
  <2>1. /\ n \in 1 .. 11
        /\ n = 11 => h.do = "load"
        /\ n = 2 => h.do = "describe"
    BY <1>1, <1>2, <1>3, Heads DEF Sound
  <2> QED
    BY <1>1, <1>3, <2>1
<1>6. /\ todo' \in [Workflows -> Seq(Steps)]
      /\ \A v \in Workflows \ {w} : todo'[v] = todo[v]
      /\ InCourse(w)' /\ Left(w)' = n - 1
      /\ \A i \in 1 .. n - 1 : todo'[w][i] = todo[w][i + 1]
    BY <1>1, Stepped
<1>7. ~(n >= 2 /\ todo[w][2].do = "describe" /\ todo[w][2].of # "observations")
    BY <1>1, <1>2, <1>3, Following DEF Sound
<1> HIDE DEF h, n
<1>8. Loaded(w)'
  <2>1. n = 1 \/ (n >= 2 /\ todo'[w][1] = todo[w][2])
    BY <1>3, <1>6
  <2>2. n = 1 => todo'[w] = <<>>
    <3>1. todo'[w] \in Seq(Steps)
        BY <1>6
    <3>2. n = 1 => Len(todo'[w]) = 0
        BY <1>6 DEF Left
    <3> QED
        BY <3>1, <3>2, EmptySeq
  <2> QED
    BY <1>7, <2>1, <2>2 DEF Loaded
<1>9. made[w] <= mem'[w]["summary"]
    BY <1>1, <1>2, <1>3, <1>4 DEF Sound, Documenting, n
<1>10. Left(w)' <= 1 /\ made[w] > 1 => Documented(w)'
  <2>1. Left(w)' <= 1 => n <= 1
    BY <1>4, <1>6
  <2> QED
    BY <1>1, <1>2, <1>3, <2>1 DEF Sound, Documenting, Documented, n
<1>11. /\ Old(w)' /\ mem' \in [Workflows -> [Objects -> Nat]]
       /\ DocAgreesWithItself' /\ DOMAIN docs' = Collections
    BY <1>1, <1>2 DEF Sound, Old, Shapes, DocAgreesWithItself
<1> QED
    BY <1>1, <1>3, <1>6, <1>8, <1>9, <1>10, <1>11, PortolanKeeps

--------------------------------------------------------------------------------
(* The concurrency group *)

LEMMA Asked ==
    ASSUME Shapes, NEW w \in Workflows, NEW rest \in Seq(Workflows), Len(rest) <= 2,
           NEW job \in 1 .. Len(JobsOf[w]), Ask(w, rest, job),
           upstream' = upstream, obs' = obs, store' = store, docs' = docs
    PROVE  /\ Shapes'
           /\ at'[w] = job /\ todo'[w] = StepsOf(JobsOf[w][job])
           /\ mem'[w] = NoMemory
           /\ made'[w] \in {0, made[w]} /\ (Len(rest) < 2 => made' = made)
           /\ \A v \in Workflows \ {w} :
                 \/ /\ at'[v] = at[v] /\ todo'[v] = todo[v]
                    /\ mem'[v] = mem[v] /\ made'[v] = made[v]
                 \/ /\ Len(rest) = 2
                    /\ at'[v] = 0 /\ todo'[v] = <<>>
                    /\ mem'[v] = mem[v] /\ made'[v] = 0
<1> DEFINE full == Len(rest) = 2
           J == StepsOf(JobsOf[w][job])
<1>1. /\ line' = IF full THEN <<rest[1], w>> ELSE Append(rest, w)
      /\ at' = [v \in Workflows |-> IF v = w THEN job
                                    ELSE IF full /\ v = rest[2] THEN 0 ELSE at[v]]
      /\ todo' = [v \in Workflows |-> IF v = w THEN J
                                      ELSE IF full /\ v = rest[2] THEN <<>> ELSE todo[v]]
      /\ mem' = [mem EXCEPT ![w] = NoMemory]
      /\ made' = [v \in Workflows |-> IF full /\ v = rest[2] THEN 0 ELSE made[v]]
    BY DEF Ask
<1>2. J \in Seq(Steps) /\ <<>> \in Seq(Steps)
    BY JobSteps
<1>3. /\ at \in [Workflows -> 0 .. 3] /\ at["metadata"] <= 1
      /\ todo \in [Workflows -> Seq(Steps)] /\ made \in [Workflows -> Nat]
      /\ mem \in [Workflows -> [Objects -> Nat]]
    BY DEF Shapes
<1>4. job \in 0 .. 3 /\ (w = "metadata" => job <= 1)
  <2>1. CASE w = "metadata"
    BY <2>1, Jobs
  <2>2. CASE w # "metadata"
    <3>1. w \in Archiving
        BY <2>2, Jobs DEF Archiving
    <3>2. Len(JobsOf[w]) = 3
        BY <3>1, Jobs
    <3> QED
        BY <2>2, <3>2
  <2> QED
    BY <2>1, <2>2
<1>5. NoMemory \in [Objects -> Nat]
    BY DEF NoMemory
<1> HIDE DEF J
<1>6. /\ line' \in Seq(Workflows) /\ Len(line') <= 2
  <2>1. CASE full
    <3>1. rest[1] \in Workflows
      <4>1. 1 \in 1 .. Len(rest)
        BY <2>1
      <4> QED
        BY <4>1, ElementOfSeq
    <3>2. line' = <<rest[1], w>>
        BY <1>1, <2>1
    <3> QED
        BY <3>1, <3>2
  <2>2. CASE ~full
    <3>1. line' = Append(rest, w)
        BY <1>1, <2>2
    <3>2. line' \in Seq(Workflows) /\ Len(line') = Len(rest) + 1
        BY <3>1, AppendProperties
    <3> DEFINE m == Len(rest)
    <3>3. m \in Nat /\ m <= 2 /\ m # 2
        BY <2>2, LenProperties
    <3> HIDE DEF m
    <3>5. m + 1 <= 2
        BY <3>3
    <3>4. Len(rest) + 1 <= 2
        BY <3>5 DEF m
    <3> QED
        BY <3>2, <3>4
  <2> QED
    BY <2>1, <2>2
<1> HIDE DEF full
<1>7. at' \in [Workflows -> 0 .. 3] /\ at'["metadata"] <= 1
  <2>1. at' \in [Workflows -> 0 .. 3]
    BY <1>1, <1>3, <1>4
  <2>2. "metadata" \in Workflows
    BY Jobs
  <2> QED
    BY <1>1, <1>3, <1>4, <2>1, <2>2
<1>8. todo' \in [Workflows -> Seq(Steps)]
    BY <1>1, <1>2, <1>3
<1>9. made' \in [Workflows -> Nat] /\ mem' \in [Workflows -> [Objects -> Nat]]
    BY <1>1, <1>3, <1>5
<1>10. Shapes'
    BY <1>6, <1>7, <1>8, <1>9 DEF Shapes
<1>11. /\ at'[w] = job /\ todo'[w] = J /\ mem'[w] = NoMemory
       /\ made'[w] \in {0, made[w]}
    BY <1>1, <1>3
<1>12. Len(rest) < 2 => made' = made
  <2>1. Len(rest) < 2 => ~full
    BY LenProperties DEF full
  <2> QED
    BY <1>1, <1>3, <2>1
<1>13. \A v \in Workflows \ {w} :
          \/ /\ at'[v] = at[v] /\ todo'[v] = todo[v]
             /\ mem'[v] = mem[v] /\ made'[v] = made[v]
          \/ /\ full
             /\ at'[v] = 0 /\ todo'[v] = <<>>
             /\ mem'[v] = mem[v] /\ made'[v] = 0
    BY <1>1, <1>3
<1> QED
    BY <1>10, <1>11, <1>12, <1>13 DEF J, full

LEMMA Fresh ==
    ASSUME Shapes', NEW w \in Workflows, mem'[w] = NoMemory, made'[w] <= obs'
    PROVE  Old(w)'
<1>1. {"stations", "manifest", "summary"} \subseteq Objects
    BY Things
<1>2. /\ mem'[w]["stations"] = 0 /\ mem'[w]["manifest"] = 0 /\ mem'[w]["summary"] = 0
    BY <1>1 DEF NoMemory
<1>3. upstream' \in Nat /\ obs' \in Nat
    BY DEF Shapes
<1> QED
    BY <1>2, <1>3 DEF Old

LEMMA TriggerKeeps ==
    ASSUME PubInv, NEW w \in Workflows, Trigger(w)
    PROVE  PubInv'
<1>1. /\ Ask(w, line, 1) /\ at[w] = 0
      /\ upstream' = upstream /\ obs' = obs /\ store' = store /\ docs' = docs
    BY DEF Trigger, Idle
<1>2. Shapes /\ Published /\ DocAgreesWithItself /\ Numbers /\ \A v \in Workflows : Sound(v)
    BY Numbered DEF PubInv
<1>3. line \in Seq(Workflows) /\ Len(line) <= 2
    BY <1>2 DEF Shapes
<1>4. 1 \in 1 .. Len(JobsOf[w])
  <2>1. CASE w = "metadata"
    BY <2>1, Jobs
  <2>2. CASE w # "metadata"
    <3>1. w \in Archiving
        BY <2>2, Jobs DEF Archiving
    <3>2. Len(JobsOf[w]) = 3
        BY <3>1, Jobs
    <3> QED
        BY <3>2
  <2> QED
    BY <2>1, <2>2
<1>5. /\ Shapes'
      /\ at'[w] = 1 /\ todo'[w] = StepsOf(JobsOf[w][1])
      /\ mem'[w] = NoMemory
      /\ made'[w] \in {0, made[w]}
      /\ \A v \in Workflows \ {w} :
            \/ /\ at'[v] = at[v] /\ todo'[v] = todo[v]
               /\ mem'[v] = mem[v] /\ made'[v] = made[v]
            \/ /\ at'[v] = 0 /\ todo'[v] = <<>>
               /\ mem'[v] = mem[v] /\ made'[v] = 0
    BY <1>1, <1>2, <1>3, <1>4, Asked
<1>6. Published' /\ DocAgreesWithItself'
    BY <1>1, <1>2 DEF Published, DocAgreesWithItself
<1>7. Sound(w)'
  <2>1. made'[w] <= obs'
    BY <1>1, <1>2, <1>5 DEF Sound, Old, Numbers
  <2>2. Old(w)'
    BY <1>5, <2>1, Fresh
  <2> QED
    BY <1>4, <1>5, <2>2, Begun
<1>8. ASSUME NEW v \in Workflows \ {w}
      PROVE  Sound(v)'
  <2>1. Sound(v) /\ Old(v) /\ made[v] \in Nat /\ obs \in Nat /\ upstream \in Nat
    BY <1>2 DEF Sound, Numbers
  <2>2. CASE /\ at'[v] = at[v] /\ todo'[v] = todo[v]
             /\ mem'[v] = mem[v] /\ made'[v] = made[v]
    <3>1. Old(v)'
        BY <1>1, <2>1, <2>2 DEF Old
    <3>2. Runs(v) => Runs(v)'
      <4> SUFFICES ASSUME Runs(v) PROVE Runs(v)'
        OBVIOUS
      <4>1. line # <<>> /\ Head(line) = v
        BY DEF Runs
      <4>2. Head(line) = line[1] /\ Len(line) \in Nat \ {0}
        BY <1>3, <4>1, HeadTailProperties, EmptySeq, LenProperties
      <4>3. CASE Len(line) = 2
        <5>1. line' = <<line[1], w>>
            BY <1>1, <4>3 DEF Ask
        <5>2. line' # <<>> /\ Head(line') = line[1]
            BY <5>1
        <5> QED
            BY <4>1, <4>2, <5>2 DEF Runs
      <4>4. CASE Len(line) # 2
        <5>1. line' = Append(line, w)
            BY <1>1, <4>4 DEF Ask
        <5>2. /\ line' \in Seq(Workflows) /\ Len(line') = Len(line) + 1
              /\ line'[1] = line[1]
            BY <1>3, <4>2, <5>1, AppendProperties
        <5>3. line' # <<>>
            BY <4>2, <5>2, EmptySeq
        <5>4. Head(line') = line'[1]
            BY <5>2, <5>3, HeadTailProperties
        <5> QED
            BY <4>1, <4>2, <5>2, <5>3, <5>4 DEF Runs
      <4> QED
        BY <4>3, <4>4
    <3> QED
        BY <1>1, <2>1, <2>2, <3>1, <3>2, Unmoved
  <2>3. CASE /\ at'[v] = 0 /\ todo'[v] = <<>>
             /\ mem'[v] = mem[v] /\ made'[v] = 0
    <3>1. Old(v)'
        BY <1>1, <2>1, <2>3 DEF Old
    <3> QED
        BY <2>3, <3>1, Gone
  <2> QED
    BY <1>5, <2>2, <2>3
<1> QED
    BY <1>5, <1>6, <1>7, <1>8 DEF PubInv

LEMMA Shorter ==
    ASSUME NEW T, NEW s \in Seq(T), s # <<>>, Len(s) <= 2
    PROVE  Tail(s) \in Seq(T) /\ Len(Tail(s)) < 2 /\ Len(Tail(s)) <= 2 /\ Len(Tail(s)) # 2
<1> DEFINE m == Len(s)
           n == Len(Tail(s))
<1>1. Tail(s) \in Seq(T) /\ n = m - 1
    BY HeadTailProperties
<1>2. m \in Nat
    BY LenProperties
<1>3. m <= 2
    OBVIOUS
<1> HIDE DEF m, n
<1>4. n < 2 /\ n <= 2 /\ n # 2
    BY <1>1, <1>2, <1>3
<1> QED
    BY <1>1, <1>4, Zenon DEF n

LEMMA NextJobKeeps ==
    ASSUME PubInv, NEW w \in Workflows, NextJob(w)
    PROVE  PubInv'
<1> DEFINE rest == Tail(line)
           k == at[w] + 1
<1>1. /\ Ask(w, rest, k) /\ Runs(w) /\ todo[w] = <<>> /\ at[w] < Len(JobsOf[w])
      /\ upstream' = upstream /\ obs' = obs /\ store' = store /\ docs' = docs
    BY DEF NextJob
<1>2. Shapes /\ Published /\ DocAgreesWithItself /\ Numbers /\ Sound(w)
    BY Numbered DEF PubInv
<1>9. at[w] \in 0 .. 3
  <2>1. at \in [Workflows -> 0 .. 3]
    BY <1>2 DEF Shapes
  <2> QED
    BY <2>1
<1>3. rest \in Seq(Workflows) /\ Len(rest) < 2 /\ Len(rest) <= 2 /\ Len(rest) # 2
  <2>1. line \in Seq(Workflows) /\ Len(line) <= 2 /\ line # <<>>
    BY <1>1, <1>2 DEF Shapes, Runs
  <2> QED
    BY <2>1, Shorter
<1>4. k \in 1 .. Len(JobsOf[w])
  <2>2. Len(JobsOf[w]) \in Nat
    BY Jobs DEF Archiving
  <2> QED
    BY <1>1, <1>9, <2>2
<1> HIDE DEF rest
<1>5. /\ Shapes'
      /\ at'[w] = k /\ todo'[w] = StepsOf(JobsOf[w][k])
      /\ mem'[w] = NoMemory /\ made' = made
      /\ \A v \in Workflows \ {w} :
            /\ at'[v] = at[v] /\ todo'[v] = todo[v]
            /\ mem'[v] = mem[v] /\ made'[v] = made[v]
  <2> HIDE DEF k
  <2> QED
    BY <1>1, <1>2, <1>3, <1>4, Asked
<1>6. Published' /\ DocAgreesWithItself'
    BY <1>1, <1>2 DEF Published, DocAgreesWithItself
<1>7. Sound(w)'
  <2>1. made'[w] <= obs'
    BY <1>1, <1>2, <1>5 DEF Sound, Old
  <2>2. Old(w)'
    BY <1>5, <2>1, Fresh
  <2>3. k = 3 => made'[w] <= store'["manifest"] /\ made'[w] <= store'["summary"]
    <3> SUFFICES ASSUME k = 3
                 PROVE  made[w] <= store["manifest"] /\ made[w] <= store["summary"]
        BY <1>1, <1>5
    <3>1. at[w] = 2
        BY <1>9
    <3>2. w \in Archiving
      <4>1. w # "metadata"
        BY <1>2, <3>1 DEF Shapes
      <4> QED
        BY <4>1, Jobs DEF Archiving
    <3>3. Left(w) = 0
        BY <1>1 DEF Left
    <3> QED
        BY <1>2, <3>1, <3>2, <3>3 DEF Sound, Cataloguing
  <2> HIDE DEF k
  <2> QED
    BY <1>4, <1>5, <2>2, <2>3, Begun
<1>8. \A v \in Workflows \ {w} : Sound(v)'
  <2>1. /\ upstream <= upstream' /\ obs <= obs'
        /\ store["manifest"] <= store'["manifest"]
        /\ store["summary"] <= store'["summary"]
    BY <1>1, <1>2 DEF Numbers
  <2> QED
    BY <1>1, <1>5, <2>1, Others
<1> QED
    BY <1>5, <1>6, <1>7, <1>8 DEF PubInv

LEMMA LeaveKeeps ==
    ASSUME PubInv, NEW w \in Workflows, LastJob(w) \/ Fail(w)
    PROVE  PubInv'
<1>1. /\ Runs(w) /\ LeaveGroup(w)
      /\ upstream' = upstream /\ obs' = obs /\ store' = store /\ docs' = docs
    BY DEF LastJob, Fail
<1>2. Shapes /\ Published /\ DocAgreesWithItself /\ Numbers
    BY Numbered DEF PubInv
<1>3. line' \in Seq(Workflows) /\ Len(line') <= 2
  <2>1. line \in Seq(Workflows) /\ Len(line) <= 2 /\ line # <<>>
    BY <1>1, <1>2 DEF Shapes, Runs
  <2>2. line' = Tail(line)
    BY <1>1 DEF LeaveGroup
  <2> QED
    BY <2>1, <2>2, Shorter
<1>4. /\ at \in [Workflows -> 0 .. 3] /\ at["metadata"] <= 1
      /\ todo \in [Workflows -> Seq(Steps)] /\ made \in [Workflows -> Nat]
      /\ mem \in [Workflows -> [Objects -> Nat]]
    BY <1>2 DEF Shapes
<1>5. /\ at' = [at EXCEPT ![w] = 0] /\ todo' = [todo EXCEPT ![w] = <<>>]
      /\ mem' = [mem EXCEPT ![w] = NoMemory] /\ made' = [made EXCEPT ![w] = 0]
    BY <1>1 DEF LeaveGroup
<1>6. NoMemory \in [Objects -> Nat] /\ <<>> \in Seq(Steps) /\ "metadata" \in Workflows
    BY Jobs DEF NoMemory
<1>7. at' \in [Workflows -> 0 .. 3] /\ at'["metadata"] <= 1
    BY <1>4, <1>5, <1>6
<1>8. todo' \in [Workflows -> Seq(Steps)]
    BY <1>4, <1>5, <1>6
<1>9. made' \in [Workflows -> Nat] /\ mem' \in [Workflows -> [Objects -> Nat]]
    BY <1>4, <1>5, <1>6
<1>10. Shapes'
    BY <1>1, <1>2, <1>3, <1>7, <1>8, <1>9 DEF Shapes
<1>11. Published' /\ DocAgreesWithItself'
    BY <1>1, <1>2 DEF Published, DocAgreesWithItself
<1>12. /\ at'[w] = 0 /\ todo'[w] = <<>> /\ mem'[w] = NoMemory /\ made'[w] = 0
       /\ \A v \in Workflows \ {w} :
             /\ at'[v] = at[v] /\ todo'[v] = todo[v]
             /\ mem'[v] = mem[v] /\ made'[v] = made[v]
    BY <1>4, <1>5
<1>13. Sound(w)'
  <2>1. made'[w] <= obs'
    BY <1>1, <1>2, <1>12 DEF Numbers
  <2>2. Old(w)'
    BY <1>10, <1>12, <2>1, Fresh
  <2> QED
    BY <1>12, <2>2, Gone
<1>14. \A v \in Workflows \ {w} : Sound(v)'
  <2>1. /\ upstream <= upstream' /\ obs <= obs'
        /\ store["manifest"] <= store'["manifest"]
        /\ store["summary"] <= store'["summary"]
    BY <1>1, <1>2 DEF Numbers
  <2> QED
    BY <1>1, <1>10, <1>12, <2>1, Others
<1> QED
    BY <1>10, <1>11, <1>13, <1>14 DEF PubInv

\* The service and the shards change what there is to publish.
LEMMA WorldKeeps ==
    ASSUME PubInv, ShardWrites \/ Upstream
    PROVE  PubInv'
<1>1. /\ UNCHANGED <<store, docs, line, at, todo, mem, made>>
      /\ \/ obs' = obs + 1 /\ upstream' = upstream
         \/ obs' = obs /\ upstream' = upstream + 1
    BY DEF ShardWrites, Upstream
<1>2. Shapes /\ Published /\ DocAgreesWithItself /\ Numbers
    BY Numbered DEF PubInv
<1>3. /\ upstream' \in Nat /\ obs' \in Nat /\ upstream <= upstream' /\ obs <= obs'
    BY <1>1, <1>2 DEF Numbers
<1>4. Shapes'
    BY <1>1, <1>2, <1>3 DEF Shapes
<1>5. Published'
    BY <1>1, <1>2, <1>3 DEF Published, Numbers
<1>6. DocAgreesWithItself'
    BY <1>1, <1>2 DEF DocAgreesWithItself
<1>7. ASSUME NEW w \in Workflows
      PROVE  Sound(w)'
  <2>1. Sound(w) /\ Old(w)
    BY DEF PubInv, Sound
  <2>2. Old(w)'
    BY <1>1, <1>2, <1>3, <1>4, <2>1, Aged
  <2>3. Runs(w) => Runs(w)'
    BY <1>1 DEF Runs
  <2> QED
    BY <1>1, <2>1, <2>2, <2>3, Unmoved
<1> QED
    BY <1>4, <1>5, <1>6, <1>7 DEF PubInv

LEMMA Initially == Init => PubInv
<1> SUFFICES ASSUME Init PROVE PubInv
    OBVIOUS
<1>1. Shapes
  <2>1. NoMemory \in [Objects -> Nat]
    BY DEF NoMemory
  <2>2. /\ <<>> \in Seq(Workflows) /\ Len(<<>>) = 0 /\ <<>> \in Seq(Steps)
        /\ "metadata" \in Workflows
    BY Jobs
  <2>3. /\ store \in [Objects -> Nat] /\ DOMAIN docs = Collections
        /\ line = <<>> /\ upstream = 1 /\ obs = 1
    BY DEF Init
  <2>4. /\ at \in [Workflows -> 0 .. 3] /\ at["metadata"] <= 1
        /\ made \in [Workflows -> Nat]
    BY <2>2 DEF Init
  <2>5. todo \in [Workflows -> Seq(Steps)] /\ mem \in [Workflows -> [Objects -> Nat]]
    BY <2>1, <2>2 DEF Init
  <2> QED
    BY <2>2, <2>3, <2>4, <2>5 DEF Shapes
<1>2. Published
  <2>1. {"stations", "histories", "manifest", "summary"} \subseteq Objects
    BY Things
  <2> QED
    BY <2>1 DEF Init, Published
<1>3. ASSUME NEW w \in Workflows
      PROVE  Sound(w)
  <2>1. {"stations", "manifest", "summary"} \subseteq Objects
    BY Things
  <2>2. /\ at[w] = 0 /\ todo[w] = <<>> /\ mem[w] = NoMemory /\ made[w] = 0
        /\ upstream = 1 /\ obs = 1
    BY DEF Init
  <2>3. Old(w)
    BY <2>1, <2>2 DEF Old, NoMemory
  <2> QED
    BY <2>2, <2>3
       DEF Sound, InCourse, Refreshing, Rebuilding, Cataloguing, Documenting, Loaded
<1>4. DocAgreesWithItself
  <2>1. ASSUME NEW c \in Range(Tables)
        PROVE  docs[c].table = docs[c].sums[c]
    <3>1. c \in Assets[c] /\ c \in Collections
        BY Things
    <3>2. docs[c] = NoDoc(c)
        BY <3>1 DEF Init
    <3> QED
        BY <3>1, <3>2 DEF NoDoc
  <2> QED
    BY <2>1 DEF DocAgreesWithItself
<1> QED
    BY <1>1, <1>2, <1>3, <1>4 DEF PubInv

LEMMA NextKeeps == PubInv /\ [Next]_vars => PubInv'
<1> SUFFICES ASSUME PubInv, [Next]_vars PROVE PubInv'
    OBVIOUS
<1>1. ASSUME NEW w \in Workflows, Trigger(w)
      PROVE  PubInv'
    BY <1>1, TriggerKeeps
<1>2. ASSUME NEW w \in Workflows, Step(w)
      PROVE  PubInv'
    BY <1>2, GetKeeps, PutKeeps, BuildKeeps, FoldKeeps, LoadSummaryKeeps,
       LoadTableKeeps, SkipKeeps, WriteDocKeeps, WriteRootKeeps, NextJobKeeps,
       LeaveKeeps
       DEF Step
<1>3. ASSUME NEW w \in Workflows, BuildFails(w) \/ Fail(w)
      PROVE  PubInv'
    BY <1>3, FoldKeeps, LeaveKeeps
<1>4. CASE ShardWrites \/ Upstream
    BY <1>4, WorldKeeps
<1>5. CASE UNCHANGED vars
  <2>1. /\ upstream' = upstream /\ obs' = obs /\ store' = store /\ docs' = docs
        /\ line' = line /\ at' = at /\ todo' = todo /\ mem' = mem /\ made' = made
    BY <1>5 DEF vars
  <2>2. Shapes /\ Published /\ DocAgreesWithItself
    BY DEF PubInv
  <2>3. Shapes' /\ Published' /\ DocAgreesWithItself'
    BY <2>1, <2>2 DEF Shapes, Published, DocAgreesWithItself
  <2>4. ASSUME NEW w \in Workflows
        PROVE  Sound(w)'
    <3>1. Sound(w) /\ Old(w)
        BY DEF PubInv, Sound
    <3>2. Old(w)' /\ (Runs(w) => Runs(w)')
        BY <2>1, <3>1 DEF Old, Runs
    <3> QED
        BY <2>1, <3>1, <3>2, Unmoved
  <2> QED
    BY <2>3, <2>4 DEF PubInv
<1> QED
    BY <1>1, <1>2, <1>3, <1>4, <1>5 DEF Next

LEMMA Invariance == Spec => []PubInv
<1>1. Init => PubInv
    BY Initially
<1>2. PubInv /\ [Next]_vars => PubInv'
    BY NextKeeps
<1> QED
    BY <1>1, <1>2, PTL DEF Spec

--------------------------------------------------------------------------------
(* The theorems *)

\* Whatever refreshes were interrupted between two requests or two writes, and
\* whatever else the group ran, every published history has its station
\* (metadata.py:48-54, 122-155, 174-194).
THEOREM HistoriesAreCovered == Spec => []HistoriesHaveStations
<1>1. PubInv => HistoriesHaveStations
    BY DEF PubInv, Published, HistoriesHaveStations
<1> QED
    BY <1>1, Invariance, PTL

\* No refresh comes between the table portolan reads and the object it hashes:
\* the rows and the checksum in the document of each of the four metadata tables
\* are of one version (portolan.py:1055-1058, 464).
THEOREM DocumentsAgree == Spec => []DocAgreesWithItself
<1>1. PubInv => DocAgreesWithItself
    BY DEF PubInv
<1> QED
    BY <1>1, Invariance, PTL

\* A chain of jobs that gets to its end has published what its compaction left,
\* in whatever order the group ran it among the others and however often a
\* build failed (compact.yml:16-45, portolan.py:1040-1044).
THEOREM ChainsPublish == Spec => ChainPublishes
<1> DEFINE Publishes ==
       \A w \in {"compact", "backfill"} :
          LastJob(w) /\ made[w] > 1 =>
             /\ docs["observations"].table >= made[w]
             /\ docs["observations"].sums["manifest"] >= made[w]
<1>1. PubInv /\ [Next]_vars => [Publishes]_vars
  <2> SUFFICES ASSUME PubInv, NEW w \in {"compact", "backfill"}, LastJob(w), made[w] > 1
               PROVE  /\ docs["observations"].table >= made[w]
                      /\ docs["observations"].sums["manifest"] >= made[w]
    OBVIOUS
  <2>1. w \in Archiving /\ w \in Workflows
    BY Jobs DEF Archiving
  <2>2. at[w] = 3 /\ todo[w] = <<>>
    BY <2>1, Jobs DEF LastJob
  <2>3. Left(w) = 0
    BY <2>2 DEF Left
  <2>4. Documented(w)
    BY <2>1, <2>2, <2>3 DEF PubInv, Sound, Documenting
  <2> QED
    BY <2>4 DEF Documented
<1> QED
    BY <1>1, Invariance, PTL DEF Spec, ChainPublishes

--------------------------------------------------------------------------------
(* A reader's listing of what is published (Listing)                         *)

Plain == {k \in Candidates : request.of[k] = NoPrefix}

Ahead(k) == {j \in Plain : request.walk[j] < request.walk[k]}

LEMMA LeastNatural ==
    ASSUME NEW T \in SUBSET Nat, T # {}
    PROVE  \E n \in T : \A m \in T : n <= m
<1> DEFINE Less == OpToRel(<, Nat)
<1>1. IsWellFoundedOn(Less, Nat)
    BY NatLessThanWellFounded
<1>2. \A m, n \in Nat : m < n => <<m, n>> \in Less
    BY Zenon DEF OpToRel
<1> HIDE DEF Less
<1>3. PICK n \in T : \A m \in T : ~ (<<m, n>> \in Less)
    BY <1>1, WFMin
<1>4. \A m \in T : m \in Nat /\ ~ (m < n)
    BY <1>2, <1>3, Zenon
<1> QED
    BY <1>4

LEMMA HighestKey ==
    ASSUME NEW S \in SUBSET Keys, S # {}
    PROVE  \E m \in S : \A k \in S : k <= m
<1> DEFINE T == {NumKeys - k : k \in S}
<1>1. \A k \in S : NumKeys - k \in Nat /\ k \in Nat
  <2>1. NumKeys \in Nat
    BY ListingAssumption
  <2> SUFFICES ASSUME NEW k \in S PROVE NumKeys - k \in Nat /\ k \in Nat
    OBVIOUS
  <2>2. k \in 1 .. NumKeys
    BY DEF Keys
  <2> QED
    BY <2>1, <2>2
<1>2. T \in SUBSET Nat /\ T # {}
    BY <1>1
<1>3. PICK n \in T : \A t \in T : n <= t
  <2> HIDE DEF T
  <2> QED
    BY <1>2, LeastNatural
<1>4. PICK m \in S : n = NumKeys - m
    OBVIOUS
<1>5. ASSUME NEW k \in S
      PROVE  k <= m
  <2>1. NumKeys - k \in T
    OBVIOUS
  <2>2. NumKeys - m <= NumKeys - k
    BY <1>3, <1>4, <2>1
  <2> QED
    BY <1>1, <2>2, ListingAssumption
<1> QED
    BY <1>5

\* Sets of keys are finite, and a set that has fewer is no larger.
LEMMA KeySets ==
    ASSUME NEW S \in SUBSET Keys
    PROVE  /\ IsFiniteSet(S) /\ Cardinality(S) \in Nat
           /\ \A T \in SUBSET S : Cardinality(T) \in Nat /\ Cardinality(T) <= Cardinality(S)
           /\ Cardinality(S) > 0 => S # {}
<1>1. IsFiniteSet(Keys)
    BY ListingAssumption, FS_Interval DEF Keys
<1>2. IsFiniteSet(S) /\ Cardinality(S) \in Nat
    BY <1>1, FS_Subset, FS_CardinalityType
<1>3. ASSUME NEW T \in SUBSET S
      PROVE  Cardinality(T) \in Nat /\ Cardinality(T) <= Cardinality(S)
    BY <1>2, FS_Subset, FS_CardinalityType
<1>4. Cardinality(S) > 0 => S # {}
    BY FS_EmptySet
<1> QED
    BY <1>2, <1>3, <1>4

\* A page holds the first of the plain keys that are left, all of them when it
\* is not truncated, and its token is the last one.
LEMMA Pages ==
    ASSUME ListingTypeOK, OrdersAgree
    PROVE  /\ Candidates \in SUBSET Keys /\ Plain \in SUBSET Keys /\ Page \subseteq Plain
           /\ Truncated =>
                 /\ Last \in Page
                 /\ \A k \in Plain : k \in Page <=> k <= Last
                 /\ Walked = {k \in Candidates : k <= Last}
           /\ ~Truncated => Page = Plain /\ Walked = Candidates
<1>1. Candidates \in SUBSET Keys /\ Plain \in SUBSET Keys
    BY DEF ListingTypeOK, Candidates, Plain
<1>2. Page = {k \in Plain : Cardinality(Ahead(k)) < request.max} /\ Page \subseteq Plain
    BY DEF Page, Plain, Ahead
<1>3. request.max \in Nat \ {0}
    BY ListingAssumption DEF ListingTypeOK
<1>4. \A k \in Plain : Ahead(k) = {j \in Plain : j < k}
    BY <1>1 DEF Ahead, OrdersAgree
<1>5. \A k \in Keys : k \in Nat
    BY DEF Keys
<1>6. ASSUME NEW k \in Page, NEW j \in Plain, j <= k
      PROVE  j \in Page
  <2>1. j \in Keys /\ k \in Keys /\ k \in Plain
    BY <1>1, <1>2
  <2>2. Ahead(j) \subseteq Ahead(k) /\ Ahead(k) \in SUBSET Keys
    BY <1>1, <1>4, <1>5, <1>6, <2>1
  <2>3. /\ Cardinality(Ahead(k)) \in Nat /\ Cardinality(Ahead(j)) \in Nat
        /\ Cardinality(Ahead(j)) <= Cardinality(Ahead(k))
    BY <2>2, KeySets
  <2>4. Cardinality(Ahead(k)) < request.max
    BY <1>2
  <2>5. Cardinality(Ahead(j)) < request.max
    BY <1>3, <2>3, <2>4
  <2> QED
    BY <1>2, <2>5
<1>7. \A j, k \in Keys : request.walk[j] <= request.walk[k] <=> j <= k
  <2>1. \A k \in Keys : request.walk[k] \in Nat
    BY <1>5, ListingAssumption DEF ListingTypeOK
  <2> QED
    BY <1>5, <2>1 DEF OrdersAgree
<1>8. ASSUME Truncated
      PROVE  /\ Last \in Page
             /\ \A k \in Plain : k \in Page <=> k <= Last
             /\ Walked = {k \in Candidates : k <= Last}
  <2>1. Page \in SUBSET Keys /\ Page # {}
    <3>1. Page \in SUBSET Keys
        BY <1>1, <1>2
    <3>2. Cardinality(Page) \in Nat /\ Cardinality(Page) >= request.max
        BY <1>8, <3>1, KeySets DEF Truncated
    <3>3. Cardinality(Page) > 0
        BY <1>3, <3>2
    <3> QED
        BY <3>1, <3>3, KeySets
  <2>2. PICK m \in Page : \A k \in Page : k <= m
    BY <2>1, HighestKey
  <2>3. Last \in Page /\ \A j \in Page : request.walk[j] <= request.walk[Last]
    <3>1. \A j \in Page : request.walk[j] <= request.walk[m]
        BY <1>7, <2>1, <2>2
    <3> QED
        BY <3>1 DEF Last
  <2>4. \A j \in Page : j <= Last
    BY <1>7, <2>1, <2>3
  <2>5. \A k \in Plain : k \in Page <=> k <= Last
    BY <1>6, <2>3, <2>4
  <2>6. Walked = {k \in Candidates : k <= Last}
    <3>1. Last \in Keys
        BY <2>1, <2>3
    <3>2. \A k \in Candidates : request.walk[k] <= request.walk[Last] <=> k <= Last
        BY <1>1, <1>7, <3>1
    <3>3. Walked = {k \in Candidates : request.walk[k] <= request.walk[Last]}
        BY <1>8 DEF Walked
    <3> QED
        BY <3>2, <3>3
  <2> QED
    BY <2>3, <2>5, <2>6
<1>9. ASSUME ~Truncated
      PROVE  Page = Plain /\ Walked = Candidates
  <2>1. ASSUME Plain \ Page # {}
        PROVE  FALSE
    <3>1. Plain \ Page \in SUBSET Nat
        BY <1>1, <1>5
    <3>2. PICK k \in Plain \ Page : \A j \in Plain \ Page : k <= j
        BY <2>1, <3>1, LeastNatural
    <3>3. Ahead(k) \subseteq Page
        BY <1>1, <1>4, <1>5, <3>2
    <3>4. Page \in SUBSET Keys
        BY <1>1, <1>2
    <3>5. /\ Cardinality(Page) \in Nat /\ Cardinality(Ahead(k)) \in Nat
          /\ Cardinality(Ahead(k)) <= Cardinality(Page)
        BY <3>3, <3>4, KeySets
    <3>6. ~(Cardinality(Page) >= request.max) /\ ~(Cardinality(Ahead(k)) < request.max)
        BY <1>2, <1>9, <3>2 DEF Truncated
    <3> QED
        BY <1>3, <3>5, <3>6
  <2>2. Walked = Candidates
    BY <1>9 DEF Walked
  <2> QED
    BY <1>2, <2>1, <2>2
<1> QED
    BY <1>1, <1>2, <1>8, <1>9

\* Where the walk goes as the keys do: what is up to the token has been given
\* once, nothing behind it has, and no prefix lies on both sides of it.
Orderly ==
    /\ after = 0 \/ (after \in Keys /\ request.of[after] = NoPrefix)
    /\ \A k \in Keys : contents[k] <= 1 /\ (k > after /\ ~done => contents[k] = 0)
    /\ \A k \in stayed : k <= after \/ done =>
          IF request.of[k] = NoPrefix THEN contents[k] = 1
          ELSE common[request.of[k]] = 1
    /\ \A p \in Prefixes :
          /\ common[p] <= 1
          /\ common[p] # 0 /\ ~done => \E k \in Keys : k <= after /\ request.of[k] = p

ListingInv == ListingTypeOK /\ (OrdersAgree => Orderly)

LEMMA Counts == Again(0) = 1 /\ \A n \in 0 .. 2 : Again(n) \in 0 .. 2
    BY DEF Again

LEMMA PageKeeps ==
    ASSUME ListingInv, GetPage
    PROVE  ListingInv'
<1>1. ListingTypeOK
    BY DEF ListingInv
<1>2. /\ ~done /\ request' = request /\ present' = present /\ stayed' = stayed
      /\ contents' = [k \in Keys |-> IF k \in Page THEN Again(contents[k]) ELSE contents[k]]
      /\ common' = [p \in Prefixes |-> IF \E k \in Walked : request.of[k] = p
                                       THEN Again(common[p]) ELSE common[p]]
      /\ after' = IF Truncated THEN Last ELSE after
      /\ done' = ~Truncated
    BY DEF GetPage
<1>3. /\ request \in Requests /\ present \subseteq Keys /\ stayed \subseteq present
      /\ after \in 0 .. NumKeys
      /\ contents \in [Keys -> 0 .. 2] /\ common \in [Prefixes -> 0 .. 2]
    BY <1>1 DEF ListingTypeOK
<1>4. contents' \in [Keys -> 0 .. 2] /\ common' \in [Prefixes -> 0 .. 2]
    BY <1>2, <1>3, Counts
<1>5. Page \subseteq Keys
    BY <1>1 DEF Page, Candidates, ListingTypeOK
<1>6. after' \in 0 .. NumKeys
  <2>1. ASSUME Truncated
        PROVE  Last \in Keys
    <3>1. Page # {}
      <4>1. Cardinality(Page) \in Nat /\ Cardinality(Page) >= request.max
        BY <1>5, <2>1, KeySets DEF Truncated
      <4>2. request.max \in Nat \ {0}
        BY <1>3, ListingAssumption
      <4>3. Cardinality(Page) > 0
        BY <4>1, <4>2
      <4> QED
        BY <1>5, <4>3, KeySets
    <3> DEFINE W == {request.walk[k] : k \in Page}
    <3>2. \A k \in Keys : request.walk[k] \in Keys
        BY <1>3, ListingAssumption
    <3>3. W \in SUBSET Keys /\ W # {}
        BY <1>5, <3>1, <3>2
    <3> HIDE DEF W
    <3>4. PICK m \in W : \A x \in W : x <= m
        BY <3>3, HighestKey
    <3>5. \E k \in Page : \A j \in Page : request.walk[j] <= request.walk[k]
        BY <3>4 DEF W
    <3>6. Last \in Page
        BY <3>5 DEF Last
    <3> QED
        BY <1>5, <3>6
  <2>2. Keys \subseteq 0 .. NumKeys
    BY ListingAssumption DEF Keys
  <2> QED
    BY <1>2, <1>3, <2>1, <2>2
<1>7. ListingTypeOK'
    BY <1>2, <1>3, <1>4, <1>6 DEF ListingTypeOK
<1>8. ASSUME OrdersAgree
      PROVE  Orderly'
  <2>1. Orderly
    BY <1>8 DEF ListingInv
  <2>2. /\ Candidates \in SUBSET Keys /\ Plain \in SUBSET Keys /\ Page \subseteq Plain
        /\ Truncated =>
              /\ Last \in Page
              /\ \A k \in Plain : k \in Page <=> k <= Last
              /\ Walked = {k \in Candidates : k <= Last}
        /\ ~Truncated => Page = Plain /\ Walked = Candidates
    BY <1>1, <1>8, Pages
  <2>3. /\ Candidates = {k \in present : k > after}
        /\ Plain = {k \in Candidates : request.of[k] = NoPrefix}
    BY DEF Candidates, Plain
  <2>4. /\ \A k \in Keys : k \in Nat
        /\ after \in Nat
        /\ \A k \in Keys : request.of[k] \in Prefixes \cup {NoPrefix}
        /\ NoPrefix \notin Prefixes
    BY <1>3, ListingAssumption DEF Keys
  <2>5. \A k \in Candidates : k > after /\ k \in Keys /\ k \in present
    BY <2>2, <2>3
  <2>6. \A k \in Page : contents[k] = 0
    <3>1. \A k \in Page : k \in Candidates
        BY <2>2, <2>3
    <3> QED
        BY <1>2, <2>1, <2>5, <3>1 DEF Orderly
  <2>7. \A k \in Keys : contents'[k] = IF k \in Page THEN 1 ELSE contents[k]
    BY <1>2, <2>6, Counts
  <2>8. ASSUME NEW p \in Prefixes, NEW k \in Walked, request.of[k] = p
        PROVE  common[p] = 0
    <3>1. k \in Candidates
        BY <2>2
    <3>2. k > after /\ k \in Keys
        BY <2>5, <3>1
    <3> SUFFICES ASSUME common[p] # 0 PROVE FALSE
        OBVIOUS
    <3>3. PICK i \in Keys : i <= after /\ request.of[i] = p
        BY <1>2, <2>1 DEF Orderly
    <3>4. after \in Keys /\ request.of[after] = NoPrefix
      <4>1. after # 0
        BY <3>3 DEF Keys
      <4> QED
        BY <2>1, <4>1 DEF Orderly
    <3>5. i # after
        BY <2>4, <3>3, <3>4
    <3>6. i < after /\ after < k
        BY <2>4, <3>2, <3>3, <3>5
    <3>7. request.of[after] = request.of[i]
        BY <1>3, <2>4, <2>8, <3>2, <3>3, <3>4, <3>6, ListingAssumption
    <3> QED
        BY <2>4, <3>3, <3>4, <3>7
  <2>9. \A p \in Prefixes :
           common'[p] = IF \E k \in Walked : request.of[k] = p THEN 1 ELSE common[p]
    BY <1>2, <2>8, Counts
  <2>10. after' = 0 \/ (after' \in Keys /\ request'.of[after'] = NoPrefix)
    BY <1>2, <2>1, <2>2, <2>3 DEF Orderly
  <2>11. ASSUME NEW k \in Keys
         PROVE  contents'[k] <= 1 /\ (k > after' /\ ~done' => contents'[k] = 0)
    <3>1. contents'[k] <= 1
        BY <2>1, <2>7 DEF Orderly
    <3>2. ASSUME k > after', ~done'
          PROVE  contents'[k] = 0
      <4>1. Truncated /\ after' = Last /\ Last \in Page
        BY <1>2, <2>2, <3>2
      <4>2. Last \in Keys /\ Last > after /\ ~(k <= Last)
        BY <2>2, <2>3, <2>4, <2>5, <3>2, <4>1
      <4>3. k \notin Page
        BY <2>2, <4>1, <4>2
      <4>4. k > after
        BY <2>4, <4>2
      <4> QED
        BY <1>2, <2>1, <2>7, <4>3, <4>4 DEF Orderly
    <3> QED
        BY <3>1, <3>2
  <2>12. ASSUME NEW k \in stayed, k <= after' \/ done'
         PROVE  IF request.of[k] = NoPrefix THEN contents'[k] = 1
                ELSE common'[request.of[k]] = 1
    <3>1. k \in Keys /\ k \in present
        BY <1>3
    <3>2. CASE k <= after
      <4>1. k \notin Page
        BY <2>2, <2>3, <2>4, <2>5, <3>1, <3>2
      <4>2. IF request.of[k] = NoPrefix THEN contents[k] = 1
            ELSE common[request.of[k]] = 1
        BY <2>1, <3>2 DEF Orderly
      <4> QED
        BY <2>4, <2>7, <2>9, <3>1, <4>1, <4>2
    <3>3. CASE ~(k <= after)
      <4>1. k \in Candidates
        BY <2>3, <2>4, <3>1, <3>3
      <4>2. Truncated => k <= Last
        BY <1>2, <2>12
      <4>3. k \in Walked
        BY <2>2, <4>1, <4>2
      <4>4. request.of[k] = NoPrefix => k \in Page
        BY <2>2, <2>3, <4>1, <4>2
      <4> QED
        BY <2>4, <2>7, <2>9, <3>1, <4>3, <4>4
    <3> QED
        BY <3>2, <3>3
  <2>13. ASSUME NEW p \in Prefixes
         PROVE  /\ common'[p] <= 1
                /\ common'[p] # 0 /\ ~done' =>
                      \E k \in Keys : k <= after' /\ request.of[k] = p
    <3>1. common'[p] <= 1
        BY <2>1, <2>9, <2>13 DEF Orderly
    <3>2. ASSUME common'[p] # 0, ~done'
          PROVE  \E k \in Keys : k <= after' /\ request.of[k] = p
      <4>1. Truncated /\ after' = Last /\ Last \in Page
        BY <1>2, <2>2, <3>2
      <4>2. Last \in Keys /\ Last > after
        BY <2>2, <2>3, <2>5, <4>1
      <4>3. CASE \E k \in Walked : request.of[k] = p
        <5>1. PICK k \in Walked : request.of[k] = p
            BY <4>3
        <5>2. k \in Keys /\ k <= Last
            BY <2>2, <2>5, <4>1, <5>1
        <5> QED
            BY <4>1, <5>1, <5>2
      <4>4. CASE ~ \E k \in Walked : request.of[k] = p
        <5>1. common[p] # 0
            BY <2>9, <2>13, <3>2, <4>4
        <5>2. PICK k \in Keys : k <= after /\ request.of[k] = p
            BY <1>2, <2>1, <2>13, <5>1 DEF Orderly
        <5>3. k <= Last
            BY <2>4, <4>2, <5>2
        <5> QED
            BY <4>1, <5>2, <5>3
      <4> QED
        BY <4>3, <4>4
    <3> QED
        BY <3>1, <3>2
  <2> QED
    BY <1>2, <2>10, <2>11, <2>12, <2>13 DEF Orderly
<1>9. OrdersAgree' => OrdersAgree
    BY <1>2 DEF OrdersAgree
<1> QED
    BY <1>7, <1>8, <1>9 DEF ListingInv

LEMMA ListingInvariance == ListingSpec => []ListingInv
<1>1. ListingInit => ListingInv
  <2> SUFFICES ASSUME ListingInit PROVE ListingInv
    OBVIOUS
  <2>1. ListingTypeOK
    <3>1. 0 \in 0 .. NumKeys
        BY ListingAssumption
    <3>2. /\ request \in Requests /\ present \subseteq Keys /\ stayed \subseteq present
          /\ after = 0 /\ done = FALSE
        BY DEF ListingInit
    <3>3. contents \in [Keys -> 0 .. 2] /\ common \in [Prefixes -> 0 .. 2]
        BY DEF ListingInit
    <3> QED
        BY <3>1, <3>2, <3>3 DEF ListingTypeOK
  <2>2. Orderly
    <3>1. \A k \in stayed : k \in Keys /\ ~(k <= 0)
        BY DEF ListingInit, Keys
    <3> QED
        BY <3>1 DEF ListingInit, Orderly
  <2> QED
    BY <2>1, <2>2 DEF ListingInv
<1>2. ListingInv /\ [ListingNext]_listingVars => ListingInv'
  <2> SUFFICES ASSUME ListingInv, [ListingNext]_listingVars PROVE ListingInv'
    OBVIOUS
  <2>1. CASE GetPage
    BY <2>1, PageKeeps
  <2>2. CASE /\ UNCHANGED <<request, after, done, contents, common>>
             /\ stayed' \subseteq stayed /\ present' \subseteq Keys
             /\ stayed' \subseteq present'
    <3>1. ListingTypeOK'
        BY <2>2 DEF ListingInv, ListingTypeOK
    <3>2. OrdersAgree' => Orderly'
        BY <2>2 DEF ListingInv, OrdersAgree, Orderly
    <3> QED
        BY <3>1, <3>2 DEF ListingInv
  <2>3. ASSUME NEW k \in Keys, Add(k) \/ Delete(k)
        PROVE  /\ UNCHANGED <<request, after, done, contents, common>>
               /\ stayed' \subseteq stayed /\ present' \subseteq Keys
               /\ stayed' \subseteq present'
    <3>1. present \subseteq Keys /\ stayed \subseteq present
        BY DEF ListingInv, ListingTypeOK
    <3>2. CASE Add(k)
        BY <3>1, <3>2 DEF Add
    <3>3. CASE Delete(k)
        BY <3>1, <3>3 DEF Delete
    <3> QED
        BY <2>3, <3>2, <3>3
  <2>4. CASE UNCHANGED listingVars
    <3>1. /\ UNCHANGED <<request, after, done, contents, common>>
          /\ stayed' \subseteq stayed /\ present' \subseteq Keys
          /\ stayed' \subseteq present'
        BY <2>4 DEF listingVars, ListingInv, ListingTypeOK
    <3> QED
        BY <2>2, <3>1
  <2> QED
    BY <2>1, <2>2, <2>3, <2>4 DEF ListingNext
<1> QED
    BY <1>1, <1>2, PTL DEF ListingSpec

\* However many objects come and go between the pages and wherever a page ends,
\* what was there all the time is listed once and no prefix comes twice, when
\* the server walks the keys as their strings sort (serve.py:249, 253-269, 287).
THEOREM ListingsAreExact == ListingSpec => []ListedOnce
<1>1. ListingInv => ListedOnce
    BY DEF ListingInv, Orderly, ListedOnce
<1> QED
    BY <1>1, ListingInvariance, PTL
===============================================================================
