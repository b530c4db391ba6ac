---------------------------- MODULE DeliveryProofs ----------------------------
(***************************************************************************)
(* What gets through: proofs about the CI gates (CiGate) and about the     *)
(* manufacture of patches (Manufacture), for every number of faults,       *)
(* pushes, runs and files.  The two have no state in common.               *)
(*                                                                         *)
(* CiGate rests on two facts.  The parser reads a log line by line, so     *)
(* that what it makes of a step's lines depends on what it kept of the     *)
(* lines before (StepIsTold).  And while no failure has counted, the log   *)
(* has the lines of the first k steps, nothing of the others, and no suite *)
(* is open (LogIsPrefix): a gate that lost the rest of its log therefore   *)
(* lacks the last suite, which every writer knows.                         *)
(***************************************************************************)
EXTENDS CiGate, Manufacture, FiniteSetTheorems, WellFoundedInduction, TLAPS

\* A set of naturals that is not empty has a least element: how the proofs
\* below replace an induction by a smallest counterexample.
LEMMA LeastExists ==
  ASSUME NEW T \in SUBSET Nat, T # {}
  PROVE  \E least \in T : \A n \in T : least <= n
<1>1. PICK R : R = OpToRel(<, Nat)
  OBVIOUS
<1>2. \A p : p \in R <=> p \in {q \in Nat \X Nat : q[1] < q[2]}
  BY <1>1, Zenon DEF OpToRel
<1>3. IsWellFoundedOn(R, Nat)
  BY <1>1, NatLessThanWellFounded, Zenon
<1>4. PICK least \in T : \A n \in T : ~(<<n, least>> \in R)
  BY <1>3, WFMin, Zenon
<1>5. \A n \in T : ~(n < least)
  BY <1>2, <1>4
<1> QED
  BY <1>5

\* f[k] is the parser after the first k lines.
IsScan(f, suites, text, n) ==
  f = [k \in 0 .. n |-> IF k = 0 THEN Fresh(suites) ELSE ParseLine(suites, f[k - 1], text[k])]

\* There is such a function, although it is defined by recursion.
LEMMA ScanExists ==
  ASSUME NEW suites, NEW text, NEW n \in Nat
  PROVE  \E f : IsScan(f, suites, text, n)
<1> DEFINE unscanned == {m \in Nat : ~\E f : IsScan(f, suites, text, m)}
<1> SUFFICES ASSUME unscanned # {} PROVE FALSE
  OBVIOUS
<1>1. PICK m \in unscanned : \A k \in unscanned : m <= k
  BY LeastExists
<1>2. m # 0
  <2>1. PICK f : f = [k \in 0 .. 0 |-> Fresh(suites)]
    OBVIOUS
  <2>2. IsScan(f, suites, text, 0)
    BY <2>1 DEF IsScan
  <2> QED
    BY <1>1, <2>2
<1>3. m \in Nat /\ m - 1 \in Nat /\ m - 1 \notin unscanned
  BY <1>1, <1>2
<1>4. PICK f : IsScan(f, suites, text, m - 1)
  BY <1>3
<1>5. PICK g : g = [k \in 0 .. m |-> IF k = m THEN ParseLine(suites, f[m - 1], text[m]) ELSE f[k]]
  OBVIOUS
<1>6. \A k \in 0 .. m : g[k] = IF k = 0 THEN Fresh(suites) ELSE ParseLine(suites, g[k - 1], text[k])
  <2> SUFFICES ASSUME NEW k \in 0 .. m
               PROVE  g[k] = IF k = 0 THEN Fresh(suites) ELSE ParseLine(suites, g[k - 1], text[k])
    OBVIOUS
  <2>1. \A j \in 0 .. m - 1 :
          f[j] = IF j = 0 THEN Fresh(suites) ELSE ParseLine(suites, f[j - 1], text[j])
    BY <1>4 DEF IsScan
  <2>2. \A j \in 0 .. m - 1 : g[j] = f[j]
    BY <1>3, <1>5
  <2>3. CASE k = m
    BY <1>2, <1>3, <1>5, <2>2, <2>3
  <2>4. CASE k # m
    BY <1>3, <2>1, <2>2, <2>4
  <2> QED
    BY <2>3, <2>4
<1>7. IsScan(g, suites, text, m)
  BY <1>5, <1>6 DEF IsScan
<1> QED
  BY <1>1, <1>7

\* What follows in the log does not change the parser before it.
LEMMA ScansAgree ==
  ASSUME NEW suites, NEW f, NEW g, NEW text, NEW longer, NEW n \in Nat,
         IsScan(f, suites, text, n), IsScan(g, suites, longer, n + 1),
         \A k \in 1 .. n : longer[k] = text[k]
  PROVE  g[n] = f[n]
<1> DEFINE apart == {k \in 0 .. n : g[k] # f[k]}
<1> SUFFICES ASSUME apart # {} PROVE FALSE
  OBVIOUS
<1>1. PICK k \in apart : \A j \in apart : k <= j
  <2>1. apart \in SUBSET Nat
    OBVIOUS
  <2> HIDE DEF apart
  <2> QED
    BY <2>1, LeastExists
<1>2. /\ f[k] = IF k = 0 THEN Fresh(suites) ELSE ParseLine(suites, f[k - 1], text[k])
      /\ g[k] = IF k = 0 THEN Fresh(suites) ELSE ParseLine(suites, g[k - 1], longer[k])
  BY <1>1 DEF IsScan
<1>3. CASE k = 0
  BY <1>1, <1>2, <1>3
<1>4. CASE k # 0
  <2>1. g[k - 1] = f[k - 1] /\ longer[k] = text[k]
    BY <1>1, <1>4
  <2> QED
    BY <1>1, <1>2, <1>4, <2>1
<1> QED
  BY <1>3, <1>4

\* Scanned is its last value.
LEMMA ScannedScans ==
  ASSUME NEW suites, NEW S, NEW text \in Seq(S)
  PROVE  \E f : IsScan(f, suites, text, Len(text)) /\ Scanned(suites, text) = f[Len(text)]
<1> DEFINE parser == CHOOSE f : IsScan(f, suites, text, Len(text))
<1>1. IsScan(parser, suites, text, Len(text))
  BY ScanExists
<1>2. Scanned(suites, text) = parser[Len(text)]
  BY DEF Scanned, IsScan
<1> QED
  BY <1>1, <1>2

\* Nothing was read yet.
LEMMA ScannedNothing ==
  ASSUME NEW suites
  PROVE  Scanned(suites, <<>>) = Fresh(suites)
<1>1. PICK f : IsScan(f, suites, <<>>, 0) /\ Scanned(suites, <<>>) = f[0]
  <2>1. <<>> \in Seq({}) /\ Len(<<>>) = 0
    OBVIOUS
  <2> QED
    BY <2>1, ScannedScans
<1> QED
  BY <1>1 DEF IsScan

\* One more line.
LEMMA ScannedLine ==
  ASSUME NEW suites, NEW S, NEW text \in Seq(S), NEW line \in S
  PROVE  Scanned(suites, Append(text, line)) = ParseLine(suites, Scanned(suites, text), line)
<1>1. PICK longer, n : longer = Append(text, line) /\ n = Len(text)
  OBVIOUS
<1>2. /\ longer \in Seq(S) /\ Len(longer) = n + 1 /\ n \in Nat /\ longer[n + 1] = line
      /\ \A k \in 1 .. n : longer[k] = text[k]
  BY <1>1
<1>3. PICK f : IsScan(f, suites, text, n) /\ Scanned(suites, text) = f[n]
  BY <1>1, ScannedScans
<1>4. PICK g : IsScan(g, suites, longer, n + 1) /\ Scanned(suites, longer) = g[n + 1]
  BY <1>2, ScannedScans
<1>5. g[n + 1] = ParseLine(suites, g[n], line)
  BY <1>2, <1>4 DEF IsScan
<1>6. g[n] = f[n]
  BY <1>2, <1>3, <1>4, ScansAgree
<1> QED
  BY <1>1, <1>3, <1>4, <1>5, <1>6
-----------------------------------------------------------------------------
SuiteNames == {"domain", "api", "mobile", "oidc", "townReadiness", "postgresql", "dr"}
IsSuite(i) == Plan[i].what \notin {"ids", "build"}
Known(i) == Plan[i].what \in DOMAIN Suites

\* The plans of the gates.
LEMMA PlanShape ==
  ASSUME stage \in Writers
  PROVE  /\ Len(Plan) \in Nat \ {0} /\ DOMAIN Plan = 1 .. Len(Plan)
         /\ \A i \in DOMAIN Plan :
              /\ Plan[i].what \in {"ids", "build"} \cup SuiteNames
              /\ Plan[i].onFail \in i + 1 .. Len(Plan) + 1
              /\ Plan[i].what = "ids" <=> i = 1
              /\ ~Plan[i].counts => stage # "6R-4C" /\ i = 1 /\ Plan[i].onFail = 2
         /\ \A i, j \in DOMAIN Plan :
              Plan[i].what = Plan[j].what => i = j \/ Plan[i].what = "build"
         /\ stage = "6R-4C" => \A i \in DOMAIN Plan : Plan[i].what \in {"ids", "build", "api", "postgresql"}
         /\ Plan[Len(Plan)].what = IF stage = "6R-4C" THEN "postgresql" ELSE "dr"
<1>1. CASE stage = "6R-4C"
  <2>1. Plan = SecurityPlan
    BY <1>1 DEF Plan
  <2> QED
    BY <1>1, <2>1 DEF SecurityPlan, Step, SuiteNames
<1>2. CASE stage # "6R-4C"
  <2>1. Plan = FullPlan
    BY <1>2 DEF Plan
  <2> QED
    BY <1>2, <2>1 DEF FullPlan, Step, SuiteNames
<1> QED
  BY <1>1, <1>2

LEMMA SuitesShape ==
  ASSUME stage \in Writers
  PROVE  /\ DOMAIN Suites \subseteq SuiteNames
         /\ \A s \in DOMAIN Suites : Suites[s] \in Nat \ {0}
         /\ {"api", "postgresql"} \subseteq DOMAIN Suites
         /\ stage # "6R-4C" => SuiteNames \ {"townReadiness"} \subseteq DOMAIN Suites
         /\ "townReadiness" \notin DOMAIN Suites => \A s \in DOMAIN Suites : Suites[s] # 5
         /\ \A s \in SuiteNames : Tests(s) \in Nat \ {0}
<1>1. \A s \in SuiteNames : Suites6R11[s] \in Nat \ {0}
  BY DEF Suites6R11, Suites6R10, SuiteNames
<1>2. CASE stage = "6R-4C"
  BY <1>1, <1>2 DEF Suites, SuitesOf, SuiteNames, Suites6R4C, Tests
<1>3. CASE stage = "6R-5"
  BY <1>1, <1>3 DEF Suites, SuitesOf, SuiteNames, Suites6R5, Tests
<1>4. CASE stage \in {"6R-6", "6R-7"}
  BY <1>1, <1>4 DEF Suites, SuitesOf, SuiteNames, Suites6R6, Suites6R7, Tests
<1>5. CASE stage \in {"6R-8", "6R-9"}
  BY <1>1, <1>5 DEF Suites, SuitesOf, SuiteNames, Suites6R8, Suites6R9, Tests
<1>6. CASE stage \in {"6R-10", "6R-11"}
  BY <1>1, <1>6 DEF Suites, SuitesOf, SuiteNames, Suites6R10, Suites6R11, Tests
<1> QED
  BY <1>2, <1>3, <1>4, <1>5, <1>6 DEF Writers

-----------------------------------------------------------------------------
\* The one suite that a writer may not know has five tests, which none of
\* the writer's own suites has.
Foreign(i) == IsSuite(i) /\ ~Known(i)
LEMMA ForeignHasFive ==
  ASSUME stage \in Writers, NEW i \in DOMAIN Plan, Foreign(i)
  PROVE  /\ Tests(Plan[i].what) = 5
         /\ \A s \in DOMAIN Suites : Suites[s] # 5
<1>1. Plan[i].what = "townReadiness" /\ Plan[i].what \notin DOMAIN Suites
  BY PlanShape, SuitesShape DEF Foreign, IsSuite, Known
<1> QED
  BY <1>1, SuitesShape DEF Tests, Suites6R11, Suites6R10

\* What the parser keeps.
Readings ==
  [passed : Nat, failed : Nat, total : Nat, status : {"not-run", "passed", "failed"}]
Parsers == [current : DOMAIN Suites \cup {""}, results : [DOMAIN Suites -> Readings]]

LEMMA ParserParts ==
  /\ \A parser \in Parsers :
       parser.current \in DOMAIN Suites \cup {""} /\ parser.results \in [DOMAIN Suites -> Readings]
  /\ \A c \in DOMAIN Suites \cup {""}, r \in [DOMAIN Suites -> Readings] :
       [current |-> c, results |-> r] \in Parsers
BY DEF Parsers

\* A suite is closed.
Closed(r, suite, read) == [current |-> "", results |-> [r EXCEPT ![suite] = read]]
IsClosed(parser, r, suite, read) ==
  /\ parser \in Parsers /\ parser.current = ""
  /\ \A s \in DOMAIN Suites : parser.results[s] = IF s = suite THEN read ELSE r[s]

LEMMA ReadingIsKept ==
  ASSUME NEW r \in [DOMAIN Suites -> Readings], NEW suite \in DOMAIN Suites, NEW read \in Readings
  PROVE  IsClosed(Closed(r, suite, read), r, suite, read)
<1>1. PICK closed : closed = [r EXCEPT ![suite] = read]
  OBVIOUS
<1>2. /\ closed \in [DOMAIN Suites -> Readings]
      /\ \A s \in DOMAIN Suites : closed[s] = IF s = suite THEN read ELSE r[s]
  BY <1>1
<1>3. PICK made : made = [current |-> "", results |-> closed]
  OBVIOUS
<1>4. made.current = "" /\ made.results = closed
  BY <1>3
<1>5. made \in Parsers
  BY <1>2, <1>3 DEF Parsers
<1>6. Closed(r, suite, read) = made
  BY <1>1, <1>3 DEF Closed
<1> QED
  BY <1>2, <1>4, <1>5, <1>6 DEF IsClosed

LEMMA FreshParser ==
  /\ Fresh(Suites) \in Parsers /\ Fresh(Suites).current = ""
  /\ \A s \in DOMAIN Suites : Fresh(Suites).results[s].status = "not-run"
BY DEF Parsers, Readings, Fresh, NotRun

\* The three kinds of lines.
LEMMA OtherLine ==
  ASSUME NEW parser, NEW line, line.kind \in {"ids", "build"}
  PROVE  ParseLine(Suites, parser, line) = parser
BY DEF ParseLine

LEMMA HeadingLine ==
  ASSUME NEW parser \in Parsers, NEW suite
  PROVE  ParseLine(Suites, parser, Heading(suite)) =
           IF suite \in DOMAIN Suites THEN [current |-> suite, results |-> parser.results]
                                      ELSE parser
<1>1. Heading(suite).kind = "heading" /\ Heading(suite).suite = suite
  BY DEF Heading, Line
<1>2. PICK c, r : parser = [current |-> c, results |-> r]
  BY DEF Parsers
<1>3. [parser EXCEPT !.current = suite] = [current |-> suite, results |-> parser.results]
  BY <1>2
<1> QED
  BY <1>1, <1>3 DEF ParseLine

LEMMA ResultLine ==
  ASSUME NEW parser, NEW p, NEW f
  PROVE  ParseLine(Suites, parser, Result(p, f)) =
           IF parser.current = "" THEN parser
           ELSE [current |-> "",
                 results |-> [parser.results EXCEPT
                                ![parser.current] = Parsed(Result(p, f), Suites[parser.current])]]
<1>1. Result(p, f).kind = "result"
  BY DEF Result, Line
<1> QED
  BY <1>1 DEF ParseLine

LEMMA ResultPasses ==
  ASSUME NEW p \in Nat, NEW f \in Nat, NEW expected
  PROVE  /\ Parsed(Result(p, f), expected) \in Readings
         /\ Parsed(Result(p, f), expected).status # "not-run"
         /\ Parsed(Result(p, f), expected).status = "passed" => p = expected /\ f = 0
BY DEF Parsed, Result, Line, Readings

-----------------------------------------------------------------------------
LEMMA OthersPrint ==
  \A how :
    /\ Printed("ids", how) = IF how = "good" THEN <<IdsPassed>> ELSE <<>>
    /\ Printed("build", how) =
         <<BuildCounts(IF how = "warned" THEN 1 ELSE 0, IF how = "broken" THEN 1 ELSE 0)>>
BY DEF Printed

\* The lines of a suite: none, its heading, or its heading and a result.
LEMMA SuitePrints ==
  ASSUME stage \in Writers, NEW i \in DOMAIN Plan, IsSuite(i), NEW how \in Outcomes(Plan[i].what)
  PROVE  LET what == Plan[i].what IN
         /\ how \in SuiteOutcomes
         /\ how = "unstarted" => Printed(what, how) = <<>>
         /\ how = "bailed" => Printed(what, how) = <<Heading(what)>>
         /\ how \notin {"unstarted", "bailed"} =>
              \E p, f \in Nat :
                /\ Printed(what, how) = <<Heading(what), Result(p, f)>>
                /\ how \in {"good", "late"} <=> p = Tests(what) /\ f = 0
                /\ how = "red" => f # 0
<1> DEFINE what == Plan[i].what
           tests == Tests(what)
<1>1. what \in SuiteNames /\ what \notin {"ids", "build"} /\ tests \in Nat \ {0}
  BY PlanShape, SuitesShape DEF IsSuite
<1>2. how \in SuiteOutcomes
  BY <1>1 DEF Outcomes
<1> HIDE DEF tests, what
<1>3. \A p, f \in Nat : Printed(what, how) = <<Heading(what), Result(p, f)>> =>
        \E q, g \in Nat : Printed(what, how) = <<Heading(what), Result(q, g)>> /\ q = p /\ g = f
  OBVIOUS
<1>4. CASE how \in {"good", "late"}
  <2>1. Printed(what, how) = <<Heading(what), Result(tests, 0)>>
    BY <1>1, <1>4 DEF Printed, SuiteLines, tests
  <2> QED
    BY <1>1, <1>2, <1>4, <2>1 DEF what, tests
<1>5. CASE how = "red"
  <2>1. Printed(what, how) = <<Heading(what), Result(tests - 1, 1)>>
    BY <1>1, <1>5 DEF Printed, SuiteLines, tests
  <2>2. tests - 1 \in Nat
    BY <1>1
  <2> QED
    BY <1>1, <1>2, <1>5, <2>1, <2>2 DEF what, tests
<1>6. CASE how = "fewer"
  <2>1. Printed(what, how) = <<Heading(what), Result(tests - 1, 0)>>
    BY <1>1, <1>6 DEF Printed, SuiteLines, tests
  <2>2. tests - 1 \in Nat /\ tests - 1 # tests
    BY <1>1
  <2> QED
    BY <1>1, <1>2, <1>6, <2>1, <2>2 DEF what, tests
<1>7. CASE how = "more"
  <2>1. Printed(what, how) = <<Heading(what), Result(tests + 1, 0)>>
    BY <1>1, <1>7 DEF Printed, SuiteLines, tests
  <2>2. tests + 1 \in Nat /\ tests + 1 # tests
    BY <1>1
  <2> QED
    BY <1>1, <1>2, <1>7, <2>1, <2>2 DEF what, tests
<1>8. CASE how \in {"bailed", "unstarted"}
  BY <1>1, <1>2, <1>8 DEF Printed, SuiteLines, what
<1> QED
  BY <1>2, <1>4, <1>5, <1>6, <1>7, <1>8 DEF SuiteOutcomes

\* What the parser makes of a step that went as it did: a suite that is not
\* its own it can only close, with another number of tests than today's.
Tells(i, how, what, old, new) ==
  /\ new \in Parsers
  /\ new.current \in {"", old.current} \cup (IF Known(i) THEN {what} ELSE {})
  /\ old.current = "" /\ ~Failed(how) => new.current = ""
  /\ \A s \in DOMAIN Suites :
       \/ new.results[s] = old.results[s]
       \/ Known(i) /\ s = what /\ (new.results[s].status = "passed" => how \in {"good", "late"})
       \/ /\ Foreign(i) /\ s = old.current
          /\ new.results[s].status = "passed" => how \in {"fewer", "more"}

LEMMA StepIsTold ==
  ASSUME stage \in Writers, NEW S, NEW text \in Seq(S),
         NEW i \in DOMAIN Plan, NEW how \in Outcomes(Plan[i].what), NEW what, what = Plan[i].what,
         NEW old \in Parsers, old = Scanned(Suites, text),
         NEW new, new = Scanned(Suites, text \o Printed(what, how))
  PROVE  Tells(i, how, what, old, new)
<1> USE DEF Tells
<1>1. CASE ~IsSuite(i)
  <2>1. IdsPassed.kind = "ids" /\ \A w, e : BuildCounts(w, e).kind = "build"
    BY DEF IdsPassed, BuildCounts, Line
  <2>2. PICK line : line.kind \in {"ids", "build"} /\ Printed(what, how) \in {<<>>, <<line>>}
    <3>1. CASE what = "ids"
      <4>1. Printed(what, how) = IF how = "good" THEN <<IdsPassed>> ELSE <<>>
        BY <3>1, OthersPrint
      <4> QED
        BY <2>1, <4>1
    <3>2. CASE what = "build"
      <4>1. Printed(what, how) =
              <<BuildCounts(IF how = "warned" THEN 1 ELSE 0, IF how = "broken" THEN 1 ELSE 0)>>
        BY <3>2, OthersPrint
      <4> QED
        BY <2>1, <4>1
    <3> QED
      BY <1>1, <3>1, <3>2 DEF IsSuite
  <2>3. text \in Seq(S \cup {line}) /\ text \o <<line>> = Append(text, line) /\ text \o <<>> = text
    OBVIOUS
  <2>4. Scanned(Suites, Append(text, line)) = old
    BY <2>2, <2>3, ScannedLine, OtherLine
  <2>5. new = old
    BY <2>2, <2>3, <2>4
  <2> QED
    BY <2>5
<1>2. CASE IsSuite(i) /\ how = "unstarted"
  <2>1. Printed(what, how) = <<>>
    BY <1>2, SuitePrints
  <2>2. text \o <<>> = text
    OBVIOUS
  <2>3. new = old
    BY <2>1, <2>2
  <2> QED
    BY <2>3
<1>3. CASE IsSuite(i) /\ how # "unstarted"
  <2>1. PICK opened : opened = Scanned(Suites, Append(text, Heading(what)))
    OBVIOUS
  <2>2. text \in Seq(S \cup {Heading(what)}) /\ Append(text, Heading(what)) \in Seq(S \cup {Heading(what)})
    OBVIOUS
  <2>3. opened = IF what \in DOMAIN Suites THEN [current |-> what, results |-> old.results] ELSE old
    BY <2>1, <2>2, ScannedLine, HeadingLine
  <2>4. opened \in Parsers
    BY <2>3, ParserParts
  <2>5. CASE how = "bailed"
    <3>1. text \o Printed(what, how) = Append(text, Heading(what))
      <4>1. Printed(what, how) = <<Heading(what)>>
        BY <1>3, <2>5, SuitePrints
      <4>2. text \o <<Heading(what)>> = Append(text, Heading(what))
        OBVIOUS
      <4> QED
        BY <4>1, <4>2
    <3>2. new = opened /\ Failed(how)
      BY <2>1, <2>5, <3>1 DEF Failed
    <3> QED
      BY <2>3, <2>4, <3>2 DEF Known
  <2>6. CASE how # "bailed"
    <3>1. PICK p, f \in Nat :
            /\ Printed(what, how) = <<Heading(what), Result(p, f)>>
            /\ how \in {"good", "late"} <=> p = Tests(what) /\ f = 0
            /\ how = "red" => f # 0
      BY <1>3, <2>6, SuitePrints
    <3>2. how \in SuiteOutcomes
      BY <1>3, SuitePrints
    <3>3. PICK result : result = Result(p, f)
      OBVIOUS
    <3>4. text \o <<Heading(what), result>> = Append(Append(text, Heading(what)), result)
      OBVIOUS
    <3>5. new = ParseLine(Suites, opened, result)
      <4>1. PICK longer : longer = Append(text, Heading(what))
        OBVIOUS
      <4>2. longer \in Seq(S \cup {Heading(what), result})
        BY <4>1
      <4>3. Scanned(Suites, Append(longer, result)) = ParseLine(Suites, Scanned(Suites, longer), result)
        BY <4>2, ScannedLine
      <4> QED
        BY <2>1, <3>1, <3>3, <3>4, <4>1, <4>3
    <3>6. PICK read : read = Parsed(Result(p, f), Suites[opened.current])
      OBVIOUS
    <3>7. new = IF opened.current = "" THEN opened
                ELSE [current |-> "", results |-> [opened.results EXCEPT ![opened.current] = read]]
      BY <3>3, <3>5, <3>6, ResultLine
    <3>8. /\ read \in Readings
          /\ read.status = "passed" => p = Suites[opened.current] /\ f = 0
      BY <3>6, ResultPasses
    <3>9. CASE what \in DOMAIN Suites
      <4>1. opened.current = what /\ opened.results = old.results /\ what # ""
        BY <2>3, <3>9, SuitesShape DEF SuiteNames
      <4>2. new = [current |-> "", results |-> [old.results EXCEPT ![what] = read]]
        BY <3>7, <4>1
      <4>3. read.status = "passed" => how \in {"good", "late"}
        BY <3>1, <3>8, <3>9, <4>1 DEF Tests
      <4>4. new = Closed(old.results, what, read)
        BY <4>2 DEF Closed
      <4>5. Known(i) /\ old.results \in [DOMAIN Suites -> Readings]
        BY <3>9, ParserParts DEF Known
      <4>6. IsClosed(new, old.results, what, read)
        BY <3>8, <3>9, <4>4, <4>5, ReadingIsKept
      <4> QED
        BY <4>3, <4>5, <4>6 DEF IsClosed
    <3>10. CASE what \notin DOMAIN Suites
      <4>1. opened = old /\ Foreign(i)
        BY <1>3, <2>3, <3>10 DEF Foreign, Known
      <4>2. CASE old.current = ""
        BY <3>7, <4>1, <4>2
      <4>3. CASE old.current # ""
        <5>1. new = [current |-> "", results |-> [old.results EXCEPT ![old.current] = read]]
          BY <3>7, <4>1, <4>3
        <5>2. old.current \in DOMAIN Suites
          BY <4>3 DEF Parsers
        <5>3. read.status = "passed" => how \in {"fewer", "more"}
          <6>1. read.status = "passed" => p = Suites[old.current] /\ p # 5 /\ f = 0
            BY <3>8, <4>1, <5>2, ForeignHasFive
          <6> QED
            BY <1>3, <2>6, <3>1, <3>2, <4>1, <6>1, ForeignHasFive DEF SuiteOutcomes
        <5>4. new = Closed(old.results, old.current, read)
          BY <5>1 DEF Closed
        <5>5. Foreign(i) /\ old.results \in [DOMAIN Suites -> Readings]
          BY <4>1, ParserParts
        <5>6. IsClosed(new, old.results, old.current, read)
          BY <3>8, <5>2, <5>4, <5>5, ReadingIsKept
        <5> QED
          BY <5>3, <5>5, <5>6 DEF IsClosed
      <4> QED
        BY <4>2, <4>3
    <3> QED
      BY <3>9, <3>10
  <2> QED
    BY <2>5, <2>6
<1> QED
  BY <1>1, <1>2, <1>3

-----------------------------------------------------------------------------
Told == Scanned(Suites, log)
ToldOf(i) == Told.results[Plan[i].what]

GateTyped ==
  /\ stage \in Writers /\ root \in BOOLEAN /\ logging \in BOOLEAN
  /\ \E S : log \in Seq(S)
  /\ Told \in Parsers
  /\ outcome \in [DOMAIN Plan -> SuiteOutcomes \cup BuildOutcomes \cup {"skipped"}]
  /\ \A i \in DOMAIN Plan : outcome[i] \in Outcomes(Plan[i].what) \cup {"skipped"}

StepsInOrder ==
  /\ pc \in 0 .. Len(Plan) + 1
  /\ pc = 0 => log = <<>> /\ gateExit = 0 /\ logging
  /\ \A i \in DOMAIN Plan : i >= pc => outcome[i] = "skipped"
  /\ evidence # "none" => Finished
  /\ exit # -1 => evidence # "none"

\* While the exit code is that of a success, every step that it covers ran.
NothingFailed ==
  gateExit = 0 =>
    \A i \in DOMAIN Plan : i < pc =>
      /\ outcome[i] # "skipped"
      /\ Failed(outcome[i]) => ~Plan[i].counts

IdsAreTold == TestIdsUnique(log) => outcome[1] = "good"

\* The log has the first k steps, and nothing of the steps after them.
WarningIsTold == \E n \in DOMAIN log : log[n] = BuildCounts(1, 0)
ToldUpTo(k) ==
  /\ k < pc \/ k = 0
  /\ logging => k + 1 = pc \/ pc = 0
  /\ \A i \in DOMAIN Plan :
       /\ i <= k /\ outcome[i] = "warned" => WarningIsTold
       /\ i <= k /\ Known(i) /\ ToldOf(i).status = "passed" => outcome[i] = "good"
       /\ i > k /\ Known(i) => ToldOf(i).status = "not-run"
LogIsPrefix == gateExit = 0 => Told.current = "" /\ \E k \in 0 .. Len(Plan) : ToldUpTo(k)

\* A suite that is open has been started.
OpenSuiteRan ==
  /\ Told.current # "" => \E i \in DOMAIN Plan : i < pc /\ Known(i) /\ Plan[i].what = Told.current
  /\ \A i \in DOMAIN Plan : i >= pc /\ Known(i) => ToldOf(i).status = "not-run"

AcceptedByWriter ==
  evidence = "accepted" => Accepts(stage, log, [root |-> root, gateExit |-> gateExit])

ExitIsBacked == exit = 0 => evidence = "accepted" /\ gateExit = 0

GateHolds ==
  /\ GateTyped /\ StepsInOrder /\ NothingFailed /\ IdsAreTold /\ LogIsPrefix /\ OpenSuiteRan
  /\ AcceptedByWriter /\ PassedIsItsOwn /\ ExitIsBacked

LEMMA GateStarts == GateInit => GateHolds
<1> SUFFICES ASSUME GateInit PROVE GateHolds
  OBVIOUS
<1>1. stage \in Writers
  BY GateAssumption DEF GateInit
<1>2. Told = Fresh(Suites)
  BY ScannedNothing DEF GateInit, Told
<1>3. outcome = [i \in DOMAIN Plan |-> "skipped"] /\ log = <<>> /\ pc = 0
  BY DEF GateInit
<1>4. GateTyped
  <2>1. log \in Seq({})
    BY <1>3
  <2>2. outcome \in [DOMAIN Plan -> SuiteOutcomes \cup BuildOutcomes \cup {"skipped"}]
    BY <1>3
  <2>3. \A i \in DOMAIN Plan : outcome[i] \in Outcomes(Plan[i].what) \cup {"skipped"}
    BY <1>3
  <2>4. root \in BOOLEAN /\ logging \in BOOLEAN /\ Told \in Parsers
    BY <1>2, FreshParser DEF GateInit
  <2> QED
    BY <1>1, <2>1, <2>2, <2>3, <2>4 DEF GateTyped
<1>5. StepsInOrder
  BY <1>1, <1>3, PlanShape DEF GateInit, StepsInOrder
<1>6. NothingFailed /\ IdsAreTold /\ AcceptedByWriter
  BY <1>1, <1>3, PlanShape DEF GateInit, NothingFailed, IdsAreTold, TestIdsUnique, AcceptedByWriter
<1>7. \A i \in DOMAIN Plan : Known(i) => ToldOf(i).status = "not-run"
  BY <1>2, FreshParser DEF Known, ToldOf
<1>8. LogIsPrefix
  <2>1. ToldUpTo(0)
    BY <1>1, <1>3, <1>7, PlanShape DEF ToldUpTo
  <2>2. 0 \in 0 .. Len(Plan)
    BY <1>1, PlanShape
  <2>3. Told.current = ""
    BY <1>2, FreshParser
  <2> QED
    BY <2>1, <2>2, <2>3 DEF LogIsPrefix
<1>9. OpenSuiteRan
  BY <1>2, <1>7, FreshParser DEF OpenSuiteRan
<1>10. PassedIsItsOwn
  <2>1. ParseSuites(Suites, log) = Told.results
    BY DEF ParseSuites, Told
  <2> QED
    BY <1>7, <2>1 DEF PassedIsItsOwn, Known, ToldOf
<1>11. ExitIsBacked
  BY DEF GateInit, ExitIsBacked
<1> QED
  BY <1>4, <1>5, <1>6, <1>8, <1>9, <1>10, <1>11 DEF GateHolds

\* The lines that the writer looks for come from the steps that they are about.
LEMMA LinesOfSteps ==
  ASSUME stage \in Writers, NEW i \in DOMAIN Plan, NEW how \in Outcomes(Plan[i].what),
         NEW what, what = Plan[i].what
  PROVE  /\ \E S : Printed(what, how) \in Seq(S)
         /\ (\E n \in DOMAIN Printed(what, how) : Printed(what, how)[n] = IdsPassed) =>
              i = 1 /\ how = "good"
         /\ how = "warned" => Printed(what, how) = <<BuildCounts(1, 0)>>
<1>1. /\ IdsPassed.kind = "ids" /\ Heading(what).kind = "heading"
      /\ \A p, f : Result(p, f).kind = "result" /\ BuildCounts(p, f).kind = "build"
  BY DEF IdsPassed, Heading, Result, BuildCounts, Line
<1>2. CASE what = "ids"
  <2>1. Printed(what, how) = IF how = "good" THEN <<IdsPassed>> ELSE <<>>
    BY <1>2, OthersPrint
  <2>2. i = 1 /\ how \in {"good", "red"}
    BY <1>2, PlanShape DEF Outcomes
  <2>3. <<IdsPassed>> \in Seq({IdsPassed}) /\ <<>> \in Seq({IdsPassed}) /\ DOMAIN <<>> = {}
    OBVIOUS
  <2>4. how # "warned"
    BY <2>2
  <2>5. CASE how = "good"
    BY <2>1, <2>2, <2>3, <2>4, <2>5
  <2>6. CASE how # "good"
    <3>1. Printed(what, how) = <<>>
      BY <2>1, <2>6
    <3> QED
      BY <2>3, <2>4, <3>1
  <2> QED
    BY <2>5, <2>6
<1>3. CASE what = "build"
  <2>1. PICK w, e : /\ Printed(what, how) = <<BuildCounts(w, e)>>
                    /\ w = IF how = "warned" THEN 1 ELSE 0
                    /\ e = IF how = "broken" THEN 1 ELSE 0
    BY <1>3, OthersPrint
  <2>2. PICK line : line = BuildCounts(w, e)
    OBVIOUS
  <2>3. <<line>> \in Seq({line}) /\ \A n \in DOMAIN <<line>> : <<line>>[n] = line
    OBVIOUS
  <2>4. line # IdsPassed /\ Printed(what, how) = <<line>>
    BY <1>1, <2>1, <2>2
  <2>5. how = "warned" => w = 1 /\ e = 0
    BY <2>1
  <2> QED
    BY <2>1, <2>3, <2>4, <2>5
<1>4. CASE IsSuite(i)
  <2>1. how \in SuiteOutcomes /\ how # "warned"
    BY <1>4, SuitePrints DEF SuiteOutcomes
  <2>2. /\ how = "unstarted" => Printed(what, how) = <<>>
        /\ how = "bailed" => Printed(what, how) = <<Heading(what)>>
        /\ how \notin {"unstarted", "bailed"} =>
             \E p, f \in Nat : Printed(what, how) = <<Heading(what), Result(p, f)>>
    BY <1>4, SuitePrints
  <2>3. PICK p, f : Printed(what, how) \in {<<>>, <<Heading(what)>>, <<Heading(what), Result(p, f)>>}
    BY <2>2, Zenon
  <2>4. /\ Heading(what) # IdsPassed /\ Result(p, f) # IdsPassed
        /\ Printed(what, how) \in Seq({Heading(what), Result(p, f)})
    <3>1. PICK a, b : a = Heading(what) /\ b = Result(p, f)
      OBVIOUS
    <3>2. <<>> \in Seq({a, b}) /\ <<a>> \in Seq({a, b}) /\ <<a, b>> \in Seq({a, b})
      OBVIOUS
    <3>3. a # IdsPassed /\ b # IdsPassed
      BY <1>1, <3>1
    <3> QED
      BY <2>3, <3>1, <3>2, <3>3
  <2>5. \A n \in DOMAIN Printed(what, how) : Printed(what, how)[n] # IdsPassed
    BY <2>4
  <2> QED
    BY <2>1, <2>4, <2>5
<1> QED
  BY <1>2, <1>3, <1>4 DEF IsSuite

-----------------------------------------------------------------------------
LEMMA StepHolds == GateHolds /\ RunGateStep => GateHolds'
<1> SUFFICES ASSUME GateHolds, RunGateStep PROVE GateHolds'
  OBVIOUS
<1>1. stage \in Writers
  BY DEF GateHolds, GateTyped
<1>2. PICK at, plan, steps :
        at = pc /\ plan = Plan /\ steps = Len(Plan) /\ at \in 1 .. steps /\ steps \in Nat
  BY <1>1, PlanShape DEF RunGateStep
<1>3. PICK how \in Outcomes(Plan[pc].what) :
        /\ outcome' = [outcome EXCEPT ![pc] = how]
        /\ log' = IF logging THEN log \o Printed(Plan[pc].what, how) ELSE log
        /\ gateExit' = IF Failed(how) /\ Plan[pc].counts THEN 1 ELSE gateExit
        /\ pc' = IF Failed(how) THEN Plan[pc].onFail ELSE pc + 1
        /\ UNCHANGED <<stage, root, logging, evidence, exit>>
  BY DEF RunGateStep
<1>4. Plan' = Plan /\ Suites' = Suites
  BY <1>3 DEF Plan, Suites
<1>5. /\ \A i : Known(i)' <=> Known(i)
      /\ Told' = Scanned(Suites, log')
      /\ \A i : ToldOf(i)' = Told'.results[Plan[i].what]
  BY <1>4 DEF Known, Told, ToldOf
<1>6. PICK what : what = Plan[pc].what
  OBVIOUS
<1>7. PICK old, new : old = Told /\ new = Told'
  OBVIOUS
<1>8. Tells(pc, how, what, old, new)
  <2>1. old \in Parsers /\ old = Scanned(Suites, log)
    BY <1>7 DEF GateHolds, GateTyped, Told
  <2>2. CASE ~logging
    <3>1. new = old
      BY <1>3, <1>5, <1>7, <2>1, <2>2
    <3> QED
      BY <2>1, <3>1 DEF Tells
  <2>3. CASE logging
    <3>1. new = Scanned(Suites, log \o Printed(what, how))
      BY <1>3, <1>5, <1>6, <1>7, <2>3
    <3>2. PICK S : log \in Seq(S)
      BY DEF GateHolds, GateTyped
    <3>3. PICK text \in Seq(S) : text = log
      BY <3>2
    <3>4. pc \in DOMAIN Plan
      BY DEF RunGateStep
    <3> QED
      BY <1>1, <1>3, <1>6, <2>1, <3>1, <3>3, <3>4, StepIsTold
  <2> QED
    BY <2>2, <2>3 DEF GateHolds, GateTyped
<1>9. /\ pc \in DOMAIN Plan /\ DOMAIN Plan = 1 .. Len(Plan) /\ Len(Plan) \in Nat
      /\ pc' \in pc + 1 .. Len(Plan) + 1
      /\ Failed(how) /\ ~Plan[pc].counts => pc = 1 /\ pc' = 2 /\ what = "ids"
  BY <1>1, <1>2, <1>3, <1>6, PlanShape
<1>10. /\ outcome[pc] = "skipped" /\ how # "skipped"
       /\ \A i \in DOMAIN Plan : outcome'[i] = IF i = pc THEN how ELSE outcome[i]
  <2>1. how # "skipped"
    BY <1>3 DEF Outcomes, SuiteOutcomes, BuildOutcomes
  <2> QED
    BY <1>3, <1>9, <2>1 DEF GateHolds, GateTyped, StepsInOrder
<1>11. \A i \in DOMAIN Plan : Known(i) =>
         /\ Plan[i].what \in DOMAIN Suites /\ Plan[i].what # ""
         /\ \A j \in DOMAIN Plan : Plan[j].what = Plan[i].what => j = i
  BY <1>1, PlanShape, SuitesShape DEF Known, SuiteNames
<1>12. evidence = "none" /\ exit = -1
  BY <1>9 DEF GateHolds, StepsInOrder, Finished
<1>13. GateTyped'
  <2>1. \E S : log' \in Seq(S)
    <3>1. PICK S : log \in Seq(S)
      BY DEF GateHolds, GateTyped
    <3>2. PICK T, text : text = Printed(what, how) /\ text \in Seq(T)
      BY <1>1, <1>3, <1>6, <1>9, LinesOfSteps
    <3>3. log \in Seq(S \cup T) /\ text \in Seq(S \cup T)
      BY <3>1, <3>2
    <3>4. log \o text \in Seq(S \cup T)
      BY <3>3
    <3> QED
      BY <1>3, <1>6, <3>1, <3>2, <3>4
  <2>2. how \in SuiteOutcomes \cup BuildOutcomes
    BY <1>3 DEF Outcomes, SuiteOutcomes, BuildOutcomes
  <2>3. outcome' \in [DOMAIN Plan -> SuiteOutcomes \cup BuildOutcomes \cup {"skipped"}]
    BY <1>3, <1>9, <2>2 DEF GateHolds, GateTyped
  <2>4. \A i \in DOMAIN Plan : outcome'[i] \in Outcomes(Plan[i].what) \cup {"skipped"}
    BY <1>3, <1>10 DEF GateHolds, GateTyped
  <2>5. Told' \in Parsers'
    BY <1>4, <1>7, <1>8 DEF Tells, Parsers
  <2> QED
    BY <1>3, <1>4, <2>1, <2>3, <2>4, <2>5 DEF GateHolds, GateTyped, Outcomes
<1>14. StepsInOrder'
  BY <1>3, <1>4, <1>9, <1>10, <1>12 DEF GateHolds, StepsInOrder
<1>15. NothingFailed'
  <2> SUFFICES ASSUME gateExit' = 0, NEW i \in DOMAIN Plan, i < pc'
               PROVE  outcome'[i] # "skipped" /\ (Failed(outcome'[i]) => ~Plan[i].counts)
    BY <1>4 DEF NothingFailed, Failed
  <2>1. gateExit = 0 /\ (Failed(how) => ~Plan[pc].counts)
    BY <1>3
  <2>2. i <= pc /\ pc \in Nat
    BY <1>3, <1>9, <2>1
  <2> QED
    BY <1>9, <1>10, <2>1, <2>2 DEF GateHolds, NothingFailed
<1>16. IdsAreTold'
  <2> SUFFICES ASSUME TestIdsUnique(log)' PROVE outcome'[1] = "good"
    BY DEF IdsAreTold
  <2>1. 1 \in DOMAIN Plan
    BY <1>1, PlanShape
  <2>2. CASE TestIdsUnique(log)
    <3>1. outcome[1] = "good"
      BY <2>2 DEF GateHolds, IdsAreTold
    <3> QED
      BY <1>10, <2>1, <3>1
  <2>3. CASE ~TestIdsUnique(log)
    <3>1. PICK S, text : log \in Seq(S) /\ text = Printed(what, how)
      BY DEF GateHolds, GateTyped
    <3>2. PICK T : text \in Seq(T)
      BY <1>1, <1>3, <1>6, <1>9, <3>1, LinesOfSteps
    <3>3. log' = log \o text
      BY <1>3, <1>6, <2>3, <3>1 DEF TestIdsUnique
    <3>4. \A n \in DOMAIN (log \o text) :
            (\E m \in DOMAIN log : (log \o text)[n] = log[m]) \/ \E m \in DOMAIN text : (log \o text)[n] = text[m]
      BY <3>1, <3>2
    <3>5. \E m \in DOMAIN text : text[m] = IdsPassed
      BY <2>3, <3>3, <3>4 DEF TestIdsUnique
    <3>6. pc = 1 /\ how = "good"
      BY <1>1, <1>3, <1>6, <1>9, <3>1, <3>5, LinesOfSteps
    <3> QED
      BY <1>10, <2>1, <3>6
  <2> QED
    BY <2>2, <2>3
<1>17. LogIsPrefix'
  <2> SUFFICES ASSUME gateExit' = 0
               PROVE  new.current = "" /\ \E k \in 0 .. Len(Plan) : ToldUpTo(k)'
    BY <1>4, <1>7 DEF LogIsPrefix
  <2>1. gateExit = 0 /\ (Failed(how) => ~Plan[pc].counts)
    BY <1>3
  <2>2. pc' = pc + 1
    BY <1>3, <1>9, <2>1
  <2>3. PICK k \in 0 .. Len(Plan) : ToldUpTo(k)
    BY <2>1 DEF GateHolds, LogIsPrefix
  <2>4. old.current = "" /\ k < pc /\ (logging => k = pc - 1)
    <3>1. old.current = ""
      BY <1>7, <2>1 DEF GateHolds, LogIsPrefix
    <3>2. (k < pc \/ k = 0) /\ (logging => k + 1 = pc \/ pc = 0)
      BY <2>3 DEF ToldUpTo
    <3>3. pc \in Nat /\ pc # 0 /\ k \in Nat
      BY <1>9
    <3>4. k < pc /\ (logging => k = pc - 1)
      BY <3>2, <3>3
    <3> QED
      BY <3>1, <3>4
  <2>14. Known(pc) => ~Failed(how)
    BY <1>1, <1>6, <1>9, <2>1, SuitesShape DEF Known, SuiteNames
  <2>5. new.current = ""
    <3>1. CASE Failed(how)
      BY <1>8, <2>4, <2>14, <3>1 DEF Tells
    <3> QED
      BY <1>8, <2>4, <3>1 DEF Tells
  <2>6. \A i \in DOMAIN Plan : Known(i) /\ i # pc =>
          new.results[Plan[i].what] = old.results[Plan[i].what]
    BY <1>6, <1>8, <1>9, <1>11, <2>4 DEF Tells
  <2>7. Known(pc) => \/ new.results[what] = old.results[what]
                     \/ new.results[what].status = "passed" => how = "good"
    BY <1>6, <1>8, <1>9, <1>11, <2>4, <2>14 DEF Tells, Failed
  <2>8. WarningIsTold \/ (logging /\ how = "warned") => WarningIsTold'
    <3>1. PICK S, T, text : /\ log \in Seq(S) /\ text \in Seq(T) /\ text = Printed(what, how)
                            /\ how = "warned" => text = <<BuildCounts(1, 0)>>
      BY <1>1, <1>3, <1>6, <1>9, LinesOfSteps DEF GateHolds, GateTyped
    <3>2. log' = IF logging THEN log \o text ELSE log
      BY <1>3, <1>6, <3>1
    <3>3. \A n \in DOMAIN log : n \in DOMAIN (log \o text) /\ (log \o text)[n] = log[n]
      BY <3>1
    <3>4. how = "warned" => LET n == Len(log) + 1 IN
            n \in DOMAIN (log \o text) /\ (log \o text)[n] = BuildCounts(1, 0)
      BY <3>1
    <3> QED
      BY <3>2, <3>3, <3>4 DEF WarningIsTold
  <2>9. /\ outcome[pc] = "skipped"
        /\ \A i \in DOMAIN Plan :
             /\ i <= k /\ outcome[i] = "warned" => WarningIsTold
             /\ i <= k /\ Known(i) /\ old.results[Plan[i].what].status = "passed" => outcome[i] = "good"
             /\ i > k /\ Known(i) => old.results[Plan[i].what].status = "not-run"
    BY <1>7, <1>10, <2>3 DEF ToldUpTo, ToldOf
  <2>10. PICK upTo : upTo = IF logging THEN pc ELSE k
    OBVIOUS
  <2>11. upTo \in 0 .. Len(Plan) /\ upTo < pc' /\ (logging => upTo + 1 = pc')
    <3>1. k < pc /\ pc \in 1 .. Len(Plan) /\ Len(Plan) \in Nat
      BY <1>9, <2>4
    <3>2. CASE logging
      BY <2>2, <2>10, <3>1, <3>2
    <3>3. CASE ~logging
      BY <2>2, <2>10, <3>1, <3>3
    <3> QED
      BY <3>2, <3>3
  <2>12. ASSUME NEW i \in DOMAIN Plan
         PROVE  /\ i <= upTo /\ outcome'[i] = "warned" => WarningIsTold'
                /\ i <= upTo /\ Known(i) /\ new.results[Plan[i].what].status = "passed" =>
                     outcome'[i] = "good"
                /\ i > upTo /\ Known(i) => new.results[Plan[i].what].status = "not-run"
    <3>1. pc \in Nat /\ i \in Nat /\ k \in Nat
      BY <1>9
    <3>2. CASE i = pc
      <4>1. i <= upTo <=> logging
        <5>1. k < pc
          BY <2>4
        <5> QED
          BY <2>10, <3>1, <3>2, <5>1
      <4>2. outcome'[i] = how /\ Plan[i].what = what
        BY <1>6, <1>10, <3>2
      <4>3. i > k
        BY <2>4, <3>1, <3>2
      <4>4. ~logging => new = old
        BY <1>3, <1>5, <1>7 DEF Told
      <4>5. ~(i <= upTo) <=> i > upTo
        BY <2>10, <3>1
      <4>6. Known(i) => old.results[what].status = "not-run"
        BY <2>9, <4>2, <4>3
      <4> QED
        BY <2>7, <2>8, <3>2, <4>1, <4>2, <4>4, <4>5, <4>6
    <3>3. CASE i # pc
      <4>1. outcome'[i] = outcome[i]
        BY <1>10, <3>3
      <4>2. Known(i) => new.results[Plan[i].what] = old.results[Plan[i].what]
        BY <2>6, <3>3
      <4>3. (i <= upTo <=> i <= k) /\ (i > upTo <=> i > k)
        <5>1. k < pc /\ (logging => k = pc - 1)
          BY <2>4
        <5>2. CASE logging
          BY <2>10, <3>1, <3>3, <5>1, <5>2
        <5>3. CASE ~logging
          BY <2>10, <5>3
        <5> QED
          BY <5>2, <5>3
      <4>4. /\ i <= k /\ outcome[i] = "warned" => WarningIsTold
            /\ i <= k /\ Known(i) /\ old.results[Plan[i].what].status = "passed" => outcome[i] = "good"
            /\ i > k /\ Known(i) => old.results[Plan[i].what].status = "not-run"
        BY <2>9
      <4>5. i <= upTo /\ outcome'[i] = "warned" => WarningIsTold'
        BY <2>8, <4>1, <4>3, <4>4
      <4>6. /\ i <= upTo /\ Known(i) /\ new.results[Plan[i].what].status = "passed" =>
                 outcome'[i] = "good"
            /\ i > upTo /\ Known(i) => new.results[Plan[i].what].status = "not-run"
        BY <4>1, <4>2, <4>3, <4>4
      <4> QED
        BY <4>5, <4>6
    <3> QED
      BY <3>2, <3>3
  <2>13. ToldUpTo(upTo)'
    BY <1>3, <1>4, <1>5, <1>7, <2>10, <2>11, <2>12 DEF ToldUpTo
  <2> QED
    BY <1>4, <2>5, <2>11, <2>13
<1>18. OpenSuiteRan'
  <2>1. /\ old.current # "" => \E i \in DOMAIN Plan : i < pc /\ Known(i) /\ Plan[i].what = old.current
        /\ \A i \in DOMAIN Plan : i >= pc /\ Known(i) => old.results[Plan[i].what].status = "not-run"
    BY <1>7 DEF GateHolds, OpenSuiteRan, ToldOf
  <2>2. \A i \in DOMAIN Plan : (i < pc \/ i = pc => i < pc') /\ (i >= pc' => i >= pc /\ i # pc)
    BY <1>9
  <2>3. ASSUME new.current # ""
        PROVE  \E i \in DOMAIN Plan : i < pc' /\ Known(i) /\ Plan[i].what = new.current
    <3>1. CASE new.current = old.current
      BY <2>1, <2>2, <2>3, <3>1
    <3>2. CASE Known(pc) /\ new.current = what
      BY <1>6, <1>9, <2>2, <3>2
    <3> QED
      BY <1>8, <2>3, <3>1, <3>2 DEF Tells
  <2>4. ASSUME NEW i \in DOMAIN Plan, i >= pc', Known(i)
        PROVE  new.results[Plan[i].what].status = "not-run"
    <3>1. old.results[Plan[i].what].status = "not-run" /\ i # pc /\ ~(i < pc)
      <4>1. i >= pc /\ i # pc
        BY <2>2, <2>4
      <4>2. ~(i < pc)
        BY <1>9, <4>1
      <4> QED
        BY <2>1, <2>4, <4>1, <4>2
    <3>2. Plan[i].what # what
      BY <1>6, <1>9, <1>11, <2>4, <3>1
    <3>3. Plan[i].what # old.current
      BY <1>11, <2>1, <2>4, <3>1
    <3> QED
      BY <1>8, <1>11, <2>4, <3>1, <3>2, <3>3 DEF Tells
  <2> QED
    BY <1>4, <1>5, <1>7, <2>3, <2>4 DEF OpenSuiteRan
<1>19. AcceptedByWriter'
  BY <1>3, <1>12 DEF AcceptedByWriter
<1>20. PassedIsItsOwn'
  <2>1. /\ ParseSuites(Suites, log) = old.results /\ ParseSuites(Suites', log') = new.results
        /\ \A i \in DOMAIN Plan : ForeignCount(i) => ForeignCount(i)'
        /\ Foreign(at) /\ how \in {"fewer", "more"} => ForeignCount(at)'
    <3>1. ParseSuites(Suites, log) = old.results /\ ParseSuites(Suites', log') = new.results
      BY <1>4, <1>5, <1>7 DEF ParseSuites, Told
    <3>2. \A i \in DOMAIN Plan : ForeignCount(i) => i # pc
      BY <1>10 DEF ForeignCount
    <3>3. \A i \in DOMAIN Plan :
            ForeignCount(i)' <=> /\ Plan[i].what \notin DOMAIN Suites \cup {"ids", "build"}
                                 /\ outcome'[i] \in {"fewer", "more"}
      BY <1>4 DEF ForeignCount
    <3>4. \A i \in DOMAIN Plan : ForeignCount(i) => ForeignCount(i)'
      BY <1>10, <3>2, <3>3 DEF ForeignCount
    <3>5. Foreign(at) /\ how \in {"fewer", "more"} => ForeignCount(at)'
      BY <1>2, <1>9, <1>10, <3>3 DEF Foreign, IsSuite, Known
    <3> QED
      BY <3>1, <3>4, <3>5
  <2> SUFFICES ASSUME NEW i \in DOMAIN Plan, Known(i), new.results[Plan[i].what].status = "passed"
               PROVE  outcome'[i] \in {"good", "late"} \/ \E j \in DOMAIN Plan : ForeignCount(j)'
    BY <1>4, <2>1 DEF PassedIsItsOwn, Known
  <2>2. CASE new.results[Plan[i].what] = old.results[Plan[i].what]
    <3>1. \/ outcome[i] \in {"good", "late"}
          \/ \E j \in DOMAIN Plan : ForeignCount(j)
      BY <2>1, <2>2 DEF GateHolds, PassedIsItsOwn, Known
    <3>2. outcome[i] \in {"good", "late"} => outcome'[i] = outcome[i]
      BY <1>10
    <3> QED
      BY <2>1, <3>1, <3>2
  <2>3. CASE Plan[i].what = what /\ how \in {"good", "late"}
    <3>1. i = pc
      BY <1>6, <1>9, <1>11, <2>3
    <3> QED
      BY <1>10, <2>3, <3>1
  <2>4. CASE Foreign(pc) /\ how \in {"fewer", "more"}
    BY <1>2, <1>9, <2>1, <2>4
  <2> QED
    BY <1>8, <1>11, <2>2, <2>3, <2>4 DEF Tells
<1>21. ExitIsBacked'
  BY <1>3, <1>12 DEF ExitIsBacked
<1> QED
  BY <1>13, <1>14, <1>15, <1>16, <1>17, <1>18, <1>19, <1>20, <1>21 DEF GateHolds

-----------------------------------------------------------------------------
\* What the log and the outcomes say to each other, whoever else moves.
LogHolds ==
  GateTyped /\ NothingFailed /\ IdsAreTold /\ LogIsPrefix /\ OpenSuiteRan /\ PassedIsItsOwn

LEMMA LogIsKept ==
  ASSUME LogHolds, UNCHANGED <<stage, root, pc, outcome, log, gateExit>>,
         logging' \in BOOLEAN, logging' => logging
  PROVE  LogHolds'
<1>1. Plan' = Plan /\ Suites' = Suites
  BY DEF Plan, Suites
<1>2. Told' = Told /\ (\A i : Known(i)' <=> Known(i)) /\ (\A i : ToldOf(i)' = ToldOf(i))
  BY <1>1 DEF Told, Known, ToldOf
<1>3. GateTyped' /\ NothingFailed' /\ IdsAreTold'
  BY <1>1, <1>2 DEF LogHolds, GateTyped, NothingFailed, IdsAreTold, TestIdsUnique, Outcomes, Parsers
<1>4. LogIsPrefix'
  <2>1. \A k : ToldUpTo(k) => ToldUpTo(k)'
    BY <1>1, <1>2 DEF ToldUpTo, WarningIsTold
  <2> QED
    BY <1>1, <1>2, <2>1 DEF LogHolds, LogIsPrefix
<1>5. OpenSuiteRan'
  BY <1>1, <1>2 DEF LogHolds, OpenSuiteRan
<1>6. PassedIsItsOwn'
  <2>1. \A i : ForeignCount(i)' <=> ForeignCount(i)
    BY <1>1 DEF ForeignCount
  <2> QED
    BY <1>1, <2>1 DEF LogHolds, PassedIsItsOwn
<1> QED
  BY <1>3, <1>4, <1>5, <1>6 DEF LogHolds

LEMMA PreflightHolds == GateHolds /\ Preflight => GateHolds'
<1> SUFFICES ASSUME GateHolds, Preflight PROVE GateHolds'
  OBVIOUS
<1>1. /\ stage \in Writers /\ pc = 0 /\ log = <<>> /\ gateExit = 0
      /\ UNCHANGED <<stage, root, outcome, log, logging, evidence, exit>>
  BY DEF GateHolds, GateTyped, StepsInOrder, Preflight
<1>2. Plan' = Plan /\ Suites' = Suites
  BY <1>1 DEF Plan, Suites
<1>3. Told' = Told /\ (\A i : Known(i)' <=> Known(i)) /\ (\A i : ToldOf(i)' = ToldOf(i))
  BY <1>1, <1>2 DEF Told, Known, ToldOf
<1>4. /\ Len(Plan) \in Nat \ {0} /\ DOMAIN Plan = 1 .. Len(Plan)
      /\ pc' = (IF root THEN Len(Plan) + 1 ELSE 1) /\ gateExit' = (IF root THEN 2 ELSE 0)
  BY <1>1, PlanShape DEF Preflight
<1>5. evidence = "none" /\ exit = -1
  BY <1>1, <1>4 DEF GateHolds, StepsInOrder, Finished
<1>6. GateTyped' /\ IdsAreTold'
  BY <1>1, <1>2, <1>3 DEF GateHolds, GateTyped, IdsAreTold, TestIdsUnique, Outcomes, Parsers
<1>7. StepsInOrder'
  <2>1. pc' \in 1 .. Len(Plan) + 1
    BY <1>4
  <2>2. \A i \in DOMAIN Plan : outcome[i] = "skipped"
    BY <1>1, <1>4 DEF GateHolds, StepsInOrder
  <2> QED
    BY <1>1, <1>2, <1>5, <2>1, <2>2 DEF StepsInOrder
<1>8. NothingFailed'
  <2>1. gateExit' = 0 => pc' = 1
    BY <1>4
  <2> QED
    BY <1>2, <1>4, <2>1 DEF NothingFailed
<1>9. Told.current = "" /\ ToldUpTo(0)
  <2>1. Told.current = "" /\ \E k \in 0 .. Len(Plan) : ToldUpTo(k)
    BY <1>1 DEF GateHolds, LogIsPrefix
  <2>2. \A k \in 0 .. Len(Plan) : ToldUpTo(k) => k = 0
    BY <1>1 DEF ToldUpTo
  <2> QED
    BY <2>1, <2>2
<1>10. \A i \in DOMAIN Plan : ~(i <= 0) /\ (Known(i) => ToldOf(i).status = "not-run")
  <2>1. \A i \in DOMAIN Plan : i > 0 /\ ~(i <= 0)
    BY <1>4
  <2> QED
    BY <1>9, <2>1 DEF ToldUpTo
<1>11. LogIsPrefix'
  <2>1. 0 \in 0 .. Len(Plan)
    BY <1>4
  <2>2. ASSUME gateExit' = 0 PROVE ToldUpTo(0)'
    <3>1. pc' = 1
      BY <1>4, <2>2
    <3>2. \A i \in DOMAIN Plan : ~(i <= 0) /\ (Known(i)' => ToldOf(i)'.status = "not-run")
      BY <1>3, <1>10
    <3> QED
      BY <1>2, <3>1, <3>2 DEF ToldUpTo
  <2>3. (gateExit = 0)' => (\E k \in 0 .. Len(Plan) : ToldUpTo(k)')
    BY <2>1, <2>2
  <2> QED
    BY <1>2, <1>3, <1>9, <2>3 DEF LogIsPrefix
<1>12. OpenSuiteRan'
  BY <1>2, <1>3, <1>9, <1>10 DEF OpenSuiteRan
<1>13. AcceptedByWriter' /\ ExitIsBacked'
  BY <1>1, <1>5 DEF AcceptedByWriter, ExitIsBacked
<1>14. PassedIsItsOwn'
  <2>1. ParseSuites(Suites, log) = Told.results
    BY DEF ParseSuites, Told
  <2> QED
    BY <1>1, <1>2, <1>10, <2>1 DEF PassedIsItsOwn, Known, ToldOf
<1> QED
  BY <1>6, <1>7, <1>8, <1>11, <1>12, <1>13, <1>14 DEF GateHolds

\* The steps that run no check: the disk fills up, the files of the writer.
LEMMA OthersHold ==
  GateHolds /\ (LoseLog \/ WriteJson \/ WriteSummary \/ UNCHANGED gateVars) => GateHolds'
<1> SUFFICES ASSUME GateHolds, LoseLog \/ WriteJson \/ WriteSummary \/ UNCHANGED gateVars
             PROVE  GateHolds'
  OBVIOUS
<1>1. UNCHANGED <<stage, root, pc, outcome, log, gateExit>> /\ Plan' = Plan
  BY DEF LoseLog, WriteJson, WriteSummary, gateVars, Plan
<1>2. logging' \in BOOLEAN /\ (logging' => logging)
  <2>1. logging' = FALSE \/ logging' = logging
    BY DEF LoseLog, WriteJson, WriteSummary, gateVars
  <2>2. logging \in BOOLEAN
    BY DEF GateHolds, GateTyped
  <2>3. CASE logging' = FALSE
    BY <2>3
  <2>4. CASE logging' = logging
    BY <2>2, <2>4
  <2> QED
    BY <2>1, <2>3, <2>4
<1>3. LogHolds /\ LogHolds'
  BY <1>1, <1>2, LogIsKept DEF GateHolds, LogHolds
<1>4. CASE LoseLog
  <2>1. UNCHANGED <<evidence, exit>> /\ pc \in DOMAIN Plan
    BY <1>4 DEF LoseLog
  <2>2. pc # 0
    BY <2>1, PlanShape DEF GateHolds, GateTyped
  <2>3. StepsInOrder' /\ AcceptedByWriter' /\ ExitIsBacked'
    BY <1>1, <2>1, <2>2
    DEF GateHolds, StepsInOrder, AcceptedByWriter, ExitIsBacked, Finished
  <2> QED
    BY <1>3, <2>3 DEF GateHolds, LogHolds
<1>5. CASE WriteJson
  <2>1. StepsInOrder'
    BY <1>1, <1>5 DEF GateHolds, StepsInOrder, WriteJson, Finished
  <2>2. AcceptedByWriter'
    BY <1>1, <1>5 DEF AcceptedByWriter, WriteJson
  <2>3. ExitIsBacked'
    BY <1>5 DEF GateHolds, StepsInOrder, WriteJson, ExitIsBacked
  <2> QED
    BY <1>3, <2>1, <2>2, <2>3 DEF GateHolds, LogHolds
<1>6. CASE WriteSummary
  <2>1. StepsInOrder'
    BY <1>1, <1>6 DEF GateHolds, StepsInOrder, WriteSummary, Finished
  <2>2. AcceptedByWriter'
    BY <1>1, <1>6 DEF GateHolds, AcceptedByWriter, WriteSummary
  <2>3. ExitIsBacked'
    BY <1>6 DEF WriteSummary, ExitIsBacked
  <2> QED
    BY <1>3, <2>1, <2>2, <2>3 DEF GateHolds, LogHolds
<1>7. CASE UNCHANGED gateVars
  <2>1. StepsInOrder' /\ AcceptedByWriter' /\ ExitIsBacked'
    BY <1>1, <1>7 DEF GateHolds, StepsInOrder, AcceptedByWriter, ExitIsBacked, Finished, gateVars
  <2> QED
    BY <1>3, <2>1 DEF GateHolds, LogHolds
<1> QED
  BY <1>4, <1>5, <1>6, <1>7

LEMMA GateStepsHold == GateHolds /\ [GateNext]_gateVars => GateHolds'
BY PreflightHolds, StepHolds, OthersHold DEF GateNext

-----------------------------------------------------------------------------
\* What every writer asks for.
AsksFor(run) ==
  /\ ~run.root /\ run.gateExit = 0 /\ AllGreen(ParseSuites(Suites, log))
  /\ stage # "6R-4C" => TestIdsUnique(log) /\ BuildClean(log)

LEMMA WritersAskFor ==
  ASSUME stage \in Writers, NEW run, Accepts(stage, log, run)
  PROVE  AsksFor(run)
<1> USE DEF AsksFor, Accepts, Suites, SuitesOf, RunIsSound, AcceptsChecked
<1>1. CASE stage = "6R-4C"
  BY <1>1 DEF Accepts6R4C
<1>2. CASE stage = "6R-5"
  BY <1>2 DEF Accepts6R5
<1>3. CASE stage = "6R-6"
  BY <1>3 DEF Accepts6R6
<1>4. CASE stage = "6R-7"
  BY <1>4 DEF Accepts6R7
<1>5. CASE stage = "6R-8"
  BY <1>5 DEF Accepts6R8
<1>6. CASE stage = "6R-9"
  BY <1>6 DEF Accepts6R9
<1>7. CASE stage = "6R-10"
  BY <1>7 DEF Accepts6R10
<1>8. CASE stage = "6R-11"
  BY <1>8 DEF Accepts6R11
<1> QED
  BY <1>1, <1>2, <1>3, <1>4, <1>5, <1>6, <1>7, <1>8 DEF Writers

LEMMA AcceptedWasGreen == GateHolds => AcceptedMeansGreen
<1> SUFFICES ASSUME GateHolds, evidence = "accepted", NEW i \in DOMAIN Plan
             PROVE  ~root /\ (Vouched(i) => outcome[i] = "good")
  BY PlanShape DEF AcceptedMeansGreen, GateHolds, GateTyped
<1>1. stage \in Writers
  BY DEF GateHolds, GateTyped
<1>2. PICK steps : steps = Len(Plan)
  OBVIOUS
<1>3. steps \in Nat \ {0} /\ DOMAIN Plan = 1 .. steps /\ pc > steps
  BY <1>1, <1>2, PlanShape DEF GateHolds, StepsInOrder, Finished
<1>4. /\ ~root /\ gateExit = 0 /\ AllGreen(Told.results)
      /\ stage # "6R-4C" => TestIdsUnique(log) /\ BuildClean(log)
  <2>1. AsksFor([root |-> root, gateExit |-> gateExit])
    BY <1>1, WritersAskFor DEF GateHolds, AcceptedByWriter
  <2> QED
    BY <2>1 DEF AsksFor, ParseSuites, Told
<1>5. \A j \in DOMAIN Plan : Known(j) => ToldOf(j).status = "passed"
  <2>1. DOMAIN Told.results = DOMAIN Suites
    BY ParserParts DEF GateHolds, GateTyped
  <2> QED
    BY <1>4, <2>1 DEF AllGreen, Known, ToldOf
<1>6. PICK k \in 0 .. steps : ToldUpTo(k)
  BY <1>2, <1>4 DEF GateHolds, LogIsPrefix
\* The last suite of every plan is one that the writer knows.
<1>7. k = steps
  <2>1. Known(steps) /\ steps \in DOMAIN Plan
    BY <1>1, <1>2, <1>3, PlanShape, SuitesShape DEF Known, SuiteNames
  <2>2. ToldOf(steps).status # "not-run"
    BY <1>5, <2>1
  <2>3. ~(steps > k)
    BY <1>6, <2>1, <2>2 DEF ToldUpTo
  <2> QED
    BY <1>3, <2>3
<1>8. /\ outcome[i] # "skipped" /\ (Failed(outcome[i]) => ~Plan[i].counts)
      /\ outcome[i] = "warned" => WarningIsTold
      /\ Known(i) => outcome[i] = "good"
  <2>1. i < pc /\ i <= k
    <3>1. pc \in Nat
      BY <1>2, <1>3 DEF GateHolds, StepsInOrder
    <3> QED
      BY <1>3, <1>7, <3>1
  <2>2. outcome[i] # "skipped" /\ (Failed(outcome[i]) => ~Plan[i].counts)
    BY <1>4, <2>1 DEF GateHolds, NothingFailed
  <2> QED
    BY <1>5, <1>6, <2>1, <2>2 DEF ToldUpTo
<1>9. CASE Plan[i].what = "ids"
  <2>1. i = 1 /\ (~Plan[i].counts => stage # "6R-4C")
    BY <1>1, <1>9, PlanShape
  <2>2. outcome[i] \in {"good", "red"}
    BY <1>8, <1>9 DEF GateHolds, GateTyped, Outcomes
  <2>3. stage # "6R-4C" => outcome[i] = "good"
    BY <1>4, <2>1 DEF GateHolds, IdsAreTold
  <2> QED
    BY <1>4, <1>8, <2>1, <2>2, <2>3 DEF Failed
<1>10. CASE Plan[i].what = "build"
  <2>1. Plan[i].counts
    BY <1>1, <1>10, PlanShape
  <2>2. outcome[i] \in {"good", "warned"}
    BY <1>8, <1>10, <2>1 DEF GateHolds, GateTyped, Outcomes, BuildOutcomes, Failed
  <2>3. stage # "6R-4C" => ~WarningIsTold
    <3>1. BuildCounts(1, 0).kind = "build" /\ BuildCounts(1, 0).passed = 1
      BY DEF BuildCounts, Line
    <3> QED
      BY <1>4, <3>1 DEF BuildClean, WarningIsTold
  <2> QED
    BY <1>4, <1>8, <2>2, <2>3 DEF Vouched
<1>11. CASE Plan[i].what \notin {"ids", "build"}
  BY <1>4, <1>8, <1>11 DEF Vouched, Known
<1> QED
  BY <1>9, <1>10, <1>11

LEMMA GateInvariant == GateSpec => []GateHolds
<1>1. GateInit => GateHolds
  BY GateStarts
<1>2. GateHolds /\ [GateNext]_gateVars => GateHolds'
  BY GateStepsHold
<1> QED
  BY <1>1, <1>2, PTL DEF GateSpec

\* CiGate!AcceptedMeansGreen for every gate, every number of faults and every
\* length of the plans' logs: evidence that acceptance_status of any writer
\* accepts was produced by a user other than root, and every build and every
\* registered suite ran to its end with exactly the expected tests passed,
\* although the exit code misses the identifier check and the log may stop
\* at any line.
THEOREM AcceptedEvidenceIsTrue == GateSpec => []AcceptedMeansGreen
BY GateInvariant, AcceptedWasGreen, PTL

\* CiGate!PassedIsItsOwn: parse_suites takes the result of a suite from the
\* lines of that suite, unless a suite that the writer does not know has
\* another number of tests than it has today.
THEOREM ResultsKeepTheirSuite == GateSpec => []PassedIsItsOwn
<1>1. GateHolds => PassedIsItsOwn
  BY DEF GateHolds
<1> QED
  BY <1>1, GateInvariant, PTL

LEMMA GreenRanItsPlan == GateHolds => GreenJobRanItsPlan
<1> SUFFICES ASSUME GateHolds, exit = 0, NEW i \in DOMAIN Plan
             PROVE  outcome[i] # "skipped" /\ ~Failed(outcome[i])
  BY DEF GreenJobRanItsPlan
<1>1. stage \in Writers /\ evidence = "accepted" /\ gateExit = 0
  BY DEF GateHolds, GateTyped, ExitIsBacked
\* Every step went by, and those that the exit code covers did not fail.
<1>2. outcome[i] # "skipped" /\ (Failed(outcome[i]) => ~Plan[i].counts)
  <2>1. i < pc
    BY <1>1, PlanShape DEF GateHolds, StepsInOrder, Finished
  <2> QED
    BY <1>1, <2>1 DEF GateHolds, NothingFailed
\* The one step that it does not cover is in the evidence.
<1>3. ~Plan[i].counts => outcome[i] = "good"
  <2>1. ASSUME ~Plan[i].counts PROVE Plan[i].what = "ids"
    BY <1>1, <2>1, PlanShape
  <2>2. Plan[i].what = "ids" => Vouched(i) \/ outcome[i] = "warned"
    BY DEF Vouched
  <2>3. Plan[i].what = "ids" => outcome[i] # "warned"
    BY DEF GateHolds, GateTyped, Outcomes
  <2> QED
    BY <1>1, <2>1, <2>2, <2>3, AcceptedWasGreen DEF AcceptedMeansGreen
<1> QED
  BY <1>2, <1>3 DEF Failed

\* CiGate!GreenJobRanItsPlan: the script of a gate exits with 0 only when
\* every step of its plan ran and none failed.  The exit code of the suites
\* covers what the writer of the stage does not register, the evidence the
\* identifier check that the exit code misses.
THEOREM GreenJobsRanTheirPlan == GateSpec => []GreenJobRanItsPlan
BY GateInvariant, GreenRanItsPlan, PTL

-----------------------------------------------------------------------------
(***************************************************************************)
(* Manufacture.  The invariant follows a run through its stages: the order *)
(* it carries is that of its commit until its manufacturer starts, which   *)
(* it does only when the commit is the tip of main; a scope was found not  *)
(* to be empty before anything is made; and what both jobs have checked of *)
(* a patch stays true of it until it is a branch.                          *)
(***************************************************************************)
\* The decisions, and what the checks behind them say.
LEMMA ChangeIsSingle ==
  ASSUME NEW S, Cardinality(S) = 1
  PROVE  S # {}
<1>1. Cardinality({}) = Cardinality({})
  BY DEF Cardinality, Cardinality
<1> QED
  BY <1>1, FS_EmptySet

LEMMA PrefixesStartAlike ==
  ASSUME NEW S, NEW path \in Seq(S), NEW T, NEW prefix \in Seq(T), prefix # <<>>,
         IsPrefix(prefix, path)
  PROVE  path[1] = prefix[1]
BY DEF IsPrefix

LEMMA DeniedDespiteDot ==
  ASSUME NEW S, NEW path \in Seq(S), ~PathIsDenied(path), NEW item \in DenyPrefixes
  PROVE  ~IsPrefix(item, path)
<1>1. item # <<>> /\ item[1] # "."
  <2>1. \A prefix \in DenyPrefixes : prefix # <<>>
    BY DEF DenyPrefixes
  <2>2. \A prefix \in DenyPrefixes : prefix[1] # "."
    BY DEF DenyPrefixes
  <2> QED
    BY <2>1, <2>2
<1>2. PICK T : item \in Seq(T)
  <2>1. \/ \E a, b, c, d : item = <<a, b, c, d>>
        \/ \E a, b, c, d, e, f, g, h : item = <<a, b, c, d, e, f, g, h>>
    BY Zenon DEF DenyPrefixes
  <2>2. CASE \E a, b, c, d : item = <<a, b, c, d>>
    <3>1. PICK a, b, c, d : item = <<a, b, c, d>>
      BY <2>2
    <3>2. item \in Seq({a, b, c, d})
      BY <3>1
    <3> QED
      BY <3>2
  <2>3. CASE \E a, b, c, d, e, f, g, h : item = <<a, b, c, d, e, f, g, h>>
    <3>1. PICK a, b, c, d, e, f, g, h : item = <<a, b, c, d, e, f, g, h>>
      BY <2>3
    <3>2. item \in Seq({a, b, c, d, e, f, g, h})
      BY <3>1
    <3> QED
      BY <3>2
  <2> QED
    BY <2>1, <2>2, <2>3
<1>3. PICK dot : dot = <<".", "/">>
  OBVIOUS
<1>4. dot \in Seq({".", "/"}) /\ dot # <<>> /\ dot[1] = "."
  BY <1>3
<1>5. CASE IsPrefix(dot, path)
  BY <1>1, <1>2, <1>4, <1>5, PrefixesStartAlike
<1>6. CASE ~IsPrefix(dot, path)
  BY <1>3, <1>6 DEF PathIsDenied, IsUnder
<1> QED
  BY <1>5, <1>6

InScope(patch) ==
  \A file \in patch :
    /\ \E item \in Scope : IsPrefix(item, file)
    /\ ~\E item \in Prohibited : IsPrefix(item, file)
    /\ ~\E item \in DenyPrefixes : IsPrefix(item, file)

LEMMA OrderParts ==
  ASSUME NEW file
  PROVE  /\ Document(file).scope = Scope /\ Document(file).prohibited = Prohibited
         /\ Document(file).state = "READY" => file.ready
         /\ Document(file).tests = Checks
BY DEF Document

LEMMA Accepted ==
  ASSUME NEW decision, Succeeds(decision)
  PROVE  decision.accepted
BY DEF Succeeds, ExitCode

LEMMA ScopeIsChecked ==
  ASSUME Files \subseteq Seq(STRING), Scope # {}, NEW patch \in SUBSET Files,
         ScopeReasons(patch, Scope, Prohibited) = {}
  PROVE  InScope(patch)
<1> SUFFICES ASSUME NEW file \in patch
             PROVE  /\ \E item \in Scope : IsPrefix(item, file)
                    /\ ~\E item \in Prohibited : IsPrefix(item, file)
                    /\ ~\E item \in DenyPrefixes : IsPrefix(item, file)
  BY DEF InScope
<1>1. ~PathIsDenied(file)
  BY DEF ScopeReasons
<1>2. ~\E item \in Prohibited : IsPrefix(item, file)
  BY DEF ScopeReasons, IsUnder
<1>3. \E item \in Scope : IsPrefix(item, file)
  BY DEF ScopeReasons, IsUnder
<1>4. file \in Seq(STRING)
  OBVIOUS
<1> QED
  BY <1>1, <1>2, <1>3, <1>4, DeniedDespiteDot

LEMMA EnvelopeMeans ==
  ASSUME Files \subseteq Seq(STRING), Scope # {}, NEW run, run.patch \subseteq Files,
         EnvelopeHolds(run)
  PROVE  InScope(run.patch) /\ run.reported = run.patch
<1>1. ScopeReasons(run.patch, Scope, Prohibited) = {}
  <2>1. ValidateScope(run.patch, Scope, Prohibited).accepted
    BY OrderParts, Accepted DEF EnvelopeHolds, CommandScope
  <2> QED
    BY <2>1 DEF ValidateScope, Decision
<1>2. PICK order : order = Document(run.order)
  OBVIOUS
<1>3. ReportMatchesPatch(Report(run), run.patch)
  <2>1. PICK result : result = Report(run)
    OBVIOUS
  <2>2. ValidateManufacturingResult(result, order, run.patch, order.base, run.patch).accepted
    BY <1>2, <2>1, Accepted DEF EnvelopeHolds, CommandManufacturingResult
  <2> QED
    BY <2>1, <2>2 DEF ValidateManufacturingResult, Decision
<1>4. run.reported = run.patch
  BY <1>3 DEF ReportMatchesPatch, Report
<1> QED
  BY <1>1, <1>4, ScopeIsChecked

LEMMA OrderPasses ==
  ASSUME NEW order, NEW facts, Succeeds(CommandWorkOrder(order, facts)),
         facts.dedup = "first", NEW i \in PreconditionIds
  PROVE  Precondition(order, facts)[i]
<1>1. ValidateWorkOrder(order, facts).accepted
  BY Accepted DEF CommandWorkOrder
<1> QED
  BY <1>1 DEF ValidateWorkOrder, Decision

\* What the second look at a work order rules out.
LEMMA IdentityMeans ==
  ASSUME NEW run, Succeeds(IdentityDecision(run))
  PROVE  /\ run.commit = run.default /\ Scope # {}
         /\ main[run.commit].actor \in Organizers
         /\ run.order.ready /\ now < Document(run.order).expires
<1>1. PICK order, facts :
        /\ order = Document(run.order)
        /\ facts = Facts(main[run.commit].actor, run.default, run.commit, "first")
  OBVIOUS
<1>2. /\ facts.actor = main[run.commit].actor /\ facts.defaultSha = run.default
      /\ facts.workflowSha = run.commit /\ facts.now = now /\ facts.dedup = "first"
      /\ facts.organizers = Organizers
  BY <1>1 DEF Facts
<1>3. Succeeds(CommandWorkOrder(order, facts))
  BY <1>1 DEF IdentityDecision
<1>4. \A i \in PreconditionIds : Precondition(order, facts)[i]
  BY <1>2, <1>3, OrderPasses
<1>5. {2, 6, 10, 16, 18} \subseteq PreconditionIds
  BY DEF PreconditionIds
<1>6. /\ facts.actor \in facts.organizers /\ order.state = "READY" /\ order.expires > facts.now
      /\ order.scope # {} /\ facts.workflowSha = facts.defaultSha
  <2>1. facts.actor \in facts.organizers
    BY <1>4, <1>5 DEF Precondition
  <2>2. order.state = "READY"
    BY <1>4, <1>5 DEF Precondition
  <2>3. order.expires > facts.now
    BY <1>4, <1>5 DEF Precondition
  <2>4. order.scope # {}
    BY <1>4, <1>5 DEF Precondition
  <2>5. facts.workflowSha = facts.defaultSha
    BY <1>4, <1>5 DEF Precondition, WorkflowIsCurrent
  <2> QED
    BY <2>1, <2>2, <2>3, <2>4, <2>5
<1> QED
  BY <1>1, <1>2, <1>6, OrderParts

-----------------------------------------------------------------------------
\* The runs, by how far they have come.
Waits(run, at) ==
  \E c, k, o, d, n :
    run = [stage |-> at, default |-> d, checked |-> n, commit |-> c, contract |-> k, order |-> o]
Made(run, at) ==
  \E c, k, o, patch, created, reported :
    run = [stage |-> at, commit |-> c, contract |-> k, order |-> o,
           patch |-> patch, created |-> created, reported |-> reported]

OrderIsOfCommit(run) ==
  /\ run.commit \in 2 .. Len(main)
  /\ \E id \in ChangedBy(run.commit) : run.order = main[run.commit].orders[id]

\* What the validation of the work order has seen.
Admitted(run) ==
  /\ OrderIsOfCommit(run) /\ run.default = run.commit
  /\ main[run.commit].actor \in Organizers
  /\ run.order.ready /\ run.checked < Document(run.order).expires

\* What was made of a patch, and what both jobs have checked of it.
PatchHolds(run) == Scope # {} /\ run.patch \subseteq Files /\ run.patch \cap run.created = {}
Enveloped(run) == InScope(run.patch) /\ run.reported = run.patch

RunHolds(run) ==
  \/ run = NoRun
  \/ /\ Waits(run, "resolve")
     /\ run.contract.state = "qf:manufacturing" => OrderIsOfCommit(run)
  \/ Waits(run, "identity") /\ OrderIsOfCommit(run)
  \/ Waits(run, "prompt") /\ Scope # {} /\ Admitted(run)
  \/ Waits(run, "codex") /\ Scope # {}
  \/ Made(run, "seal") /\ PatchHolds(run)
  \/ Made(run, "verify") /\ PatchHolds(run) /\ Enveloped(run)
  \/ /\ \E at \in {"test", "publish", "open"} : Made(run, at)
     /\ PatchHolds(run) /\ Enveloped(run) /\ run.patch # {}

MainHolds ==
  /\ \E S : main \in Seq(S)
  /\ main # <<>>
  /\ \A c \in DOMAIN main : \E o, a : main[c] = [orders |-> o, actor |-> a]
  /\ contracts \subseteq 2 .. Len(main)
  /\ \A c \in 2 .. Len(main) :
       \A id \in ChangedBy(c) : main[c].orders[id].id = id

GroupHolds ==
  \E r, p : group = [running |-> r, pending |-> p] /\ RunHolds(r) /\ RunHolds(p)

BranchHolds(b) ==
  /\ \E o, patch, created, report, pr :
       b = [order |-> o, patch |-> patch, created |-> created, report |-> report, pr |-> pr]
  /\ b.patch # {} /\ InScope(b.patch)
  /\ b.report = b.patch /\ b.patch \cap b.created = {}

ManufactureHolds == MainHolds /\ GroupHolds /\ \A b \in branches : BranchHolds(b)

LEMMA ManufactureInit == Init => ManufactureHolds
<1> SUFFICES ASSUME Init PROVE ManufactureHolds
  OBVIOUS
<1>1. PICK commit : /\ main = <<commit>>
                    /\ commit = [orders |-> [id \in Ids |-> NoOrder], actor |-> "organizer"]
  BY DEF Init
<1>2. MainHolds
  <2>1. <<commit>> \in Seq({commit}) /\ <<commit>> # <<>> /\ Len(<<commit>>) = 1
    OBVIOUS
  <2>2. \A c \in DOMAIN <<commit>> : <<commit>>[c] = commit
    OBVIOUS
  <2>3. \E o, a : commit = [orders |-> o, actor |-> a]
    BY <1>1
  <2>4. 2 .. 1 = {} /\ contracts = {}
    BY DEF Init
  <2> QED
    BY <1>1, <2>1, <2>2, <2>3, <2>4 DEF MainHolds
<1>3. GroupHolds
  BY DEF Init, GroupHolds, RunHolds
<1>4. \A b \in branches : BranchHolds(b)
  BY DEF Init
<1> QED
  BY <1>2, <1>3, <1>4 DEF ManufactureHolds

\* Earlier commits stay.
LEMMA CommitsStay ==
  ASSUME MainHolds, NEW commit, main' = Append(main, commit)
  PROVE  /\ Len(main') = Len(main) + 1 /\ Len(main) \in Nat \ {0} /\ main'[Len(main) + 1] = commit
         /\ \A c \in 1 .. Len(main) : main'[c] = main[c]
         /\ \A c \in 2 .. Len(main) : ChangedBy(c)' = ChangedBy(c)
<1>1. PICK S : main \in Seq(S)
  BY DEF MainHolds
<1>2. /\ Len(main') = Len(main) + 1 /\ Len(main) \in Nat \ {0} /\ main'[Len(main) + 1] = commit
      /\ \A c \in 1 .. Len(main) : main'[c] = main[c]
  BY <1>1 DEF MainHolds
<1>3. \A c \in 2 .. Len(main) : main'[c] = main[c] /\ main'[c - 1] = main[c - 1]
  BY <1>2
<1> QED
  BY <1>2, <1>3 DEF ChangedBy

LEMMA RunsStay ==
  ASSUME MainHolds, NEW run, RunHolds(run), main' = main \/ \E commit : main' = Append(main, commit)
  PROVE  RunHolds(run)'
<1>1. OrderIsOfCommit(run) => OrderIsOfCommit(run)'
  <2>1. CASE main' = main
    BY <2>1 DEF OrderIsOfCommit, ChangedBy
  <2>2. CASE \E commit : main' = Append(main, commit)
    <3> SUFFICES ASSUME OrderIsOfCommit(run) PROVE OrderIsOfCommit(run)'
      OBVIOUS
    <3>1. PICK commit : main' = Append(main, commit)
      BY <2>2
    <3>2. PICK at, id : /\ at = run.commit /\ at \in 2 .. Len(main) /\ id \in ChangedBy(at)
                        /\ run.order = main[at].orders[id]
      BY DEF OrderIsOfCommit
    <3>3. /\ at \in 2 .. Len(main') /\ main'[at] = main[at] /\ ChangedBy(at)' = ChangedBy(at)
      BY <3>1, <3>2, CommitsStay
    <3> QED
      BY <3>2, <3>3 DEF OrderIsOfCommit
  <2> QED
    BY <2>1, <2>2
<1>2. ASSUME Admitted(run) PROVE Admitted(run)'
  <2>1. main'[run.commit] = main[run.commit]
    <3>1. run.commit \in 2 .. Len(main)
      BY <1>2 DEF Admitted, OrderIsOfCommit
    <3>2. ASSUME NEW commit, main' = Append(main, commit) PROVE main'[run.commit] = main[run.commit]
      <4>1. \A c \in 1 .. Len(main) : main'[c] = main[c]
        BY <3>2, CommitsStay
      <4>2. Len(main) \in Nat
        BY <3>2, CommitsStay
      <4> QED
        BY <3>1, <4>1, <4>2
    <3> QED
      BY <3>2
  <2> QED
    BY <1>1, <1>2, <2>1 DEF Admitted, Document
<1> QED
  BY <1>1, <1>2 DEF RunHolds, Waits, Made, PatchHolds, Enveloped, InScope

LEMMA GroupStays ==
  ASSUME MainHolds, GroupHolds, group' = group,
         main' = main \/ \E commit : main' = Append(main, commit)
  PROVE  GroupHolds'
BY RunsStay DEF GroupHolds

LEMMA GroupContinues ==
  ASSUME MainHolds, GroupHolds, main' = main, NEW run, RunHolds(run), Continue(run)
  PROVE  GroupHolds'
<1>1. PICK r, p : group = [running |-> r, pending |-> p] /\ RunHolds(p)
  BY DEF GroupHolds
<1>2. group' = [running |-> run, pending |-> p]
  BY <1>1 DEF Continue
<1>3. RunHolds(run)' /\ RunHolds(p)'
  BY <1>1, RunsStay
<1> QED
  BY <1>2, <1>3 DEF GroupHolds

LEMMA GroupMovesOn ==
  ASSUME MainHolds, GroupHolds, main' = main, EndRun
  PROVE  GroupHolds'
<1>1. PICK r, p : group = [running |-> r, pending |-> p] /\ RunHolds(p)
  BY DEF GroupHolds
<1>2. group' = [running |-> p, pending |-> NoRun]
  BY <1>1 DEF EndRun
<1>3. RunHolds(p)' /\ RunHolds(NoRun)'
  <2>1. RunHolds(NoRun)
    BY DEF RunHolds
  <2> QED
    BY <1>1, <2>1, RunsStay
<1> QED
  BY <1>2, <1>3 DEF GroupHolds

\* The run that runs, with its fields.
LEMMA RunningHolds ==
  ASSUME GroupHolds
  PROVE  RunHolds(group.running)
BY DEF GroupHolds

LEMMA StagesHold ==
  ASSUME NEW run, RunHolds(run), run # NoRun
  PROVE  /\ run.stage = "resolve" =>
              /\ Waits(run, "resolve")
              /\ run.contract.state = "qf:manufacturing" => OrderIsOfCommit(run)
         /\ run.stage = "identity" => Waits(run, "identity") /\ OrderIsOfCommit(run)
         /\ run.stage = "prompt" => Waits(run, "prompt") /\ Scope # {} /\ Admitted(run)
         /\ run.stage = "codex" => Waits(run, "codex") /\ Scope # {}
         /\ run.stage = "seal" => Made(run, "seal") /\ PatchHolds(run)
         /\ run.stage = "verify" => Made(run, "verify") /\ PatchHolds(run) /\ Enveloped(run)
         /\ run.stage \in {"test", "publish", "open"} =>
              Made(run, run.stage) /\ PatchHolds(run) /\ Enveloped(run) /\ run.patch # {}
<1>1. \A at : Waits(run, at) \/ Made(run, at) => run.stage = at
  BY DEF Waits, Made
<1> QED
  BY <1>1 DEF RunHolds

\* A made run in its next stage.
LEMMA NextStage ==
  ASSUME NEW run, NEW from, Made(run, from), NEW at, NEW next,
         next = [run EXCEPT !.stage = at]
  PROVE  /\ Made(next, at) /\ next.patch = run.patch /\ next.created = run.created
         /\ next.reported = run.reported
<1>1. PICK c, k, o, patch, created, reported :
        run = [stage |-> from, commit |-> c, contract |-> k, order |-> o,
               patch |-> patch, created |-> created, reported |-> reported]
  BY DEF Made
<1>2. next = [stage |-> at, commit |-> c, contract |-> k, order |-> o,
              patch |-> patch, created |-> created, reported |-> reported]
  BY <1>1
<1> QED
  BY <1>1, <1>2 DEF Made

LEMMA PushHolds ==
  ASSUME ManufactureHolds, NEW actor, NEW changes,
         PushOrders(actor, changes), \A id \in DOMAIN changes : changes[id].id = id
  PROVE  ManufactureHolds'
<1>1. PICK orders, commit :
        /\ orders = [id \in Ids |-> IF id \in DOMAIN changes THEN changes[id]
                                    ELSE main[Len(main)].orders[id]]
        /\ commit = [orders |-> orders, actor |-> actor] /\ main' = Append(main, commit)
  BY DEF PushOrders, Tip
<1>2. contracts' = contracts \cup {Len(main) + 1} /\ UNCHANGED <<group, branches>>
  BY DEF PushOrders, Tip
<1>3. MainHolds /\ GroupHolds
  BY DEF ManufactureHolds
<1>4. /\ Len(main') = Len(main) + 1 /\ Len(main) \in Nat \ {0} /\ main'[Len(main) + 1] = commit
      /\ \A c \in 1 .. Len(main) : main'[c] = main[c]
      /\ \A c \in 2 .. Len(main) : ChangedBy(c)' = ChangedBy(c)
  BY <1>1, <1>3, CommitsStay
<1>5. MainHolds'
  <2>1. \E S : main' \in Seq(S)
    <3>1. PICK S : main \in Seq(S)
      BY <1>3 DEF MainHolds
    <3>2. main \in Seq(S \cup {commit})
      BY <3>1
    <3>3. main' \in Seq(S \cup {commit})
      BY <1>1, <3>2
    <3> QED
      BY <3>3
  <2>2. DOMAIN main' = 1 .. Len(main) + 1 /\ DOMAIN main = 1 .. Len(main) /\ main' # <<>>
    BY <1>3, <1>4, <2>1 DEF MainHolds
  <2>3. \A c \in DOMAIN main' : \E o, a : main'[c] = [orders |-> o, actor |-> a]
    <3> SUFFICES ASSUME NEW c \in DOMAIN main' PROVE \E o, a : main'[c] = [orders |-> o, actor |-> a]
      OBVIOUS
    <3>1. CASE c = Len(main) + 1
      BY <1>1, <1>4, <3>1
    <3>2. CASE c \in DOMAIN main
      BY <1>3, <1>4, <2>2, <3>2 DEF MainHolds
    <3> QED
      BY <1>4, <2>2, <3>1, <3>2
  <2>4. contracts' \subseteq 2 .. Len(main')
    <3>1. \A c \in contracts : c \in 2 .. Len(main)
      BY <1>3 DEF MainHolds
    <3> QED
      BY <1>2, <1>4, <3>1
  <2>5. ASSUME NEW c \in 2 .. Len(main'), NEW id \in ChangedBy(c)'
        PROVE  main'[c].orders[id].id = id
    <3>1. CASE c = Len(main) + 1
      <4>1. id \in Ids /\ main'[c].orders[id] # main'[c - 1].orders[id]
        BY DEF ChangedBy
      <4>2. main'[c].orders = orders /\ main'[c - 1] = main[Len(main)]
        BY <1>1, <1>4, <3>1
      <4>3. id \in DOMAIN changes /\ orders[id] = changes[id]
        BY <1>1, <4>1, <4>2
      <4> QED
        BY <4>2, <4>3
    <3>2. CASE c \in 2 .. Len(main)
      BY <1>3, <1>4, <3>2 DEF MainHolds
    <3> QED
      BY <1>4, <3>1, <3>2
  <2> QED
    BY <2>1, <2>2, <2>3, <2>4, <2>5 DEF MainHolds
<1>6. GroupHolds'
  BY <1>1, <1>2, <1>3, GroupStays
<1> QED
  BY <1>2, <1>5, <1>6 DEF ManufactureHolds, BranchHolds, InScope

LEMMA OtherPushHolds ==
  ASSUME ManufactureHolds, NEW actor, PushOther(actor)
  PROVE  ManufactureHolds'
<1>1. PICK commit :
        /\ commit = [main[Len(main)] EXCEPT !.actor = actor] /\ main' = Append(main, commit)
        /\ UNCHANGED <<contracts, group, branches>>
  BY DEF PushOther, Tip
<1>2. MainHolds /\ GroupHolds
  BY DEF ManufactureHolds
<1>3. /\ Len(main') = Len(main) + 1 /\ Len(main) \in Nat \ {0} /\ main'[Len(main) + 1] = commit
      /\ \A c \in 1 .. Len(main) : main'[c] = main[c]
      /\ \A c \in 2 .. Len(main) : ChangedBy(c)' = ChangedBy(c)
  BY <1>1, <1>2, CommitsStay
<1>4. PICK o : commit = [orders |-> o, actor |-> actor] /\ o = main[Len(main)].orders
  <2>1. Len(main) \in DOMAIN main
    BY <1>2, <1>3 DEF MainHolds
  <2>2. PICK o, a : main[Len(main)] = [orders |-> o, actor |-> a]
    BY <1>2, <2>1 DEF MainHolds
  <2>3. commit = [orders |-> o, actor |-> actor]
    BY <1>1, <2>2
  <2> QED
    BY <2>2, <2>3
<1>5. MainHolds'
  <2>1. \E S : main' \in Seq(S)
    <3>1. PICK S : main \in Seq(S)
      BY <1>2 DEF MainHolds
    <3>2. main \in Seq(S \cup {commit})
      BY <3>1
    <3>3. main' \in Seq(S \cup {commit})
      BY <1>1, <3>2
    <3> QED
      BY <3>3
  <2>2. DOMAIN main' = 1 .. Len(main) + 1 /\ DOMAIN main = 1 .. Len(main) /\ main' # <<>>
    BY <1>2, <1>3, <2>1 DEF MainHolds
  <2>3. \A c \in DOMAIN main' : \E d, a : main'[c] = [orders |-> d, actor |-> a]
    <3> SUFFICES ASSUME NEW c \in DOMAIN main' PROVE \E d, a : main'[c] = [orders |-> d, actor |-> a]
      OBVIOUS
    <3>1. CASE c = Len(main) + 1
      BY <1>3, <1>4, <3>1
    <3>2. CASE c \in DOMAIN main
      BY <1>2, <1>3, <2>2, <3>2 DEF MainHolds
    <3> QED
      BY <1>3, <2>2, <3>1, <3>2
  <2>4. contracts' \subseteq 2 .. Len(main')
    BY <1>1, <1>2, <1>3 DEF MainHolds
  <2>5. ASSUME NEW c \in 2 .. Len(main'), NEW id \in ChangedBy(c)'
        PROVE  main'[c].orders[id].id = id
    <3>1. c # Len(main) + 1
      <4>1. main'[c].orders[id] # main'[c - 1].orders[id]
        BY DEF ChangedBy
      <4>2. commit.orders = o
        BY <1>4
      <4> QED
        BY <1>3, <1>4, <4>1, <4>2
    <3>2. c \in 2 .. Len(main)
      BY <1>3, <3>1
    <3> QED
      BY <1>2, <1>3, <3>2 DEF MainHolds
  <2> QED
    BY <2>1, <2>2, <2>3, <2>4, <2>5 DEF MainHolds
<1>6. GroupHolds'
  BY <1>1, <1>2, GroupStays
<1> QED
  BY <1>1, <1>5, <1>6 DEF ManufactureHolds, BranchHolds, InScope

\* A contract run that ends.
LEMMA RequestHolds ==
  ASSUME MainHolds, NEW commit \in contracts
  PROVE  RunHolds(Requested(commit, ContractDecision(commit)))
<1>1. PICK decision, run : /\ decision = ContractDecision(commit)
                           /\ run = Requested(commit, decision)
  OBVIOUS
<1>2. PICK order :
        /\ order = IF Succeeds(decision) THEN main[commit].orders[OnlyChange(commit)] ELSE NoOrder
        /\ run = [stage |-> "resolve", default |-> 0, checked |-> 0,
                  commit |-> commit, contract |-> decision, order |-> order]
  BY <1>1 DEF Requested
<1>3. ASSUME decision.state = "qf:manufacturing"
      PROVE  ChangedBy(commit) # {} /\ Succeeds(decision)
  <2>1. Cardinality(ChangedBy(commit)) = 1
    BY <1>1, <1>3 DEF ContractDecision, Raised, Decision
  <2>2. PICK doc, facts : decision = CommandWorkOrder(doc, facts)
    BY <1>1, <2>1 DEF ContractDecision
  <2>3. decision.accepted
    BY <1>3, <2>2 DEF CommandWorkOrder, ValidateWorkOrder, Decision
  <2> QED
    BY <2>1, <2>3, ChangeIsSingle DEF Succeeds, ExitCode
<1>4. ASSUME decision.state = "qf:manufacturing" PROVE OrderIsOfCommit(run)
  <2>1. OnlyChange(commit) \in ChangedBy(commit)
    BY <1>3, <1>4 DEF OnlyChange
  <2>2. run.order = main[commit].orders[OnlyChange(commit)] /\ run.commit = commit
    BY <1>2, <1>3, <1>4
  <2>3. commit \in 2 .. Len(main)
    BY DEF MainHolds
  <2> QED
    BY <2>1, <2>2, <2>3 DEF OrderIsOfCommit
<1>5. run.contract = decision /\ Waits(run, "resolve")
  BY <1>2 DEF Waits
<1>6. run.contract.state = "qf:manufacturing" => OrderIsOfCommit(run)
  BY <1>4, <1>5
<1> QED
  BY <1>1, <1>5, <1>6 DEF RunHolds

LEMMA ContractHolds ==
  ASSUME ManufactureHolds, NEW commit, RunContract(commit)
  PROVE  ManufactureHolds'
<1>1. /\ commit \in contracts /\ contracts' = contracts \ {commit} /\ UNCHANGED <<main, branches>>
      /\ MainHolds /\ GroupHolds
  BY DEF RunContract, ManufactureHolds
<1>2. PICK run : RunHolds(run) /\ Enqueue(run)
  BY <1>1, RequestHolds DEF RunContract
<1>3. PICK r, p : group = [running |-> r, pending |-> p] /\ RunHolds(r) /\ RunHolds(p)
  BY <1>1 DEF GroupHolds
<1>4. group' = [running |-> run, pending |-> p] \/ group' = [running |-> r, pending |-> run]
  BY <1>2, <1>3 DEF Enqueue
<1>5. RunHolds(run)' /\ RunHolds(r)' /\ RunHolds(p)'
  BY <1>1, <1>2, <1>3, RunsStay
<1>6. GroupHolds'
  BY <1>4, <1>5 DEF GroupHolds
<1>7. MainHolds'
  BY <1>1 DEF MainHolds, ChangedBy
<1> QED
  BY <1>1, <1>6, <1>7 DEF ManufactureHolds, BranchHolds, InScope

\* Steps of a run that leave main and the branches alone.
LEMMA GroupStepHolds ==
  ASSUME ManufactureHolds, UNCHANGED <<main, contracts, branches>>, GroupHolds'
  PROVE  ManufactureHolds'
<1>1. MainHolds'
  BY DEF ManufactureHolds, MainHolds, ChangedBy
<1> QED
  BY <1>1 DEF ManufactureHolds, BranchHolds, InScope

LEMMA EndHolds ==
  ASSUME ManufactureHolds, EndRun, UNCHANGED <<main, contracts, branches>>
  PROVE  ManufactureHolds'
<1>1. GroupHolds'
  BY GroupMovesOn DEF ManufactureHolds
<1> QED
  BY <1>1, GroupStepHolds

LEMMA ResolveHolds ==
  ASSUME ManufactureHolds, ResolveTip
  PROVE  ManufactureHolds'
<1>1. PICK run, next :
        /\ run = group.running /\ next = [run EXCEPT !.stage = "identity", !.default = Tip]
        /\ run # NoRun /\ run.stage = "resolve" /\ run.contract.state = "qf:manufacturing"
        /\ Continue(next)
        /\ UNCHANGED <<main, contracts, branches>>
  BY DEF ResolveTip, At
<1>2. Waits(run, "resolve") /\ OrderIsOfCommit(run)
  BY <1>1, RunningHolds, StagesHold DEF ManufactureHolds
<1>3. PICK c, k, o, d, n :
        run = [stage |-> "resolve", default |-> d, checked |-> n, commit |-> c,
               contract |-> k, order |-> o]
  BY <1>2 DEF Waits
<1>4. next = [stage |-> "identity", default |-> Tip, checked |-> n, commit |-> c,
              contract |-> k, order |-> o]
  <2>1. next = [run EXCEPT !.stage = "identity", !.default = Tip]
    BY <1>1
  <2> QED
    BY ONLY <1>3, <2>1
<1>5. next.commit = run.commit /\ next.order = run.order
  BY <1>3, <1>4
<1>6. Waits(next, "identity") /\ OrderIsOfCommit(next)
  BY <1>2, <1>4, <1>5 DEF Waits, OrderIsOfCommit
<1>7. GroupHolds'
  BY <1>1, <1>6, GroupContinues DEF ManufactureHolds, RunHolds
<1> QED
  BY <1>1, <1>7, GroupStepHolds

LEMMA ValidateHolds ==
  ASSUME ManufactureHolds, ValidateIdentity
  PROVE  ManufactureHolds'
<1>1. PICK run, next :
        /\ run = group.running /\ next = [run EXCEPT !.stage = "prompt", !.checked = now]
        /\ run # NoRun /\ run.stage = "identity"
        /\ Succeeds(IdentityDecision(run)) /\ Continue(next)
        /\ UNCHANGED <<main, contracts, branches>>
  BY DEF ValidateIdentity, At
<1>2. Waits(run, "identity") /\ OrderIsOfCommit(run)
  BY <1>1, RunningHolds, StagesHold DEF ManufactureHolds
<1>3. PICK c, k, o, d, n :
        run = [stage |-> "identity", default |-> d, checked |-> n, commit |-> c,
               contract |-> k, order |-> o]
  BY <1>2 DEF Waits
<1>4. next = [stage |-> "prompt", default |-> d, checked |-> now, commit |-> c,
              contract |-> k, order |-> o]
  <2>1. next = [run EXCEPT !.stage = "prompt", !.checked = now]
    BY <1>1
  <2> QED
    BY ONLY <1>3, <2>1
<1>5. /\ next.commit = run.commit /\ next.order = run.order /\ next.default = run.default
      /\ next.checked = now
  BY <1>3, <1>4
<1>6. /\ run.commit = run.default /\ Scope # {} /\ main[run.commit].actor \in Organizers
      /\ run.order.ready /\ now < Document(run.order).expires
  BY <1>1, IdentityMeans
<1>7. Waits(next, "prompt") /\ Admitted(next)
  BY <1>2, <1>4, <1>5, <1>6 DEF Waits, OrderIsOfCommit, Admitted
<1>8. GroupHolds'
  BY <1>1, <1>6, <1>7, GroupContinues DEF ManufactureHolds, RunHolds
<1> QED
  BY <1>1, <1>8, GroupStepHolds

LEMMA StartHolds ==
  ASSUME ManufactureHolds, StartManufacturer
  PROVE  ManufactureHolds'
<1>1. PICK run, next :
        /\ run = group.running /\ next = [run EXCEPT !.stage = "codex"]
        /\ run # NoRun /\ run.stage = "prompt" /\ Continue(next)
        /\ UNCHANGED <<main, contracts, branches>>
  BY DEF StartManufacturer, At
<1>2. Waits(run, "prompt") /\ Scope # {}
  BY <1>1, RunningHolds, StagesHold DEF ManufactureHolds
<1>3. Waits(next, "codex")
  BY <1>1, <1>2 DEF Waits
<1>4. GroupHolds'
  BY <1>1, <1>2, <1>3, GroupContinues DEF ManufactureHolds, RunHolds
<1> QED
  BY <1>1, <1>4, GroupStepHolds

LEMMA MakeHolds ==
  ASSUME ManufactureHolds, NEW edited \in SUBSET Files, NEW created, NEW reported,
         edited \cap created = {}, Manufacture(edited, created, reported)
  PROVE  ManufactureHolds'
<1>1. PICK run, next :
        /\ run = group.running
        /\ next = [stage |-> "seal", commit |-> run.commit, contract |-> run.contract,
                   order |-> run.order, patch |-> edited, created |-> created,
                   reported |-> reported]
        /\ run # NoRun /\ run.stage = "codex" /\ Continue(next)
        /\ UNCHANGED <<main, contracts, branches>>
  BY DEF Manufacture, At
<1>2. Scope # {}
  BY <1>1, RunningHolds, StagesHold DEF ManufactureHolds
<1>3. Made(next, "seal") /\ next.patch = edited /\ next.created = created
  BY <1>1 DEF Made
<1>4. RunHolds(next)
  BY <1>2, <1>3 DEF RunHolds, PatchHolds
<1>5. GroupHolds'
  BY <1>1, <1>4, GroupContinues DEF ManufactureHolds
<1> QED
  BY <1>1, <1>5, GroupStepHolds

LEMMA AdvanceHolds ==
  ASSUME Files \subseteq Seq(STRING), ManufactureHolds, Advance
  PROVE  ManufactureHolds'
<1>1. PICK run, next :
        /\ run = group.running /\ next = [run EXCEPT !.stage = FollowingStage(run.stage)]
        /\ run # NoRun /\ Advances(run) /\ Continue(next)
        /\ UNCHANGED <<main, contracts, branches>>
  BY DEF Advance
<1>2. RunHolds(run)
  BY <1>1, RunningHolds DEF ManufactureHolds
<1>3. ASSUME run.stage = "seal" PROVE RunHolds(next)
  <2>1. Made(run, "seal") /\ PatchHolds(run) /\ EnvelopeHolds(run)
    BY <1>1, <1>2, <1>3, StagesHold DEF Advances
  <2>2. FollowingStage(run.stage) = "verify"
    BY <1>3 DEF FollowingStage
  <2>3. Made(next, "verify") /\ PatchHolds(next) /\ Enveloped(next)
    BY <1>1, <2>1, <2>2, NextStage, EnvelopeMeans DEF PatchHolds, Enveloped
  <2> QED
    BY <2>3 DEF RunHolds
<1>4. ASSUME run.stage = "verify" PROVE RunHolds(next)
  <2>1. Made(run, "verify") /\ PatchHolds(run) /\ Enveloped(run) /\ run.patch # {}
    BY <1>1, <1>2, <1>4, StagesHold DEF Advances
  <2>2. FollowingStage(run.stage) = "test"
    BY <1>4 DEF FollowingStage
  <2>3. Made(next, "test") /\ PatchHolds(next) /\ Enveloped(next) /\ next.patch # {}
    BY <1>1, <2>1, <2>2, NextStage DEF PatchHolds, Enveloped
  <2> QED
    BY <2>3 DEF RunHolds
<1>5. ASSUME run.stage = "test" PROVE RunHolds(next)
  <2>1. Made(run, "test") /\ PatchHolds(run) /\ Enveloped(run) /\ run.patch # {}
    BY <1>1, <1>2, <1>5, StagesHold
  <2>2. FollowingStage(run.stage) = "publish"
    BY <1>5 DEF FollowingStage
  <2>3. Made(next, "publish") /\ PatchHolds(next) /\ Enveloped(next) /\ next.patch # {}
    BY <1>1, <2>1, <2>2, NextStage DEF PatchHolds, Enveloped
  <2> QED
    BY <2>3 DEF RunHolds
<1>6. RunHolds(next)
  <2>1. run.stage \in {"seal", "verify", "test"}
    BY <1>1 DEF Advances
  <2> QED
    BY <1>3, <1>4, <1>5, <2>1
<1>7. GroupHolds'
  BY <1>1, <1>6, GroupContinues DEF ManufactureHolds
<1> QED
  BY <1>1, <1>7, GroupStepHolds

LEMMA BranchPushHolds ==
  ASSUME ManufactureHolds, PushBranch
  PROVE  ManufactureHolds'
<1>1. PICK run, next, pushed :
        /\ run = group.running /\ next = [run EXCEPT !.stage = "open"]
        /\ pushed = [order |-> run.order, patch |-> run.patch, created |-> run.created,
                     report |-> run.reported, pr |-> FALSE]
        /\ run # NoRun /\ run.stage = "publish" /\ Continue(next)
        /\ branches' = branches \cup {pushed} /\ UNCHANGED <<main, contracts>>
  BY DEF PushBranch, At, BranchOf
<1>2. Made(run, "publish") /\ PatchHolds(run) /\ Enveloped(run) /\ run.patch # {}
  BY <1>1, RunningHolds, StagesHold DEF ManufactureHolds
<1>3. Made(next, "open") /\ PatchHolds(next) /\ Enveloped(next) /\ next.patch # {}
  BY <1>1, <1>2, NextStage DEF PatchHolds, Enveloped
<1>4. GroupHolds'
  <2>1. RunHolds(next)
    BY <1>3 DEF RunHolds
  <2> QED
    BY <1>1, <2>1, GroupContinues DEF ManufactureHolds
<1>5. BranchHolds(pushed)
  BY <1>1, <1>2 DEF BranchHolds, PatchHolds, Enveloped
<1>6. MainHolds'
  BY <1>1 DEF ManufactureHolds, MainHolds, ChangedBy
<1> QED
  BY <1>1, <1>4, <1>5, <1>6 DEF ManufactureHolds, BranchHolds, InScope

LEMMA OpenHolds ==
  ASSUME ManufactureHolds, OpenPullRequest
  PROVE  ManufactureHolds'
<1>1. /\ branches' = {IF SameName(b, group.running) THEN [b EXCEPT !.pr = TRUE] ELSE b : b \in branches}
      /\ EndRun /\ UNCHANGED <<main, contracts>>
  BY DEF OpenPullRequest
<1>2. ASSUME NEW b \in branches' PROVE BranchHolds(b)
  <2>1. PICK a \in branches : b = a \/ b = [a EXCEPT !.pr = TRUE]
    BY <1>1
  <2>2. BranchHolds(a)
    BY DEF ManufactureHolds
  <2>3. CASE b = [a EXCEPT !.pr = TRUE]
    <3>1. PICK o, patch, created, report, pr :
            a = [order |-> o, patch |-> patch, created |-> created, report |-> report, pr |-> pr]
      BY <2>2 DEF BranchHolds
    <3>2. b = [order |-> o, patch |-> patch, created |-> created, report |-> report, pr |-> TRUE]
      BY <2>3, <3>1
    <3>3. b.patch = a.patch /\ b.created = a.created /\ b.report = a.report
      BY <3>1, <3>2
    <3> QED
      BY <2>2, <3>2, <3>3 DEF BranchHolds
  <2> QED
    BY <2>1, <2>2, <2>3
<1>3. GroupHolds'
  BY <1>1, GroupMovesOn DEF ManufactureHolds
<1>4. MainHolds'
  BY <1>1 DEF ManufactureHolds, MainHolds, ChangedBy
<1> QED
  BY <1>2, <1>3, <1>4 DEF ManufactureHolds, BranchHolds, InScope

LEMMA ManufactureStepsHold ==
  ASSUME Files \subseteq Seq(STRING), ManufactureHolds, [Next]_vars
  PROVE  ManufactureHolds'
<1>1. CASE UNCHANGED vars
  <2>1. UNCHANGED <<main, contracts, group, branches>>
    BY <1>1 DEF vars
  <2>2. GroupHolds'
    BY <2>1, GroupStays DEF ManufactureHolds
  <2> QED
    BY <2>1, <2>2, GroupStepHolds
<1>2. ASSUME NEW actor, PushOther(actor) PROVE ManufactureHolds'
  BY <1>2, OtherPushHolds
<1>3. ASSUME NEW actor, NEW changes, PushOrders(actor, changes),
             \A id \in DOMAIN changes : changes[id].id = id
      PROVE  ManufactureHolds'
  BY <1>3, PushHolds
<1>4. CASE Expire
  <2>1. UNCHANGED <<main, contracts, group, branches>>
    BY <1>4 DEF Expire
  <2>2. GroupHolds'
    BY <2>1, GroupStays DEF ManufactureHolds
  <2> QED
    BY <2>1, <2>2, GroupStepHolds
<1>5. ASSUME NEW commit, RunContract(commit) PROVE ManufactureHolds'
  BY <1>5, ContractHolds
<1>6. CASE SkipRun \/ RefuseIdentity \/ RunFails
  <2>1. EndRun /\ UNCHANGED <<main, contracts, branches>>
    BY <1>6 DEF SkipRun, RefuseIdentity, RunFails
  <2> QED
    BY <2>1, EndHolds
<1>7. ASSUME NEW edited \in SUBSET Files, NEW created, NEW reported, edited \cap created = {},
             Manufacture(edited, created, reported)
      PROVE  ManufactureHolds'
  BY <1>7, MakeHolds
<1>8. RunStep => ManufactureHolds'
  BY <1>6, <1>7, ResolveHolds, ValidateHolds, StartHolds, AdvanceHolds, BranchPushHolds, OpenHolds DEF RunStep
<1> QED
  BY <1>1, <1>2, <1>3, <1>4, <1>5, <1>6, <1>8 DEF Next

LEMMA ManufactureInvariant ==
  ASSUME Files \subseteq Seq(STRING)
  PROVE  Spec => []ManufactureHolds
<1>1. Init => ManufactureHolds
  BY ManufactureInit
<1>2. ManufactureHolds /\ [Next]_vars => ManufactureHolds'
  BY ManufactureStepsHold
<1> QED
  BY <1>1, <1>2, PTL DEF Spec

\* Manufacture!PublishedIsInScope, whatever the manufacturer edits, creates
\* and reports and however many pushes and runs there are: no path of a
\* published patch leaves the scope of the work order or touches what the
\* order or the control plane prohibits.
THEOREM PatchesStayInScope ==
  ASSUME Files \subseteq Seq(STRING)
  PROVE  Spec => []PublishedIsInScope
<1>1. ManufactureHolds => PublishedIsInScope
  BY DEF ManufactureHolds, BranchHolds, InScope, PublishedIsInScope
<1> QED
  BY <1>1, ManufactureInvariant, PTL

\* Manufacture!HonestWorkIsWhole: the validation of the report compares it
\* with the patch, so that a truthful report of a created file stops the run.
THEOREM HonestWorkIsPublishedWhole ==
  ASSUME Files \subseteq Seq(STRING)
  PROVE  Spec => []HonestWorkIsWhole
<1>1. ManufactureHolds => HonestWorkIsWhole
  BY DEF ManufactureHolds, BranchHolds, HonestWorkIsWhole
<1> QED
  BY <1>1, ManufactureInvariant, PTL

\* The manufacturers that started did so on a main that a run which is about
\* to be validated, or to start its own, has seen.
StartsPrecede ==
  /\ \A s \in started : s.tip \in Nat /\ s.tip <= Len(main)
  /\ group.pending.stage \in {"none", "resolve"}
  /\ group.running.stage \in {"identity", "prompt"} =>
       \A s \in started : s.tip <= group.running.default

\* The runs of the group by name.
LEMMA GroupParts ==
  ASSUME GroupHolds
  PROVE  /\ \A run : Continue(run) =>
              group'.running = run /\ group'.pending = group.pending
         /\ EndRun => group'.running = group.pending /\ group'.pending = NoRun
         /\ \A run : Enqueue(run) =>
              \/ group'.running = run /\ group'.pending = group.pending
              \/ group'.running = group.running /\ group'.pending = run
BY DEF GroupHolds, Continue, EndRun, Enqueue

LEMMA StartsPrecedeNext ==
  ASSUME ManufactureHolds, StartsPrecede, [Next]_vars
  PROVE  StartsPrecede'
<1>1. MainHolds /\ GroupHolds
  BY DEF ManufactureHolds
<1>2. Len(main) \in Nat
  BY <1>1 DEF MainHolds
<1>3. ASSUME UNCHANGED <<started, group>>, UNCHANGED main \/ \E commit : main' = Append(main, commit)
      PROVE  StartsPrecede'
  <2>1. Len(main') \in Nat /\ Len(main') >= Len(main)
    BY <1>1, <1>2, <1>3, CommitsStay
  <2> QED
    BY <1>2, <1>3, <2>1 DEF StartsPrecede
<1>4. ASSUME NEW actor, PushOther(actor) PROVE StartsPrecede'
  BY <1>3, <1>4 DEF PushOther
<1>5. ASSUME NEW actor, NEW changes, PushOrders(actor, changes) PROVE StartsPrecede'
  BY <1>3, <1>5 DEF PushOrders
<1>6. CASE Expire \/ UNCHANGED vars
  BY <1>3, <1>6 DEF Expire, vars
\* A step of the running run that leaves its own check behind, or has it ahead.
<1>7. ASSUME UNCHANGED <<main, started>>,
             group'.pending.stage \in {"none", "resolve"},
             group'.running.stage \notin {"identity", "prompt"}
      PROVE  StartsPrecede'
  BY <1>7 DEF StartsPrecede
<1>8. ASSUME NEW commit, RunContract(commit) PROVE StartsPrecede'
  <2>1. PICK run : run = Requested(commit, ContractDecision(commit)) /\ Enqueue(run)
    BY <1>8 DEF RunContract
  <2>2. run.stage = "resolve"
    BY <2>1 DEF Requested
  <2>3. CASE group'.running = run /\ group'.pending = group.pending
    BY <1>7, <1>8, <2>2, <2>3 DEF RunContract, StartsPrecede
  <2>4. CASE group'.running = group.running /\ group'.pending = run
    BY <1>8, <2>2, <2>4 DEF RunContract, StartsPrecede
  <2> QED
    BY <1>1, <2>1, <2>3, <2>4, GroupParts
<1>9. CASE SkipRun \/ RefuseIdentity \/ RunFails \/ OpenPullRequest
  <2>1. EndRun /\ UNCHANGED <<main, started>>
    BY <1>9 DEF SkipRun, RefuseIdentity, RunFails, OpenPullRequest
  <2>2. group'.running = group.pending /\ group'.pending = NoRun
    BY <1>1, <2>1, GroupParts
  <2> QED
    BY <1>7, <2>1, <2>2 DEF StartsPrecede, NoRun
<1>10. CASE ResolveTip
  <2>1. PICK run, next :
          /\ run = group.running /\ next = [run EXCEPT !.stage = "identity", !.default = Tip]
          /\ run # NoRun /\ run.stage = "resolve" /\ Continue(next)
          /\ UNCHANGED <<main, started>>
    BY <1>10 DEF ResolveTip, At
  <2>2. PICK c, k, o, d, n :
          run = [stage |-> "resolve", default |-> d, checked |-> n, commit |-> c,
                 contract |-> k, order |-> o]
    <3>1. Waits(run, "resolve")
      BY <1>1, <2>1, RunningHolds, StagesHold
    <3> QED
      BY <3>1 DEF Waits
  <2>3. next.default = Len(main)
    BY <2>1, <2>2 DEF Tip
  <2>4. group'.running = next /\ group'.pending = group.pending
    BY <1>1, <2>1, GroupParts
  <2> QED
    BY <2>1, <2>3, <2>4 DEF StartsPrecede
<1>11. CASE ValidateIdentity
  <2>1. PICK run, next :
          /\ run = group.running /\ next = [run EXCEPT !.stage = "prompt", !.checked = now]
          /\ run # NoRun /\ run.stage = "identity" /\ Continue(next)
          /\ UNCHANGED <<main, started>>
    BY <1>11 DEF ValidateIdentity, At
  <2>2. PICK c, k, o, d, n :
          run = [stage |-> "identity", default |-> d, checked |-> n, commit |-> c,
                 contract |-> k, order |-> o]
    <3>1. Waits(run, "identity")
      BY <1>1, <2>1, RunningHolds, StagesHold
    <3> QED
      BY <3>1 DEF Waits
  <2>3. next.default = run.default
    BY <2>1, <2>2
  <2>4. group'.running = next /\ group'.pending = group.pending
    BY <1>1, <2>1, GroupParts
  <2> QED
    BY <2>1, <2>3, <2>4 DEF StartsPrecede
<1>12. CASE StartManufacturer
  <2>1. PICK run, next :
          /\ run = group.running /\ next = [run EXCEPT !.stage = "codex"]
          /\ run # NoRun /\ run.stage = "prompt" /\ Continue(next) /\ UNCHANGED main
          /\ started' = started \cup {[run |-> run, tip |-> Len(main)]}
    BY <1>12 DEF StartManufacturer, At, Tip
  <2>2. PICK c, k, o, d, n :
          run = [stage |-> "prompt", default |-> d, checked |-> n, commit |-> c,
                 contract |-> k, order |-> o]
    <3>1. Waits(run, "prompt")
      BY <1>1, <2>1, RunningHolds, StagesHold
    <3> QED
      BY <3>1 DEF Waits
  <2>3. next.stage = "codex"
    BY <2>1, <2>2
  <2>4. group'.running = next /\ group'.pending = group.pending
    BY <1>1, <2>1, GroupParts
  <2>5. \A s \in started' : s \in started \/ s.tip = Len(main)
    BY <2>1
  <2> QED
    BY <1>2, <2>1, <2>3, <2>4, <2>5 DEF StartsPrecede
<1>13. ASSUME NEW edited, NEW created, NEW reported, Manufacture(edited, created, reported)
       PROVE  StartsPrecede'
  <2>1. PICK next : next.stage = "seal" /\ Continue(next) /\ UNCHANGED <<main, started>>
    BY <1>13 DEF Manufacture
  <2>2. group'.running = next /\ group'.pending = group.pending
    BY <1>1, <2>1, GroupParts
  <2> QED
    BY <1>7, <2>1, <2>2 DEF StartsPrecede
<1>14. CASE Advance \/ PushBranch
  <2>1. PICK run, next, from, at :
          /\ run = group.running /\ next = [run EXCEPT !.stage = at] /\ run.stage = from
          /\ from \in {"seal", "verify", "test", "publish"}
          /\ at \in {"verify", "test", "publish", "open"}
          /\ run # NoRun /\ Continue(next) /\ UNCHANGED <<main, started>>
    <3>1. CASE PushBranch
      BY <3>1 DEF PushBranch, At
    <3>2. CASE Advance
      <4>1. PICK run : run = group.running /\ run # NoRun /\ Advances(run)
                       /\ Continue([run EXCEPT !.stage = FollowingStage(run.stage)])
                       /\ UNCHANGED <<main, started>>
        BY <3>2 DEF Advance
      <4>2. run.stage \in {"seal", "verify", "test"}
        BY <4>1 DEF Advances
      <4>3. FollowingStage(run.stage) \in {"verify", "test", "publish"}
        BY <4>2 DEF FollowingStage
      <4> QED
        BY <4>1, <4>2, <4>3
    <3> QED
      BY <1>14, <3>1, <3>2
  <2>2. Made(run, from)
    BY <1>1, <2>1, RunningHolds, StagesHold
  <2>3. next.stage = at
    BY <2>1, <2>2 DEF Made
  <2>4. group'.running = next /\ group'.pending = group.pending
    BY <1>1, <2>1, GroupParts
  <2> QED
    BY <1>7, <2>1, <2>3, <2>4 DEF StartsPrecede
<1> QED
  BY <1>4, <1>5, <1>6, <1>8, <1>9, <1>10, <1>11, <1>12, <1>13, <1>14 DEF Next, RunStep

\* Manufacture!StartsAreCurrent: however long a run waited in the group, its
\* manufacturer starts on an order that main had, READY, unexpired and pushed
\* by an organizer, when the run looked after the wait: after every
\* manufacturer that ran before it was started.
THEOREM ManufacturersStartOnCheckedOrders ==
  ASSUME Files \subseteq Seq(STRING)
  PROVE  Spec => StartsAreCurrent
<1> DEFINE Current(s) ==
      LET order == s.run.order
      IN /\ main[s.run.default].orders[order.id] = order
         /\ main[s.run.commit].actor \in Organizers
         /\ order.ready /\ s.run.checked < Document(order).expires
         /\ \A earlier \in started : earlier.tip <= s.run.default
<1>1. ASSUME ManufactureHolds, StartsPrecede, StartManufacturer, NEW s \in started' \ started
      PROVE  Current(s)
  <2>1. PICK run : /\ run = group.running /\ s = [run |-> run, tip |-> Tip]
                   /\ run # NoRun /\ run.stage = "prompt"
    BY <1>1 DEF StartManufacturer, At
  <2>2. Admitted(run)
    BY <1>1, <2>1, RunningHolds, StagesHold DEF ManufactureHolds
  <2>3. PICK id : /\ id \in ChangedBy(run.commit) /\ run.order = main[run.commit].orders[id]
                  /\ run.commit \in 2 .. Len(main)
    BY <2>2 DEF Admitted, OrderIsOfCommit
  <2>4. run.order.id = id
    BY <1>1, <2>3 DEF ManufactureHolds, MainHolds
  <2>5. \A earlier \in started : earlier.tip <= run.default
    BY <1>1, <2>1 DEF StartsPrecede
  <2> QED
    BY <2>1, <2>2, <2>3, <2>4, <2>5 DEF Admitted
<1>2. ASSUME [Next]_vars PROVE StartManufacturer \/ started' = started
  BY <1>2
  DEF Next, vars, PushOther, PushOrders, Expire, RunContract, RunStep, SkipRun, ResolveTip,
      ValidateIdentity, RefuseIdentity, Advance, PushBranch, OpenPullRequest, Manufacture,
      RunFails
<1>3. ManufactureHolds /\ StartsPrecede /\ [Next]_vars =>
        [\A s \in started' \ started : Current(s)]_vars
  BY <1>1, <1>2
<1>4. Init => StartsPrecede
  BY DEF Init, StartsPrecede, NoRun
<1>5. ManufactureHolds /\ StartsPrecede /\ [Next]_vars => StartsPrecede'
  BY StartsPrecedeNext
<1> QED
  BY <1>3, <1>4, <1>5, ManufactureInvariant, PTL DEF Spec, StartsAreCurrent
=============================================================================
