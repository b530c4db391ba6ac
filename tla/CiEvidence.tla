------------------------------ MODULE CiEvidence ------------------------------
(***************************************************************************)
(* The evidence writers of the CI gates, scripts/ci/write-stage6r*.py: the *)
(* log of a gate is parsed line by line, and the evidence is accepted or   *)
(* rejected.  Every stage has a writer of its own; they share the parser   *)
(* and differ in the suites they register and in the checks they make.     *)
(*                                                                         *)
(* A log is a sequence of the lines that the writers look for.  The lines  *)
(* of single tests, whose identifiers are only copied, are left out.       *)
(***************************************************************************)
EXTENDS Integers, Sequences, SequencesExt

\* A line of the log: the suite is that of a heading, the numbers are
\* those of a "# result:" line or of a build's warning and error counts.
Line(kind, suite, passed, failed) ==
  [kind |-> kind, suite |-> suite, passed |-> passed, failed |-> failed,
   total |-> passed + failed]

IdsPassed == Line("ids", "", 0, 0)
Heading(s) == Line("heading", s, 0, 0)
Result(p, f) == Line("result", "", p, f)
BuildCounts(warnings, errors) == Line("build", "", warnings, errors)

(***************************************************************************)
(* SUITES of each writer: the suites and how many tests they must have.    *)
(***************************************************************************)
Suites6R4C == [api |-> 37, postgresql |-> 10]
Suites6R5 == [domain |-> 12, api |-> 37, mobile |-> 6, oidc |-> 7, postgresql |-> 10, dr |-> 4]
Suites6R6 == [domain |-> 12, api |-> 40, mobile |-> 6, oidc |-> 7, postgresql |-> 11, dr |-> 4]
Suites6R7 == [domain |-> 12, api |-> 40, mobile |-> 6, oidc |-> 7, postgresql |-> 12, dr |-> 4]
Suites6R8 == [domain |-> 12, api |-> 41, mobile |-> 7, oidc |-> 7, postgresql |-> 12, dr |-> 4]
Suites6R9 == [domain |-> 12, api |-> 41, mobile |-> 7, oidc |-> 8, postgresql |-> 12, dr |-> 4]
Suites6R10 == [domain |-> 12, api |-> 41, mobile |-> 7, oidc |-> 8, townReadiness |-> 5,
               postgresql |-> 12, dr |-> 5]
Suites6R11 == Suites6R10

SumOf(f) == FoldFunction(+, 0, f)

(***************************************************************************)
(* parse_suites: a heading opens a suite, a result line closes it.  A      *)
(* suite that is run again overwrites its result.                          *)
(***************************************************************************)
NotRun == [passed |-> 0, failed |-> 0, total |-> 0, status |-> "not-run"]

Parsed(line, expected) ==
  [passed |-> line.passed, failed |-> line.failed, total |-> line.total,
   status |-> IF line.passed = expected /\ line.failed = 0 /\ line.total = expected
              THEN "passed" ELSE "failed"]

\* Mutant: a heading is looked at only when no suite is open.
ParseLineUntilClosed(suites, parser, line) ==
  CASE line.kind = "heading" /\ line.suite \in DOMAIN suites /\ parser.current = "" ->
         [parser EXCEPT !.current = line.suite]
    [] line.kind = "result" /\ parser.current # "" ->
         [current |-> "",
          results |-> [parser.results EXCEPT
                         ![parser.current] = Parsed(line, suites[parser.current])]]
    [] OTHER -> parser

ParseLine(suites, parser, line) ==
  CASE line.kind = "heading" /\ line.suite \in DOMAIN suites ->
         [parser EXCEPT !.current = line.suite]
    [] line.kind = "result" /\ parser.current # "" ->
         [current |-> "",
          results |-> [parser.results EXCEPT
                         ![parser.current] = Parsed(line, suites[parser.current])]]
    [] OTHER -> parser

Fresh(suites) == [current |-> "", results |-> [s \in DOMAIN suites |-> NotRun]]

\* The parser after the log, line by line.
Scanned(suites, log) ==
  LET parser[n \in 0 .. Len(log)] ==
        IF n = 0 THEN Fresh(suites) ELSE ParseLine(suites, parser[n - 1], log[n])
  IN parser[Len(log)]

ParseSuites(suites, log) == Scanned(suites, log).results

AllGreen(results) == \A s \in DOMAIN results : results[s].status = "passed"

\* test_ids_unique and build_clean of build_evidence.
TestIdsUnique(log) == \E i \in DOMAIN log : log[i] = IdsPassed
BuildClean(log) ==
  LET counts == {log[i] : i \in {j \in DOMAIN log : log[j].kind = "build"}}
  IN counts # {} /\ \A c \in counts : c.passed = 0 /\ c.failed = 0

(***************************************************************************)
(* acceptance_status of each writer.  run has the numbers that the gate's  *)
(* script passes on: its exit code and whether the user is root.  The      *)
(* execution mode is always native there.                                  *)
(***************************************************************************)
RunIsSound(run) == ~run.root /\ run.gateExit = 0

Accepts6R4C(log, run) ==
  RunIsSound(run) /\ AllGreen(ParseSuites(Suites6R4C, log))

\* Mutant: the identifier check is left to the exit code.
AcceptsIdsUnchecked(suites, log, run) ==
  /\ RunIsSound(run)
  /\ BuildClean(log)
  /\ AllGreen(ParseSuites(suites, log))

AcceptsChecked(suites, log, run) ==
  /\ RunIsSound(run)
  /\ TestIdsUnique(log)
  /\ BuildClean(log)
  /\ AllGreen(ParseSuites(suites, log))

Accepts6R5(log, run) == AcceptsChecked(Suites6R5, log, run)
Accepts6R6(log, run) == SumOf(Suites6R6) = 80 /\ AcceptsChecked(Suites6R6, log, run)
Accepts6R7(log, run) == SumOf(Suites6R7) = 81 /\ AcceptsChecked(Suites6R7, log, run)

Accepts6R8(log, run) == SumOf(Suites6R8) = 83 /\ AcceptsChecked(Suites6R8, log, run)

Accepts6R9(log, run) == SumOf(Suites6R9) = 84 /\ AcceptsChecked(Suites6R9, log, run)

\* suite_totals: what the later writers add.
TotalsMatch(suites, results) ==
  LET Total(field) == SumOf([s \in DOMAIN suites |-> results[s][field]])
  IN /\ \A s \in DOMAIN suites : results[s].status # "not-run"
     /\ Total("passed") = SumOf(suites)
     /\ Total("failed") = 0
     /\ Total("total") = SumOf(suites)

Accepts6R10(log, run) ==
  /\ AcceptsChecked(Suites6R10, log, run)
  /\ TotalsMatch(Suites6R10, ParseSuites(Suites6R10, log))

Accepts6R11(log, run) ==
  /\ AcceptsChecked(Suites6R11, log, run)
  /\ TotalsMatch(Suites6R11, ParseSuites(Suites6R11, log))

Writers == {"6R-4C", "6R-5", "6R-6", "6R-7", "6R-8", "6R-9", "6R-10", "6R-11"}

SuitesOf(stage) ==
  CASE stage = "6R-4C" -> Suites6R4C [] stage = "6R-5" -> Suites6R5
    [] stage = "6R-6" -> Suites6R6 [] stage = "6R-7" -> Suites6R7
    [] stage = "6R-8" -> Suites6R8 [] stage = "6R-9" -> Suites6R9
    [] stage = "6R-10" -> Suites6R10 [] stage = "6R-11" -> Suites6R11

Accepts(stage, log, run) ==
  CASE stage = "6R-4C" -> Accepts6R4C(log, run) [] stage = "6R-5" -> Accepts6R5(log, run)
    [] stage = "6R-6" -> Accepts6R6(log, run) [] stage = "6R-7" -> Accepts6R7(log, run)
    [] stage = "6R-8" -> Accepts6R8(log, run) [] stage = "6R-9" -> Accepts6R9(log, run)
    [] stage = "6R-10" -> Accepts6R10(log, run) [] stage = "6R-11" -> Accepts6R11(log, run)
=============================================================================
