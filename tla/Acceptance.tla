------------------------------ MODULE Acceptance ------------------------------
(***************************************************************************)
(* The gate of a release, src/scripts/validate_acceptance_report.mjs: it   *)
(* parses its arguments, reads the acceptance reports they name and        *)
(* accepts or rejects them.  A step is one turn of one of its loops; the   *)
(* first complaint ends the run.                                           *)
(*                                                                         *)
(* A field that is only looked at for its form (a digest, a text of some   *)
(* length, the keys of an object) is a boolean: TRUE if the form is right. *)
(* A file that cannot be read or parsed is not on the disk.  Values are    *)
(* integers, of a unit as small as one likes; the code computes in floating*)
(* point.                                                                  *)
(***************************************************************************)
EXTENDS Integers, Sequences, FiniteSets

CONSTANTS Text,              \* the strings
          Platform,          \* PLATFORMS
          RequiredScenarios, \* REQUIRED_SCENARIOS
          RequiredResources, \* REQUIRED_RESOURCES
          Commit,            \* the well-formed commits
          Catalog,           \* the P0 rows of the requirements document
          Inputs             \* what the program may be started on

\* readP0Requirements() refuses a document with an identifier twice.
ASSUME CatalogAssumption ==
  /\ Catalog \in Seq([id : Text, scope : [name : Text, tokens : SUBSET Text]])
  /\ \A i, j \in DOMAIN Catalog : Catalog[i].id = Catalog[j].id => i = j

Report ==
  [form : BOOLEAN, platform : Text, commit : Text, physical : BOOLEAN,
   p0_result : Text, exemptions : BOOLEAN,
   p0        : Seq([id : Text, result : Text, evidence : BOOLEAN, reason : BOOLEAN]),
   scenarios : Seq([id : Text, result : Text, evidence : BOOLEAN]),
   resources : Seq([name : Text, baseline : Int, candidate : Int, samples : Int,
                    evidence : BOOLEAN]),
   audio     : Seq([form : BOOLEAN, declaration : Text, measured : BOOLEAN])]

ASSUME InputAssumption ==
  \A i \in Inputs : i.argv \in Seq(Text) /\ \A f \in DOMAIN i.disk : i.disk[f] \in Report

\* No platform and no commit is empty or has the name of an option.
OptionNames == {"--commit", "--platform", "--require-all-platforms"}

ASSUME NameAssumption ==
  /\ {"", "pass"} \subseteq Text /\ Platform \cup Commit \subseteq Text
  /\ IsFiniteSet(Platform)
  /\ (Platform \cup Commit) \cap (OptionNames \cup {""}) = {}

VARIABLES input,   \* the arguments and the files on the disk
          pc, at,  \* the loop and its index
          options,
          file,    \* the index of the report under validation
          found,   \* the Map of the loop: results by identifier
          verdict

vars == <<input, pc, at, options, file, found, verdict>>

Loops == {"arguments", "files", "p0", "catalog", "scenarios", "resources", "audio",
          "platforms", "end"}

TypeOK ==
  /\ pc \in Loops
  /\ at \in Nat \ {0} /\ file \in Nat
  /\ options \in [platform : Text, commit : Text, all : BOOLEAN, files : Seq(Text)]
  /\ found \subseteq [id : Text, result : Text]
  /\ verdict \in {"none", "accepted", "rejected"}

\* An option that is not there and one that is empty are the same to the code.
NoOptions == [platform |-> "", commit |-> "", all |-> FALSE, files |-> <<>>]

Init ==
  /\ input \in Inputs
  /\ pc = "arguments" /\ at = 1 /\ options = NoOptions
  /\ file = 0 /\ found = {} /\ verdict = "none"

-----------------------------------------------------------------------------
argv   == input.argv
files  == options.files
report == input.disk[files[file]]

Ids    == {e.id : e \in found}

\* fail(): the error reaches the end of the program.
Reject == /\ verdict' = "rejected" /\ pc' = "end"
          /\ UNCHANGED <<input, at, options, file, found>>

\* Mutant: the index goes the other way.
TurnBack == at' = at - 1 /\ UNCHANGED <<input, pc, options, file, verdict>>

Turn == at' = at + 1 /\ UNCHANGED <<input, pc, options, file, verdict>>

\* Mutant: the Map is not a new one.
EnterWithMap(loop) == pc' = loop /\ at' = 1 /\ UNCHANGED <<found, input, options, verdict>>

Enter(loop) == pc' = loop /\ at' = 1 /\ found' = {} /\ UNCHANGED <<input, options, verdict>>

\* parseArguments(): an option takes the next argument for its value, none at
\* the end.
Value(k) == IF k < Len(argv) THEN argv[k + 1] ELSE ""

Argument ==
  /\ pc = "arguments" /\ at <= Len(argv)
  /\ CASE argv[at] = "--commit" ->
            options' = [options EXCEPT !.commit = Value(at)] /\ at' = at + 2
       [] argv[at] = "--platform" ->
            options' = [options EXCEPT !.platform = Value(at)] /\ at' = at + 2
       [] argv[at] = "--require-all-platforms" ->
            options' = [options EXCEPT !.all = TRUE] /\ at' = at + 1
       [] OTHER ->
            options' = [options EXCEPT !.files = Append(@, argv[at])] /\ at' = at + 1
  /\ UNCHANGED <<input, pc, file, found, verdict>>

ArgumentsEnd ==
  /\ pc = "arguments" /\ at > Len(argv)
  /\ IF /\ options.commit \in Commit \cup {""}
        /\ options.platform \in Platform \cup {""}
        /\ files # <<>>
     THEN Enter("files") /\ UNCHANGED file
     ELSE Reject

-----------------------------------------------------------------------------
(***************************************************************************)
(* validateReport() on the next file                                       *)
(***************************************************************************)
\* Mutant: the commit of the command line is not compared.
HeaderOkAnyCommit(r) ==
  /\ r.form /\ r.platform \in Platform
  /\ options.platform # "" => r.platform = options.platform
  /\ r.commit \in Commit
  /\ r.physical
  /\ r.p0_result = "pass" /\ ~r.exemptions

HeaderOk(r) ==
  /\ r.form /\ r.platform \in Platform
  /\ options.platform # "" => r.platform = options.platform
  /\ r.commit \in Commit
  /\ options.commit # "" => r.commit = options.commit
  /\ r.physical
  /\ r.p0_result = "pass" /\ ~r.exemptions

Header ==
  /\ pc = "files" /\ file < Len(files)
  /\ IF files[file + 1] \in DOMAIN input.disk /\ HeaderOk(input.disk[files[file + 1]])
     THEN Enter("p0") /\ file' = file + 1
     ELSE Reject

\* scopeDisposition()
Native  == Platform \ {"web"}
Desktop == Platform \cap {"windows", "macos", "linux"}

Disposition(scope, platform) ==
  LET InScope == CASE scope.name = "native"  -> Native
                   [] scope.name = "desktop" -> Desktop
                   [] scope.name = "tokens"  -> scope.tokens \cap Platform
                   [] OTHER                  -> Platform
  IN IF scope.name = "supporting" THEN "supported-or-explicitly-unsupported"
     ELSE IF scope.name = "tokens" /\ InScope = {} THEN "unknown"
     ELSE IF platform \in InScope THEN "required" ELSE "not-applicable"

ItemOk(item) ==
  /\ item.result \in {"pass", "unsupported"} /\ item.evidence
  /\ item.result = "unsupported" => item.reason

P0Item ==
  /\ pc = "p0" /\ at <= Len(report.p0)
  /\ LET item == report.p0[at]
     IN IF item.id \notin Ids /\ ItemOk(item)
        THEN Turn /\ found' = found \cup {[id |-> item.id, result |-> item.result]}
        ELSE Reject

P0ItemsEnd ==
  /\ pc = "p0" /\ at > Len(report.p0)
  /\ pc' = "catalog" /\ at' = 1
  /\ UNCHANGED <<input, options, file, found, verdict>>

\* A requirement of the catalog takes its result out of the Map.
P0Requirement ==
  /\ pc = "catalog" /\ at <= Len(Catalog)
  /\ LET q           == Catalog[at]
         disposition == Disposition(q.scope, report.platform)
         results     == {e \in found : e.id = q.id}
     IN IF disposition = "not-applicable"
        THEN IF results = {} THEN Turn /\ UNCHANGED found ELSE Reject
        ELSE IF /\ disposition # "unknown" /\ results # {}
                /\ disposition = "required" => \A e \in results : e.result = "pass"
        THEN Turn /\ found' = found \ results
        ELSE Reject

P0Leftovers ==
  /\ pc = "catalog" /\ at > Len(Catalog)
  /\ IF found = {} THEN Enter("scenarios") /\ UNCHANGED file ELSE Reject

Scenario ==
  /\ pc = "scenarios" /\ at <= Len(report.scenarios)
  /\ LET s == report.scenarios[at]
     IN IF s.id \notin Ids /\ s.result = "pass" /\ s.evidence
        THEN Turn /\ found' = found \cup {[id |-> s.id, result |-> s.result]}
        ELSE Reject

ScenariosEnd ==
  /\ pc = "scenarios" /\ at > Len(report.scenarios)
  /\ IF RequiredScenarios \subseteq Ids THEN Enter("resources") /\ UNCHANGED file
     ELSE Reject

\* The regression in percent, and by how much of the baseline it may pass 15
\* (15.000001 in the code).
Excess(m)    == 100 * (m.candidate - m.baseline) - 15 * m.baseline
Tolerated(m) == m.baseline \div 1000000

\* Mutant: four samples are enough.
MetricOkFourSamples(m) ==
  /\ m.baseline > 0 /\ m.candidate >= 0
  /\ m.samples >= 4 /\ m.evidence
  /\ ~(Excess(m) > Tolerated(m))

MetricOk(m) ==
  /\ m.baseline > 0 /\ m.candidate >= 0
  /\ ~(m.samples < 5) /\ m.evidence
  /\ ~(Excess(m) > Tolerated(m))

Resource ==
  /\ pc = "resources" /\ at <= Len(report.resources)
  /\ LET m == report.resources[at]
     IN IF m.name \notin Ids /\ MetricOk(m)
        THEN Turn /\ found' = found \cup {[id |-> m.name, result |-> "pass"]}
        ELSE Reject

ResourcesEnd ==
  /\ pc = "resources" /\ at > Len(report.resources)
  /\ IF RequiredResources \subseteq Ids THEN Enter("audio") /\ UNCHANGED file
     ELSE Reject

ClaimOk(claim) ==
  /\ claim.form /\ claim.declaration \in {"supported", "unsupported"}
  /\ claim.declaration = "supported" => claim.measured

\* Mutant: the loop does not go on to the next claim.
AudioClaimStays ==
  /\ pc = "audio" /\ at <= Len(report.audio)
  /\ IF ClaimOk(report.audio[at]) THEN UNCHANGED vars ELSE Reject

AudioClaim ==
  /\ pc = "audio" /\ at <= Len(report.audio)
  /\ IF ClaimOk(report.audio[at]) THEN Turn /\ UNCHANGED found ELSE Reject

AudioEnd ==
  /\ pc = "audio" /\ at > Len(report.audio)
  /\ IF report.audio # <<>> THEN Enter("files") /\ UNCHANGED file ELSE Reject

-----------------------------------------------------------------------------
(***************************************************************************)
(* validateFiles() after the last report                                   *)
(***************************************************************************)
Reported == [k \in DOMAIN files |-> input.disk[files[k]]]

\* Mutant: asks only that no platform is missing.
AllReportedOnce == Platform \subseteq {Reported[k].platform : k \in DOMAIN files}

AllReported ==
  /\ Platform \subseteq {Reported[k].platform : k \in DOMAIN files}
  /\ \A i, j \in DOMAIN files : Reported[i].platform = Reported[j].platform => i = j
  /\ Len(files) = Cardinality(Platform)
  /\ Cardinality({Reported[k].commit : k \in DOMAIN files}) = 1

AllPlatforms ==
  /\ pc = "files" /\ file = Len(files)
  /\ IF options.all => AllReported
     THEN /\ pc' = "end" /\ verdict' = "accepted"
          /\ UNCHANGED <<input, at, options, file, found>>
     ELSE Reject

Next ==
  \/ Argument \/ ArgumentsEnd \/ Header
  \/ P0Item \/ P0ItemsEnd \/ P0Requirement \/ P0Leftovers
  \/ Scenario \/ ScenariosEnd \/ Resource \/ ResourcesEnd
  \/ AudioClaim \/ AudioEnd \/ AllPlatforms

Spec == Init /\ [][Next]_vars /\ WF_vars(Next)

-----------------------------------------------------------------------------
(***************************************************************************)
(* What the protocol asks of a report and of a release                     *)
(* (src/docs/acceptance/README.md), in its own terms: without loops,       *)
(* without a Map and without the conditions of the steps above.            *)
(***************************************************************************)
Identified(r) ==
  /\ r.form /\ r.platform \in Platform /\ r.commit \in Commit
  /\ options.platform \in {"", r.platform} /\ options.commit \in {"", r.commit}
  /\ r.physical /\ r.p0_result = "pass" /\ ~r.exemptions

\* A result with evidence; what is not supported gives its reason.
Documented(item) ==
  item.evidence /\ (item.result = "pass" \/ (item.result = "unsupported" /\ item.reason))

P0Conforms(r) ==
  /\ \A i, j \in DOMAIN r.p0 : r.p0[i].id = r.p0[j].id => i = j
  /\ \A i \in DOMAIN r.p0 : Documented(r.p0[i])
  /\ \A i \in DOMAIN r.p0 : \E k \in DOMAIN Catalog : Catalog[k].id = r.p0[i].id
  /\ \A k \in DOMAIN Catalog :
       LET disposition == Disposition(Catalog[k].scope, r.platform)
           reported    == {i \in DOMAIN r.p0 : r.p0[i].id = Catalog[k].id}
       IN /\ disposition # "unknown"
          /\ reported = {} <=> disposition = "not-applicable"
          /\ disposition = "required" => \A i \in reported : r.p0[i].result = "pass"

ScenariosConform(r) ==
  /\ \A i, j \in DOMAIN r.scenarios : r.scenarios[i].id = r.scenarios[j].id => i = j
  /\ \A i \in DOMAIN r.scenarios : r.scenarios[i].result = "pass" /\ r.scenarios[i].evidence
  /\ \A id \in RequiredScenarios : \E i \in DOMAIN r.scenarios : r.scenarios[i].id = id

\* More than four samples, and a candidate within 15 per cent of the baseline,
\* or within as many millionths of a per cent more as rounding may add.
Measured(m, millionths) ==
  /\ m.samples > 4 /\ m.evidence
  /\ m.baseline > 0 /\ m.candidate >= 0
  /\ 100 * (m.candidate - m.baseline)
       <= 15 * m.baseline + millionths * (m.baseline \div 1000000)

ResourcesConform(r, millionths) ==
  /\ \A i, j \in DOMAIN r.resources : r.resources[i].name = r.resources[j].name => i = j
  /\ \A i \in DOMAIN r.resources : Measured(r.resources[i], millionths)
  /\ \A name \in RequiredResources :
       \E i \in DOMAIN r.resources : r.resources[i].name = name

\* Without a measurement on a device only "unsupported" may be claimed.
Honest(claim) ==
  /\ claim.form
  /\ \/ claim.declaration = "unsupported"
     \/ claim.declaration = "supported" /\ claim.measured

AudioConforms(r) == r.audio # <<>> /\ \A i \in DOMAIN r.audio : Honest(r.audio[i])

Conforms(r, millionths) ==
  /\ Identified(r) /\ P0Conforms(r) /\ ScenariosConform(r)
  /\ ResourcesConform(r, millionths) /\ AudioConforms(r)

OnePerPlatform ==
  /\ \A p \in Platform : \E k \in DOMAIN files : Reported[k].platform = p
  /\ \A i, j \in DOMAIN files : Reported[i].platform = Reported[j].platform => i = j
  /\ \A i, j \in DOMAIN files : Reported[i].commit = Reported[j].commit

-----------------------------------------------------------------------------
\* What is accepted conforms, up to a millionth of a per cent of regression:
\* the turns of the loops, the Map they fill and empty, the order of the checks
\* and their boundaries lose nothing of the protocol.
AcceptedConforms ==
  verdict = "accepted" =>
    /\ files # <<>>
    /\ \A k \in DOMAIN files : files[k] \in DOMAIN input.disk /\ Conforms(Reported[k], 1)
    /\ options.all => OnePerPlatform

\* What is rejected does not, by the protocol to the letter: no order of items,
\* of files or of options makes the gate refuse a release that conforms.
RejectedForCause ==
  verdict = "rejected" =>
    ~ /\ options.commit \in Commit \cup {""} /\ options.platform \in Platform \cup {""}
      /\ files # <<>>
      /\ \A k \in DOMAIN files : files[k] \in DOMAIN input.disk /\ Conforms(Reported[k], 0)
      /\ options.all => OnePerPlatform

\* A commit named on the command line, wherever it stands there, is the commit
\* of every accepted report, if no option that takes a value is given twice (an
\* option may take another for its value, and the last one counts).
GivenOnce(option) == \A i, j \in DOMAIN argv : argv[i] = option /\ argv[j] = option => i = j

CommitEnforced ==
  verdict = "accepted" /\ GivenOnce("--commit") /\ GivenOnce("--platform") =>
    \A k \in DOMAIN argv : argv[k] = "--commit" /\ Value(k) # "" =>
      \A i \in DOMAIN files : Reported[i].commit = Value(k)

\* --require-all-platforms, wherever it stands, is then never swallowed: what is
\* accepted has one report for every platform.
FlagObeyed ==
  /\ verdict = "accepted" /\ GivenOnce("--commit") /\ GivenOnce("--platform")
  /\ \E k \in DOMAIN argv : argv[k] = "--require-all-platforms"
  => OnePerPlatform

\* Every run ends with a verdict.
Terminates == <>(verdict # "none")
=============================================================================
