---------------------------- MODULE AcceptanceProofs ----------------------------
(***************************************************************************)
(* Theorems about Acceptance, for every catalog, list of platforms, report *)
(* and command line.                                                       *)
(***************************************************************************)
EXTENDS Acceptance, FiniteSetTheorems, FunctionTheorems, TLAPS

-----------------------------------------------------------------------------
(* Types. *)

ReportLoops == {"p0", "catalog", "scenarios", "resources", "audio"}

\* The report under validation is there.
Located ==
  /\ input \in Inputs
  /\ file \in 0..Len(files)
  /\ pc \in ReportLoops => file \in 1..Len(files) /\ files[file] \in DOMAIN input.disk
  /\ verdict # "none" <=> pc = "end"

Typed == TypeOK /\ Located

LEMMA ReportType ==
  ASSUME Typed, pc \in ReportLoops
  PROVE  report \in Report
BY InputAssumption DEF Typed, Located, report

LEMMA Strings == "" \in Text /\ "pass" \in Text
BY NameAssumption

LEMMA Element ==
  ASSUME NEW S, NEW q \in Seq(S), NEW n \in Nat \ {0}, n <= Len(q)
  PROVE  q[n] \in S
OBVIOUS

OptionsType == [platform : Text, commit : Text, all : BOOLEAN, files : Seq(Text)]

LEMMA OptionSet ==
  ASSUME NEW o \in OptionsType, NEW x \in Text
  PROVE  /\ [o EXCEPT !.commit = x] \in OptionsType
         /\ [o EXCEPT !.commit = x].files = o.files
         /\ [o EXCEPT !.platform = x] \in OptionsType
         /\ [o EXCEPT !.platform = x].files = o.files
         /\ [o EXCEPT !.files = Append(@, x)] \in OptionsType
         /\ Len([o EXCEPT !.files = Append(@, x)].files) = Len(o.files) + 1
<1>1. /\ [o EXCEPT !.commit = x] \in OptionsType
      /\ [o EXCEPT !.platform = x] \in OptionsType
  BY DEF OptionsType
<1>2. o.files \in Seq(Text)
  BY DEF OptionsType
<1>3. Append(o.files, x) \in Seq(Text) /\ Len(Append(o.files, x)) = Len(o.files) + 1
  BY <1>2
<1>4. [o EXCEPT !.files = Append(@, x)] \in OptionsType
  BY <1>3 DEF OptionsType
<1>5. QED
  BY <1>1, <1>3, <1>4 DEF OptionsType

LEMMA OptionAll ==
  ASSUME NEW o \in OptionsType
  PROVE  /\ [o EXCEPT !.all = TRUE] \in OptionsType
         /\ [o EXCEPT !.all = TRUE].files = o.files
BY DEF OptionsType

LEMMA ArgumentTypes ==
  ASSUME Typed, Argument
  PROVE  Typed'
<1>1. argv \in Seq(Text) /\ at \in Nat \ {0} /\ at <= Len(argv)
  BY InputAssumption DEF Typed, TypeOK, Located, Argument, argv
<1>2. argv[at] \in Text
  BY <1>1, Element
<1>3. Value(at) \in Text
  <2>1. ASSUME at < Len(argv) PROVE argv[at + 1] \in Text
    BY <1>1, <2>1
  <2>2. QED
    BY <1>1, <2>1, Strings DEF Value
<1>4. options \in OptionsType /\ files \in Seq(Text) /\ file \in 0..Len(files)
  BY DEF Typed, TypeOK, Located, OptionsType, files
<1>5. options' \in OptionsType /\ Len(files) <= Len(files') /\ Len(files') \in Nat
  <2>1. options' \in OptionsType /\ (Len(files') = Len(files) \/ Len(files') = Len(files) + 1)
    <3>1. CASE argv[at] = "--commit"
      BY <1>3, <1>4, <3>1, OptionSet DEF Argument, files
    <3>2. CASE argv[at] = "--platform"
      BY <1>3, <1>4, <3>2, OptionSet DEF Argument, files
    <3>3. CASE argv[at] = "--require-all-platforms"
      BY <1>4, <3>3, OptionAll DEF Argument, files
    <3>4. CASE argv[at] \notin OptionNames
      BY <1>2, <1>4, <3>4, OptionSet DEF Argument, files, OptionNames
    <3>5. QED
      BY <3>1, <3>2, <3>3, <3>4 DEF OptionNames
  <2>2. QED
    BY <1>4, <2>1
<1>6. at' \in Nat \ {0}
  BY <1>1 DEF Argument
<1>7. UNCHANGED <<input, pc, file, found, verdict>> /\ pc = "arguments"
  BY DEF Argument
<1>8. file \in 0..Len(files')
  BY <1>4, <1>5
<1>9. QED
  BY <1>5, <1>6, <1>7, <1>8 DEF Typed, TypeOK, Located, ReportLoops, OptionsType

LEMMA P0Types ==
  ASSUME Typed, P0Item
  PROVE  Typed'
<1>1. pc \in ReportLoops /\ at \in Nat \ {0} /\ at <= Len(report.p0)
  BY DEF P0Item, Typed, TypeOK, ReportLoops
<1>2. report.p0 \in Seq([id : Text, result : Text, evidence : BOOLEAN, reason : BOOLEAN])
  BY <1>1, ReportType DEF Report
<1>3. report.p0[at] \in [id : Text, result : Text, evidence : BOOLEAN, reason : BOOLEAN]
  BY <1>1, <1>2, Element
<1>4. found' \subseteq [id : Text, result : Text]
  BY <1>3 DEF P0Item, Typed, TypeOK, Turn, Reject
<1>5. QED
  BY <1>1, <1>4 DEF P0Item, Typed, TypeOK, Located, ReportLoops, Loops, Turn, Reject, files

LEMMA ScenarioTypes ==
  ASSUME Typed, Scenario
  PROVE  Typed'
<1>1. pc \in ReportLoops /\ at \in Nat \ {0} /\ at <= Len(report.scenarios)
  BY DEF Scenario, Typed, TypeOK, ReportLoops
<1>2. report.scenarios \in Seq([id : Text, result : Text, evidence : BOOLEAN])
  BY <1>1, ReportType DEF Report
<1>3. report.scenarios[at] \in [id : Text, result : Text, evidence : BOOLEAN]
  BY <1>1, <1>2, Element
<1>4. found' \subseteq [id : Text, result : Text]
  BY <1>3 DEF Scenario, Typed, TypeOK, Turn, Reject
<1>5. QED
  BY <1>1, <1>4 DEF Scenario, Typed, TypeOK, Located, ReportLoops, Loops, Turn, Reject, files

LEMMA ResourceTypes ==
  ASSUME Typed, Resource
  PROVE  Typed'
<1>1. pc \in ReportLoops /\ at \in Nat \ {0} /\ at <= Len(report.resources)
  BY DEF Resource, Typed, TypeOK, ReportLoops
<1>2. report.resources \in Seq([name : Text, baseline : Int, candidate : Int, samples : Int, evidence : BOOLEAN])
  BY <1>1, ReportType DEF Report
<1>3. report.resources[at].name \in Text /\ "pass" \in Text
  <2>1. report.resources[at] \in [name : Text, baseline : Int, candidate : Int, samples : Int,
                    evidence : BOOLEAN]
    BY <1>1, <1>2, Element
  <2>2. QED
    BY <2>1, Strings
<1>4. found' \subseteq [id : Text, result : Text]
  BY <1>3 DEF Resource, Typed, TypeOK, Turn, Reject
<1>5. QED
  BY <1>1, <1>4 DEF Resource, Typed, TypeOK, Located, ReportLoops, Loops, Turn, Reject, files

LEMMA TypeStep ==
  ASSUME Typed, [Next]_vars
  PROVE  Typed'
<1> USE DEF Typed, TypeOK, Located, ReportLoops, Loops, Reject, Turn, Enter, files
<1>1. CASE Argument
  BY <1>1, ArgumentTypes
<1>2. CASE ArgumentsEnd
  <2>1. CASE pc' = "end"
    BY <1>2, <2>1 DEF ArgumentsEnd
  <2>2. CASE pc' # "end"
    <3>1. /\ pc' = "files" /\ at' = 1 /\ found' = {}
          /\ UNCHANGED <<input, options, file, verdict>> /\ pc = "arguments"
      BY <1>2, <2>2 DEF ArgumentsEnd
    <3>2. QED
      BY <3>1
  <2>3. QED
    BY <2>1, <2>2
<1>3. CASE Header
  BY <1>3 DEF Header
<1>4. CASE P0Item
  BY <1>4, P0Types
<1>5. CASE P0ItemsEnd
  BY <1>5 DEF P0ItemsEnd
<1>6. CASE P0Requirement
  BY <1>6 DEF P0Requirement
<1>7. CASE P0Leftovers
  BY <1>7 DEF P0Leftovers
<1>8. CASE Scenario
  BY <1>8, ScenarioTypes
<1>9. CASE ScenariosEnd
  BY <1>9 DEF ScenariosEnd
<1>10. CASE Resource
  BY <1>10, ResourceTypes
<1>11. CASE ResourcesEnd
  BY <1>11 DEF ResourcesEnd
<1>12. CASE AudioClaim
  BY <1>12 DEF AudioClaim
<1>13. CASE AudioEnd
  BY <1>13 DEF AudioEnd
<1>14. CASE AllPlatforms
  BY <1>14 DEF AllPlatforms
<1>15. CASE UNCHANGED vars
  BY <1>15 DEF vars
<1>16. QED
  BY <1>1, <1>2, <1>3, <1>4, <1>5, <1>6, <1>7, <1>8, <1>9, <1>10, <1>11, <1>12,
     <1>13, <1>14, <1>15 DEF Next

LEMMA AlwaysTyped == Spec => []Typed
<1>1. Init => Typed
  <2>1. NoOptions \in OptionsType /\ Len(NoOptions.files) = 0
    <3>1. <<>> \in Seq(Text) /\ Len(<<>>) = 0
      OBVIOUS
    <3>2. QED
      BY <3>1, Strings DEF NoOptions, OptionsType
  <2>2. QED
    BY <2>1 DEF Init, Typed, TypeOK, Located, Loops, ReportLoops, files, OptionsType
<1>2. QED
  BY <1>1, TypeStep, PTL DEF Spec

(* The index of a loop starts at one, and options and results are strings. *)
THEOREM TypeCorrect == Spec => []TypeOK
<1>1. Typed => TypeOK
  BY DEF Typed
<1>2. QED
  BY AlwaysTyped, <1>1, PTL

-----------------------------------------------------------------------------
(* A report that passes the conditions of the steps, and what the verdict says *)
(* of such reports.                                                            *)

P0Checked(r) ==
  /\ \A i, j \in DOMAIN r.p0 : r.p0[i].id = r.p0[j].id => i = j
  /\ \A i \in DOMAIN r.p0 : ItemOk(r.p0[i])
  /\ \A i \in DOMAIN r.p0 : \E k \in DOMAIN Catalog : Catalog[k].id = r.p0[i].id
  /\ \A k \in DOMAIN Catalog :
       LET disposition == Disposition(Catalog[k].scope, r.platform)
           reported    == {i \in DOMAIN r.p0 : r.p0[i].id = Catalog[k].id}
       IN /\ disposition # "unknown"
          /\ reported = {} <=> disposition = "not-applicable"
          /\ disposition = "required" => \A i \in reported : r.p0[i].result = "pass"

ResourcesChecked(r) ==
  /\ \A i, j \in DOMAIN r.resources : r.resources[i].name = r.resources[j].name => i = j
  /\ \A i \in DOMAIN r.resources : MetricOk(r.resources[i])
  /\ \A name \in RequiredResources :
       \E i \in DOMAIN r.resources : r.resources[i].name = name

AudioChecked(r) == r.audio # <<>> /\ \A i \in DOMAIN r.audio : ClaimOk(r.audio[i])

Checked(r) == /\ HeaderOk(r) /\ P0Checked(r) /\ ScenariosConform(r)
              /\ ResourcesChecked(r) /\ AudioChecked(r)

AcceptedChecked ==
  verdict = "accepted" =>
    /\ files # <<>>
    /\ \A k \in DOMAIN files : files[k] \in DOMAIN input.disk /\ Checked(Reported[k])
    /\ options.all => OnePerPlatform

RejectedChecked ==
  verdict = "rejected" =>
    ~ /\ options.commit \in Commit \cup {""} /\ options.platform \in Platform \cup {""}
      /\ files # <<>>
      /\ \A k \in DOMAIN files : files[k] \in DOMAIN input.disk /\ Checked(Reported[k])
      /\ options.all => OnePerPlatform

-----------------------------------------------------------------------------
(* What the loops know after n turns, of any report. *)

P0To(r, n) ==
  /\ \A i \in 1..n : ItemOk(r.p0[i])
  /\ \A i, j \in 1..n : r.p0[i].id = r.p0[j].id => i = j

ScenariosTo(r, n) ==
  /\ \A i \in 1..n : r.scenarios[i].result = "pass" /\ r.scenarios[i].evidence
  /\ \A i, j \in 1..n : r.scenarios[i].id = r.scenarios[j].id => i = j

ResourcesTo(r, n) ==
  /\ \A i \in 1..n : MetricOk(r.resources[i])
  /\ \A i, j \in 1..n : r.resources[i].name = r.resources[j].name => i = j

\* Requirement k is met.
Met(r, k) ==
  LET disposition == Disposition(Catalog[k].scope, r.platform)
      reported    == {i \in DOMAIN r.p0 : r.p0[i].id = Catalog[k].id}
  IN /\ disposition # "unknown"
     /\ reported = {} <=> disposition = "not-applicable"
     /\ disposition = "required" => \A i \in reported : r.p0[i].result = "pass"

Entry(x) == [id |-> x.id, result |-> x.result]

\* The items that no requirement up to n has asked for.
Unasked(r, n) == {i \in DOMAIN r.p0 : \A k \in 1..n : Catalog[k].id # r.p0[i].id}

LEMMA ReportLists ==
  ASSUME NEW r \in Report
  PROVE  /\ Len(r.p0) \in Nat /\ DOMAIN r.p0 = 1..Len(r.p0)
         /\ Len(r.scenarios) \in Nat /\ DOMAIN r.scenarios = 1..Len(r.scenarios)
         /\ Len(r.resources) \in Nat /\ DOMAIN r.resources = 1..Len(r.resources)
         /\ Len(r.audio) \in Nat /\ DOMAIN r.audio = 1..Len(r.audio)
BY DEF Report

LEMMA CatalogList ==
  /\ Len(Catalog) \in Nat /\ DOMAIN Catalog = 1..Len(Catalog)
  /\ \A i, j \in 1..Len(Catalog) : Catalog[i].id = Catalog[j].id => i = j
BY CatalogAssumption

LEMMA P0Means ==
  ASSUME NEW r \in Report
  PROVE  P0Checked(r) <=>
           /\ P0To(r, Len(r.p0))
           /\ \A k \in 1..Len(Catalog) : Met(r, k)
           /\ Unasked(r, Len(Catalog)) = {}
<1> DEFINE Covered == \A i \in DOMAIN r.p0 : \E k \in DOMAIN Catalog : Catalog[k].id = r.p0[i].id
<1>1. Covered <=> Unasked(r, Len(Catalog)) = {}
  BY CatalogList DEF Unasked
<1> HIDE DEF Covered
<1>2. (\A k \in DOMAIN Catalog :
        LET disposition == Disposition(Catalog[k].scope, r.platform)
            reported    == {i \in DOMAIN r.p0 : r.p0[i].id = Catalog[k].id}
        IN /\ disposition # "unknown"
           /\ reported = {} <=> disposition = "not-applicable"
           /\ disposition = "required" => \A i \in reported : r.p0[i].result = "pass")
      <=> \A k \in 1..Len(Catalog) : Met(r, k)
  BY CatalogList DEF Met
<1>3. (/\ \A i, j \in DOMAIN r.p0 : r.p0[i].id = r.p0[j].id => i = j
       /\ \A i \in DOMAIN r.p0 : ItemOk(r.p0[i])) <=> P0To(r, Len(r.p0))
  BY ReportLists DEF P0To
<1>4. QED
  BY <1>1, <1>2, <1>3 DEF P0Checked, Covered

LEMMA ScenariosMean ==
  ASSUME NEW r \in Report
  PROVE  ScenariosConform(r) <=>
           /\ ScenariosTo(r, Len(r.scenarios))
           /\ RequiredScenarios \subseteq {r.scenarios[i].id : i \in 1..Len(r.scenarios)}
BY ReportLists DEF ScenariosConform, ScenariosTo

LEMMA ResourcesMean ==
  ASSUME NEW r \in Report
  PROVE  ResourcesChecked(r) <=>
           /\ ResourcesTo(r, Len(r.resources))
           /\ RequiredResources \subseteq {r.resources[i].name : i \in 1..Len(r.resources)}
<1>1. Len(r.resources) \in Nat /\ DOMAIN r.resources = 1..Len(r.resources)
  BY ReportLists
<1>2. QED
  BY <1>1 DEF ResourcesChecked, ResourcesTo

LEMMA AudioMeans ==
  ASSUME NEW r \in Report
  PROVE  AudioChecked(r) <=> r.audio # <<>> /\ \A i \in 1..Len(r.audio) : ClaimOk(r.audio[i])
BY ReportLists DEF AudioChecked

(* The ends of loops that have gone n turns, and one more. *)
LEMMA OneMore ==
  ASSUME NEW n \in Nat \ {0}
  PROVE  /\ 1..n = (1..(n - 1)) \cup {n} /\ n \notin 1..(n - 1)
         /\ (n + 1) - 1 = n
OBVIOUS

LEMMA P0One ==
  ASSUME NEW r, NEW n \in Nat \ {0}, P0To(r, n - 1)
  PROVE  P0To(r, n) <=> /\ ItemOk(r.p0[n])
                        /\ \A i \in 1..(n - 1) : r.p0[i].id # r.p0[n].id
BY OneMore DEF P0To

LEMMA ScenariosOne ==
  ASSUME NEW r, NEW n \in Nat \ {0}, ScenariosTo(r, n - 1)
  PROVE  ScenariosTo(r, n) <=> /\ r.scenarios[n].result = "pass" /\ r.scenarios[n].evidence
                               /\ \A i \in 1..(n - 1) : r.scenarios[i].id # r.scenarios[n].id
BY OneMore DEF ScenariosTo

LEMMA ResourcesOne ==
  ASSUME NEW r, NEW n \in Nat \ {0}, ResourcesTo(r, n - 1)
  PROVE  ResourcesTo(r, n) <=> /\ MetricOk(r.resources[n])
                               /\ \A i \in 1..(n - 1) : r.resources[i].name # r.resources[n].name
BY OneMore DEF ResourcesTo

(* Requirement n finds in the Map what the report says of it. *)
Left(r, n)     == {Entry(r.p0[i]) : i \in Unasked(r, n)}
Results(F, n)  == {e \in F : e.id = Catalog[n].id}
Mentions(r, n) == {i \in DOMAIN r.p0 : r.p0[i].id = Catalog[n].id}

LEMMA UnaskedOne ==
  ASSUME NEW r \in Report, NEW n \in 1..Len(Catalog)
  PROVE  /\ Results(Left(r, n - 1), n) = {} <=> Mentions(r, n) = {}
         /\ (\A e \in Results(Left(r, n - 1), n) : e.result = "pass")
              <=> \A i \in Mentions(r, n) : r.p0[i].result = "pass"
         /\ Left(r, n - 1) \ Results(Left(r, n - 1), n) = Left(r, n)
<1> DEFINE results  == Results(Left(r, n - 1), n)
           reported == Mentions(r, n)
<1>1. n \in Nat \ {0} /\ 1..(n - 1) \subseteq 1..Len(Catalog)
  BY CatalogList
<1>2. \A k \in 1..(n - 1) : Catalog[k].id # Catalog[n].id
  BY <1>1, OneMore, CatalogList
<1>3. reported \subseteq Unasked(r, n - 1)
  BY <1>2 DEF Unasked, Mentions
<1>4. \A x : Entry(x).id = x.id /\ Entry(x).result = x.result
  BY DEF Entry
<1>5. results = {Entry(r.p0[i]) : i \in reported}
  BY <1>3, <1>4 DEF Unasked, Results, Mentions, Left
<1>6. Unasked(r, n) = Unasked(r, n - 1) \ reported
  BY <1>1, OneMore DEF Unasked, Mentions
<1>7. \A i \in Unasked(r, n - 1) : i \in reported <=> Entry(r.p0[i]) \in results
  BY <1>4 DEF Unasked, Results, Mentions, Left
<1> HIDE DEF results, reported
<1>8. Left(r, n - 1) \ results = Left(r, n)
  BY <1>6, <1>7 DEF Left
<1>9. (\A e \in results : e.result = "pass") <=> \A i \in reported : r.p0[i].result = "pass"
  BY <1>4, <1>5
<1>10. results = {} <=> reported = {}
  BY <1>5
<1>11. QED
  BY <1>8, <1>9, <1>10 DEF results, reported

-----------------------------------------------------------------------------
(* The invariant of the loops. *)

FileOk(k) == files[k] \in DOMAIN input.disk /\ Checked(input.disk[files[k]])

ArgumentsOk ==
  /\ options.commit \in Commit \cup {""} /\ options.platform \in Platform \cup {""}
  /\ files # <<>>

\* Reports before the one at hand conform, and this one as far as it was read.
Validated ==
  /\ pc = "arguments" => file = 0
  /\ pc \in ReportLoops \cup {"files"} => ArgumentsOk
  /\ pc = "files" => \A k \in 1..file : FileOk(k)
  /\ pc \in ReportLoops => (\A k \in 1..(file - 1) : FileOk(k)) /\ HeaderOk(report)
  /\ pc = "p0" => /\ P0To(report, at - 1) /\ at <= Len(report.p0) + 1
                  /\ found = {Entry(report.p0[i]) : i \in 1..(at - 1)}
  /\ pc = "catalog" => /\ P0To(report, Len(report.p0))
                       /\ \A k \in 1..(at - 1) : Met(report, k)
                       /\ at <= Len(Catalog) + 1
                       /\ found = {Entry(report.p0[i]) : i \in Unasked(report, at - 1)}
  /\ pc \in {"scenarios", "resources", "audio"} => P0Checked(report)
  /\ pc = "scenarios" => /\ ScenariosTo(report, at - 1) /\ at <= Len(report.scenarios) + 1
                         /\ found = {Entry(report.scenarios[i]) : i \in 1..(at - 1)}
  /\ pc \in {"resources", "audio"} => ScenariosConform(report)
  /\ pc = "resources" => /\ ResourcesTo(report, at - 1) /\ at <= Len(report.resources) + 1
                         /\ Ids = {report.resources[i].name : i \in 1..(at - 1)}
  /\ pc = "audio" => /\ ResourcesChecked(report) /\ at <= Len(report.audio) + 1
                     /\ \A i \in 1..(at - 1) : ClaimOk(report.audio[i])
  /\ AcceptedChecked /\ RejectedChecked

\* Only the options of the run decide whether a report conforms.
LEMMA SameOptions ==
  ASSUME UNCHANGED <<input, options>>
  PROVE  /\ UNCHANGED files /\ (ArgumentsOk' <=> ArgumentsOk)
         /\ \A r : (HeaderOk(r)' <=> HeaderOk(r)) /\ (Checked(r)' <=> Checked(r))
         /\ \A k : (FileOk(k)' <=> FileOk(k))
BY DEF files, ArgumentsOk, HeaderOk, Checked, FileOk, P0Checked, ScenariosConform,
       ResourcesChecked, AudioChecked

\* A complaint about the report at hand.
LEMMA Complaint ==
  ASSUME Typed, Validated, pc \in ReportLoops, Reject, ~Checked(report)
  PROVE  Validated'
<1>1. file \in DOMAIN files
  BY DEF Typed, TypeOK, Located, files
<1>2. /\ pc' = "end" /\ verdict' = "rejected" /\ UNCHANGED <<input, at, options, file, found>>
  BY DEF Reject
<1>3. UNCHANGED <<files, Reported>> /\ \A k : (FileOk(k)' <=> FileOk(k))
  BY <1>2, SameOptions DEF files, Reported
<1>4. ~FileOk(file)
  BY <1>1 DEF FileOk, report
<1>5. RejectedChecked'
  <2>1. SUFFICES ~ \A k \in DOMAIN files' : FileOk(k)'
    BY DEF RejectedChecked, FileOk, Reported
  <2>2. QED
    BY <1>1, <1>3, <1>4
<1>6. QED
  BY <1>2, <1>5 DEF Validated, ReportLoops, AcceptedChecked

(* A turn or the end of a loop, with the report as it is. *)
LEMMA GoesOn ==
  ASSUME Typed, Validated, UNCHANGED <<input, options, file, verdict>>,
         pc \in ReportLoops, pc' \in ReportLoops
  PROVE  /\ UNCHANGED <<files, report>> /\ ArgumentsOk' /\ HeaderOk(report)'
         /\ \A k \in 1..(file' - 1) : FileOk(k)'
         /\ AcceptedChecked' /\ RejectedChecked'
<1>1. UNCHANGED <<files, report>>
  BY DEF files, report
<1>2. verdict = "none"
  BY DEF Typed, Located, ReportLoops
<1>3. QED
  BY <1>1, <1>2, SameOptions DEF Validated, AcceptedChecked, RejectedChecked, ReportLoops

LEMMA IdsOf ==
  ASSUME NEW q, NEW n, found = {Entry(q[i]) : i \in 1..n}
  PROVE  Ids = {q[i].id : i \in 1..n}
<1>1. \A x : Entry(x).id = x.id
  BY DEF Entry
<1>2. QED
  BY <1>1 DEF Ids

LEMMA P0ItemValidated ==
  ASSUME Typed, Validated, P0Item
  PROVE  Validated'
<1> DEFINE item == report.p0[at]
<1>1. /\ pc = "p0" /\ pc \in ReportLoops /\ at \in Nat \ {0} /\ at <= Len(report.p0)
      /\ report \in Report /\ P0To(report, at - 1)
      /\ found = {Entry(report.p0[i]) : i \in 1..(at - 1)}
  BY ReportType DEF P0Item, Typed, TypeOK, ReportLoops, Validated
<1>2. Ids = {report.p0[i].id : i \in 1..(at - 1)}
  BY <1>1, IdsOf
<1>3. P0To(report, at) <=> item.id \notin Ids /\ ItemOk(item)
  BY <1>1, <1>2, P0One
<1>4. CASE item.id \notin Ids /\ ItemOk(item)
  <2>1. Turn /\ found' = found \cup {Entry(item)}
    BY <1>4 DEF P0Item, Entry
  <2>2. /\ at' = at + 1 /\ pc' = pc /\ UNCHANGED <<input, options, file, verdict>>
    BY <2>1 DEF Turn
  <2>3. found' = {Entry(report.p0[i]) : i \in 1..(at' - 1)}
    BY <1>1, <2>1, <2>2, OneMore
  <2>4. at' - 1 = at /\ at' <= Len(report.p0) + 1
    BY <1>1, <2>2, ReportLists
  <2>5. P0To(report, at' - 1)
    BY <1>3, <1>4, <2>4
  <2>6. QED
    BY <1>1, <2>2, <2>3, <2>4, <2>5, GoesOn DEF Validated, ReportLoops
<1>5. CASE ~(item.id \notin Ids /\ ItemOk(item))
  <2>1. Reject
    BY <1>5 DEF P0Item
  <2>2. ~P0To(report, Len(report.p0))
    <3>1. at \in 1..Len(report.p0) /\ 1..at \subseteq 1..Len(report.p0)
      BY <1>1, ReportLists
    <3>2. QED
      BY <1>3, <1>5, <3>1 DEF P0To
  <2>3. ~Checked(report)
    BY <1>1, <2>2, P0Means DEF Checked
  <2>4. QED
    BY <1>1, <2>1, <2>3, Complaint
<1>6. QED
  BY <1>4, <1>5

LEMMA P0ItemsEndValidated ==
  ASSUME Typed, Validated, P0ItemsEnd
  PROVE  Validated'
<1>1. /\ pc = "p0" /\ pc' = "catalog" /\ pc \in ReportLoops /\ pc' \in ReportLoops
      /\ at \in Nat \ {0} /\ at > Len(report.p0) /\ at <= Len(report.p0) + 1
      /\ at' = 1 /\ found' = found /\ UNCHANGED <<input, options, file, verdict>>
      /\ report \in Report /\ P0To(report, at - 1)
      /\ found = {Entry(report.p0[i]) : i \in 1..(at - 1)}
  BY ReportType DEF P0ItemsEnd, Typed, TypeOK, ReportLoops, Validated
<1>2. at - 1 = Len(report.p0)
  BY <1>1, ReportLists
<1>3. 1..(1 - 1) = {} /\ 1 <= Len(Catalog) + 1
  BY CatalogList
<1>4. Unasked(report, 1 - 1) = 1..Len(report.p0)
  BY <1>1, <1>3, ReportLists DEF Unasked
<1>5. /\ P0To(report, Len(report.p0)) /\ \A k \in 1..(1 - 1) : Met(report, k)
      /\ found = {Entry(report.p0[i]) : i \in Unasked(report, 1 - 1)}
  BY <1>1, <1>2, <1>3, <1>4
<1>6. QED
  BY <1>1, <1>3, <1>5, GoesOn DEF Validated, ReportLoops

LEMMA P0RequirementValidated ==
  ASSUME Typed, Validated, P0Requirement
  PROVE  Validated'
<1> DEFINE q           == Catalog[at]
           disposition == Disposition(q.scope, report.platform)
           results     == Results(found, at)
           reported    == Mentions(report, at)
           fits        == /\ disposition # "unknown"
                          /\ results = {} <=> disposition = "not-applicable"
                          /\ disposition = "required" => \A e \in results : e.result = "pass"
<1>1. /\ pc = "catalog" /\ pc \in ReportLoops /\ at \in Nat \ {0} /\ at <= Len(Catalog)
      /\ report \in Report /\ at \in 1..Len(Catalog)
      /\ found = {Entry(report.p0[i]) : i \in Unasked(report, at - 1)}
      /\ P0To(report, Len(report.p0)) /\ \A k \in 1..(at - 1) : Met(report, k)
  BY ReportType, CatalogList DEF P0Requirement, Typed, TypeOK, ReportLoops, Validated
<1>2. /\ results = {} <=> reported = {}
      /\ (\A e \in results : e.result = "pass") <=> \A i \in reported : report.p0[i].result = "pass"
      /\ found \ results = Left(report, at)
  <2>1. report \in Report /\ at \in 1..Len(Catalog)
    BY <1>1
  <2>2. found = Left(report, at - 1)
    BY <1>1 DEF Left
  <2>3. QED
    BY ONLY <2>1, <2>2, UnaskedOne
<1>3. Met(report, at) <=> fits
  BY <1>2 DEF Met, Mentions
<1>4. CASE fits
  <2>1. Turn /\ found' = found \ results
    BY <1>4 DEF P0Requirement, Results
  <2>2. /\ at' = at + 1 /\ pc' = pc /\ UNCHANGED <<input, options, file, verdict>>
    BY <2>1 DEF Turn
  <2>3. at' - 1 = at /\ at' <= Len(Catalog) + 1
    BY <1>1, <2>2, CatalogList
  <2>4. \A k \in 1..(at' - 1) : Met(report, k)
    <3>1. 1..(at' - 1) = (1..(at - 1)) \cup {at} /\ Met(report, at)
      BY <1>1, <1>3, <1>4, <2>3, OneMore
    <3> HIDE DEF fits, q, results, reported, disposition
    <3>2. QED
      BY <1>1, <3>1
  <2>5. found' = {Entry(report.p0[i]) : i \in Unasked(report, at' - 1)}
    BY <1>2, <2>1, <2>3 DEF Left
  <2>6. QED
    BY <1>1, <2>2, <2>3, <2>4, <2>5, GoesOn DEF Validated, ReportLoops
<1>5. CASE ~fits
  <2>1. Reject
    BY <1>5 DEF P0Requirement, Results
  <2>2. ~Checked(report)
    BY <1>1, <1>3, <1>5, P0Means DEF Checked
  <2>3. QED
    BY <1>1, <2>1, <2>2, Complaint
<1>6. QED
  BY <1>4, <1>5

(* Entering a loop with an empty Map. *)
LEMMA Empty == /\ 1..(1 - 1) = {} /\ \A q : {Entry(q[i]) : i \in 1..(1 - 1)} = {}
               /\ \A q : {q[i].name : i \in 1..(1 - 1)} = {}
               /\ \A r : ScenariosTo(r, 1 - 1) /\ ResourcesTo(r, 1 - 1) /\ P0To(r, 1 - 1)
BY DEF ScenariosTo, ResourcesTo, P0To

LEMMA P0LeftoversValidated ==
  ASSUME Typed, Validated, P0Leftovers
  PROVE  Validated'
<1>1. /\ pc = "catalog" /\ pc \in ReportLoops /\ at \in Nat \ {0} /\ at > Len(Catalog)
      /\ report \in Report /\ at <= Len(Catalog) + 1
      /\ found = {Entry(report.p0[i]) : i \in Unasked(report, at - 1)}
      /\ P0To(report, Len(report.p0)) /\ \A k \in 1..(at - 1) : Met(report, k)
  BY ReportType DEF P0Leftovers, Typed, TypeOK, ReportLoops, Validated
<1>2. at - 1 = Len(Catalog)
  BY <1>1, CatalogList
<1>3. P0Checked(report) <=> found = {}
  BY <1>1, <1>2, P0Means
<1>4. CASE found = {}
  <2>1. Enter("scenarios") /\ file' = file
    BY <1>4 DEF P0Leftovers
  <2>2. /\ pc' = "scenarios" /\ at' = 1 /\ found' = {}
        /\ UNCHANGED <<input, options, file, verdict>>
    BY <2>1 DEF Enter
  <2>3. 1 <= Len(report.scenarios) + 1
    BY <1>1, ReportLists
  <2>4. QED
    BY <1>1, <1>3, <1>4, <2>2, <2>3, Empty, GoesOn DEF Validated, ReportLoops
<1>5. CASE found # {}
  <2>1. Reject
    BY <1>5 DEF P0Leftovers
  <2>2. QED
    BY <1>1, <1>3, <1>5, <2>1, Complaint DEF Checked
<1>6. QED
  BY <1>4, <1>5

LEMMA ScenarioValidated ==
  ASSUME Typed, Validated, Scenario
  PROVE  Validated'
<1> DEFINE s  == report.scenarios[at]
           ok == s.id \notin Ids /\ s.result = "pass" /\ s.evidence
<1>1. /\ pc = "scenarios" /\ pc \in ReportLoops /\ at \in Nat \ {0}
      /\ at <= Len(report.scenarios)
      /\ report \in Report /\ ScenariosTo(report, at - 1) /\ P0Checked(report)
      /\ found = {Entry(report.scenarios[i]) : i \in 1..(at - 1)}
  BY ReportType DEF Scenario, Typed, TypeOK, ReportLoops, Validated
<1>2. Ids = {report.scenarios[i].id : i \in 1..(at - 1)}
  BY <1>1, IdsOf
<1>3. ScenariosTo(report, at) <=> ok
  BY <1>1, <1>2, ScenariosOne
<1>4. CASE ok
  <2>1. Turn /\ found' = found \cup {Entry(s)}
    BY <1>4 DEF Scenario, Entry
  <2>2. /\ at' = at + 1 /\ pc' = pc /\ UNCHANGED <<input, options, file, verdict>>
    BY <2>1 DEF Turn
  <2>3. found' = {Entry(report.scenarios[i]) : i \in 1..(at' - 1)}
    BY <1>1, <2>1, <2>2, OneMore
  <2>4. at' - 1 = at /\ at' <= Len(report.scenarios) + 1
    BY <1>1, <2>2, ReportLists
  <2>5. ScenariosTo(report, at' - 1)
    BY <1>3, <1>4, <2>4
  <2>6. QED
    BY <1>1, <2>2, <2>3, <2>4, <2>5, GoesOn DEF Validated, ReportLoops
<1>5. CASE ~ok
  <2>1. Reject
    BY <1>5 DEF Scenario
  <2>2. ~ScenariosTo(report, Len(report.scenarios))
    <3>1. at \in 1..Len(report.scenarios) /\ 1..at \subseteq 1..Len(report.scenarios)
      BY <1>1, ReportLists
    <3>2. QED
      BY <1>3, <1>5, <3>1 DEF ScenariosTo
  <2>3. ~Checked(report)
    BY <1>1, <2>2, ScenariosMean DEF Checked
  <2>4. QED
    BY <1>1, <2>1, <2>3, Complaint
<1>6. QED
  BY <1>4, <1>5

LEMMA ScenariosEndValidated ==
  ASSUME Typed, Validated, ScenariosEnd
  PROVE  Validated'
<1>1. /\ pc = "scenarios" /\ pc \in ReportLoops /\ at \in Nat \ {0}
      /\ at > Len(report.scenarios) /\ at <= Len(report.scenarios) + 1
      /\ report \in Report /\ ScenariosTo(report, at - 1) /\ P0Checked(report)
      /\ found = {Entry(report.scenarios[i]) : i \in 1..(at - 1)}
  BY ReportType DEF ScenariosEnd, Typed, TypeOK, ReportLoops, Validated
<1>2. at - 1 = Len(report.scenarios)
  BY <1>1, ReportLists
<1>3. ScenariosConform(report) <=> RequiredScenarios \subseteq Ids
  BY <1>1, <1>2, ScenariosMean, IdsOf
<1>4. CASE RequiredScenarios \subseteq Ids
  <2>1. Enter("resources") /\ file' = file
    BY <1>4 DEF ScenariosEnd
  <2>2. /\ pc' = "resources" /\ at' = 1 /\ found' = {}
        /\ UNCHANGED <<input, options, file, verdict>>
    BY <2>1 DEF Enter
  <2>3. 1 <= Len(report.resources) + 1 /\ Ids' = {}
    BY <1>1, <2>2, ReportLists DEF Ids
  <2>4. QED
    BY <1>1, <1>3, <1>4, <2>2, <2>3, Empty, GoesOn DEF Validated, ReportLoops
<1>5. CASE ~(RequiredScenarios \subseteq Ids)
  <2>1. Reject
    BY <1>5 DEF ScenariosEnd
  <2>2. QED
    BY <1>1, <1>3, <1>5, <2>1, Complaint DEF Checked
<1>6. QED
  BY <1>4, <1>5

LEMMA ResourceValidated ==
  ASSUME Typed, Validated, Resource
  PROVE  Validated'
<1> DEFINE m  == report.resources[at]
           ok == m.name \notin Ids /\ MetricOk(m)
<1>1. /\ pc = "resources" /\ pc \in ReportLoops /\ at \in Nat \ {0}
      /\ at <= Len(report.resources)
      /\ report \in Report /\ ResourcesTo(report, at - 1)
      /\ P0Checked(report) /\ ScenariosConform(report)
      /\ Ids = {report.resources[i].name : i \in 1..(at - 1)}
  BY ReportType DEF Resource, Typed, TypeOK, ReportLoops, Validated
<1>2. ResourcesTo(report, at) <=> ok
  BY <1>1, ResourcesOne
<1>3. CASE ok
  <2>1. Turn /\ found' = found \cup {[id |-> m.name, result |-> "pass"]}
    BY <1>3 DEF Resource
  <2>2. /\ at' = at + 1 /\ pc' = pc /\ UNCHANGED <<input, options, file, verdict>>
    BY <2>1 DEF Turn
  <2>3. Ids' = Ids \cup {m.name}
    <3> HIDE DEF m
    <3>1. [id |-> m.name, result |-> "pass"].id = m.name
      OBVIOUS
    <3>2. QED
      BY <2>1, <3>1 DEF Ids
  <2>4. Ids' = {report.resources[i].name : i \in 1..(at' - 1)}
    BY <1>1, <2>2, <2>3, OneMore
  <2>5. at' - 1 = at /\ at' <= Len(report.resources) + 1
    BY <1>1, <2>2, ReportLists
  <2>6. ResourcesTo(report, at' - 1)
    BY <1>2, <1>3, <2>5
  <2>7. QED
    BY <1>1, <2>2, <2>4, <2>5, <2>6, GoesOn DEF Validated, ReportLoops
<1>4. CASE ~ok
  <2>1. Reject
    BY <1>4 DEF Resource
  <2>2. ~ResourcesTo(report, Len(report.resources))
    <3>1. at \in 1..Len(report.resources) /\ 1..at \subseteq 1..Len(report.resources)
      BY <1>1, ReportLists
    <3>2. QED
      BY <1>2, <1>4, <3>1 DEF ResourcesTo
  <2>3. ~Checked(report)
    BY <1>1, <2>2, ResourcesMean DEF Checked
  <2>4. QED
    BY <1>1, <2>1, <2>3, Complaint
<1>5. QED
  BY <1>3, <1>4

LEMMA ResourcesEndValidated ==
  ASSUME Typed, Validated, ResourcesEnd
  PROVE  Validated'
<1>1. /\ pc = "resources" /\ pc \in ReportLoops /\ at \in Nat \ {0}
      /\ at > Len(report.resources) /\ at <= Len(report.resources) + 1
      /\ report \in Report /\ ResourcesTo(report, at - 1)
      /\ P0Checked(report) /\ ScenariosConform(report)
      /\ Ids = {report.resources[i].name : i \in 1..(at - 1)}
  BY ReportType DEF ResourcesEnd, Typed, TypeOK, ReportLoops, Validated
<1>2. at - 1 = Len(report.resources)
  BY <1>1, ReportLists
<1>3. ResourcesChecked(report) <=> RequiredResources \subseteq Ids
  BY <1>1, <1>2, ResourcesMean
<1>4. CASE RequiredResources \subseteq Ids
  <2>1. Enter("audio") /\ file' = file
    BY <1>4 DEF ResourcesEnd
  <2>2. /\ pc' = "audio" /\ at' = 1 /\ UNCHANGED <<input, options, file, verdict>>
    BY <2>1 DEF Enter
  <2>3. 1 <= Len(report.audio) + 1
    BY <1>1, ReportLists
  <2>4. QED
    BY <1>1, <1>3, <1>4, <2>2, <2>3, Empty, GoesOn DEF Validated, ReportLoops
<1>5. CASE ~(RequiredResources \subseteq Ids)
  <2>1. Reject
    BY <1>5 DEF ResourcesEnd
  <2>2. QED
    BY <1>1, <1>3, <1>5, <2>1, Complaint DEF Checked
<1>6. QED
  BY <1>4, <1>5

LEMMA AudioClaimValidated ==
  ASSUME Typed, Validated, AudioClaim
  PROVE  Validated'
<1>1. /\ pc = "audio" /\ pc \in ReportLoops /\ at \in Nat \ {0} /\ at <= Len(report.audio)
      /\ report \in Report /\ \A i \in 1..(at - 1) : ClaimOk(report.audio[i])
      /\ P0Checked(report) /\ ScenariosConform(report) /\ ResourcesChecked(report)
  BY ReportType DEF AudioClaim, Typed, TypeOK, ReportLoops, Validated
<1>2. CASE ClaimOk(report.audio[at])
  <2>1. /\ at' = at + 1 /\ pc' = pc /\ UNCHANGED <<input, options, file, verdict>>
    BY <1>2 DEF AudioClaim, Turn
  <2>2. at' - 1 = at /\ at' <= Len(report.audio) + 1
    BY <1>1, <2>1, ReportLists
  <2>3. \A i \in 1..(at' - 1) : ClaimOk(report.audio[i])
    BY <1>1, <1>2, <2>2, OneMore
  <2>4. QED
    BY <1>1, <2>1, <2>2, <2>3, GoesOn DEF Validated, ReportLoops
<1>3. CASE ~ClaimOk(report.audio[at])
  <2>1. Reject
    BY <1>3 DEF AudioClaim
  <2>2. at \in 1..Len(report.audio)
    BY <1>1, ReportLists
  <2>3. ~Checked(report)
    BY <1>1, <1>3, <2>2, AudioMeans DEF Checked
  <2>4. QED
    BY <1>1, <2>1, <2>3, Complaint
<1>4. QED
  BY <1>2, <1>3

LEMMA AudioEndValidated ==
  ASSUME Typed, Validated, AudioEnd
  PROVE  Validated'
<1>1. /\ pc = "audio" /\ pc \in ReportLoops /\ at \in Nat \ {0} /\ at > Len(report.audio)
      /\ at <= Len(report.audio) + 1 /\ HeaderOk(report) /\ ArgumentsOk
      /\ report \in Report /\ \A i \in 1..(at - 1) : ClaimOk(report.audio[i])
      /\ P0Checked(report) /\ ScenariosConform(report) /\ ResourcesChecked(report)
      /\ \A k \in 1..(file - 1) : FileOk(k)
      /\ file \in 1..Len(files) /\ files[file] \in DOMAIN input.disk /\ verdict = "none"
  BY ReportType DEF AudioEnd, Typed, TypeOK, Located, ReportLoops, Validated
<1>2. at - 1 = Len(report.audio)
  BY <1>1, ReportLists
<1>3. AudioChecked(report) <=> report.audio # <<>>
  BY <1>1, <1>2, AudioMeans
<1>4. CASE report.audio # <<>>
  <2>1. Enter("files") /\ file' = file
    BY <1>4 DEF AudioEnd
  <2>2. /\ pc' = "files" /\ UNCHANGED <<input, options, file, verdict>>
    BY <2>1 DEF Enter
  <2>3. FileOk(file)
    BY <1>1, <1>3, <1>4 DEF FileOk, Checked, report
  <2>4. \A k \in 1..file : FileOk(k)
    <3>1. file \in Nat \ {0}
      BY <1>1 DEF Typed, TypeOK
    <3>2. QED
      BY <1>1, <2>3, <3>1, OneMore
  <2>5. /\ ArgumentsOk' /\ \A k \in 1..file' : FileOk(k)'
        /\ AcceptedChecked' /\ RejectedChecked'
    BY <1>1, <2>2, <2>4, SameOptions DEF AcceptedChecked, RejectedChecked
  <2>6. QED
    BY <2>2, <2>5 DEF Validated, ReportLoops
<1>5. CASE report.audio = <<>>
  <2>1. Reject
    BY <1>5 DEF AudioEnd
  <2>2. QED
    BY <1>1, <1>3, <1>5, <2>1, Complaint DEF Checked
<1>6. QED
  BY <1>4, <1>5

-----------------------------------------------------------------------------
(* Between the reports. *)

\* The two ways to say that every platform has one report.
LEMMA CountOne ==
  ASSUME NEW n \in Nat, NEW F \in [1..n -> Platform],
         \A p \in Platform : \E k \in 1..n : F[k] = p,
         \A i, j \in 1..n : F[i] = F[j] => i = j
  PROVE  n = Cardinality(Platform)
<1>1. F \in Bijection(1..n, Platform)
  BY Fun_IsBij
<1>2. ExistsBijection(1..n, Platform)
  BY <1>1 DEF ExistsBijection
<1>3. IsFiniteSet(1..n) /\ Cardinality(1..n) = n
  BY FS_Interval
<1>4. QED
  BY <1>2, <1>3, FS_Bijection

LEMMA CountSame ==
  ASSUME NEW n \in Nat \ {0}, NEW T, NEW G \in [1..n -> T]
  PROVE  Cardinality({G[k] : k \in 1..n}) = 1 <=> \A i, j \in 1..n : G[i] = G[j]
<1> DEFINE C == {G[k] : k \in 1..n}
<1>1. G \in [1..n -> C] /\ \A t \in C : \E s \in 1..n : G[s] = t
  OBVIOUS
<1>2. G \in Surjection(1..n, C)
  BY <1>1, Fun_IsSurj
<1>3. IsFiniteSet(1..n)
  BY FS_Interval
<1>4. IsFiniteSet(C)
  BY <1>2, <1>3, FS_Surjection
<1>5. Cardinality(C) = 1 <=> \E x : C = {x}
  BY <1>4, FS_Singleton
<1>6. (\E x : C = {x}) <=> \A i, j \in 1..n : G[i] = G[j]
  <2>1. ASSUME NEW x, C = {x} PROVE \A i, j \in 1..n : G[i] = G[j]
    BY <2>1
  <2>2. ASSUME \A i, j \in 1..n : G[i] = G[j] PROVE C = {G[1]}
    BY <2>2
  <2>3. QED
    BY <2>1, <2>2
<1>7. QED
  BY <1>5, <1>6

LEMMA AllMeans ==
  ASSUME Typed, files # <<>>, \A k \in 1..Len(files) : FileOk(k)
  PROVE  AllReported <=> OnePerPlatform
<1> DEFINE n == Len(files)
           P == [k \in 1..n |-> Reported[k].platform]
           G == [k \in 1..n |-> Reported[k].commit]
<1>1. files \in Seq(Text) /\ n \in Nat \ {0} /\ DOMAIN files = 1..n
  BY DEF Typed, TypeOK, files
<1>2. \A k \in 1..n : Reported[k] = input.disk[files[k]]
  BY <1>1 DEF Reported
<1>3. \A k \in 1..n : HeaderOk(Reported[k])
  BY <1>2 DEF FileOk, Checked
<1>4. \A k \in 1..n : Reported[k].platform \in Platform /\ Reported[k].commit \in Commit
  BY <1>3 DEF HeaderOk
<1>5. P \in [1..n -> Platform] /\ G \in [1..n -> Commit]
  BY <1>4
<1>6. ASSUME \A p \in Platform : \E k \in 1..n : P[k] = p,
             \A i, j \in 1..n : P[i] = P[j] => i = j
      PROVE  n = Cardinality(Platform)
  <2> HIDE DEF n, P, G
  <2>1. QED
    BY <1>1, <1>5, <1>6, CountOne
<1>7. Cardinality({G[k] : k \in 1..n}) = 1 <=> \A i, j \in 1..n : G[i] = G[j]
  <2> HIDE DEF n, P, G
  <2>1. QED
    BY <1>1, <1>5, CountSame
<1>8. {G[k] : k \in 1..n} = {Reported[k].commit : k \in DOMAIN files}
  BY <1>1
<1>9. (\A p \in Platform : \E k \in 1..n : P[k] = p)
        <=> \A p \in Platform : \E k \in DOMAIN files : Reported[k].platform = p
  BY <1>1
<1>10. (\A p \in Platform : \E k \in DOMAIN files : Reported[k].platform = p)
         <=> Platform \subseteq {Reported[k].platform : k \in DOMAIN files}
  OBVIOUS
<1>11. (\A i, j \in 1..n : P[i] = P[j] => i = j)
         <=> \A i, j \in DOMAIN files : Reported[i].platform = Reported[j].platform => i = j
  BY <1>1
<1>12. (\A i, j \in 1..n : G[i] = G[j])
         <=> \A i, j \in DOMAIN files : Reported[i].commit = Reported[j].commit
  BY <1>1
<1>13. QED
  BY <1>6, <1>7, <1>8, <1>9, <1>10, <1>11, <1>12 DEF AllReported, OnePerPlatform

LEMMA ArgumentsEndValidated ==
  ASSUME Typed, Validated, ArgumentsEnd
  PROVE  Validated'
<1>1. pc = "arguments" /\ verdict = "none" /\ file = 0
  BY DEF ArgumentsEnd, Typed, Located, Validated
<1>2. CASE ArgumentsOk
  <2>1. Enter("files") /\ UNCHANGED file
    BY <1>2 DEF ArgumentsEnd, ArgumentsOk
  <2>2. pc' = "files" /\ UNCHANGED <<input, options, file, verdict>>
    BY <2>1 DEF Enter
  <2>3. ArgumentsOk'
    BY <1>2, <2>2, SameOptions
  <2>4. \A k \in 1..file' : FileOk(k)'
    BY <1>1, <2>2
  <2>5. QED
    BY <1>1, <2>2, <2>3, <2>4 DEF Validated, ReportLoops, AcceptedChecked, RejectedChecked
<1>3. CASE ~ArgumentsOk
  <2>1. Reject
    BY <1>3 DEF ArgumentsEnd, ArgumentsOk
  <2>2. pc' = "end" /\ verdict' = "rejected" /\ UNCHANGED <<input, options>>
    BY <2>1 DEF Reject
  <2>3. ~ArgumentsOk'
    BY <1>3, <2>2, SameOptions
  <2>4. RejectedChecked' /\ AcceptedChecked'
    BY <2>2, <2>3 DEF RejectedChecked, AcceptedChecked, ArgumentsOk
  <2>5. QED
    BY <2>2, <2>4 DEF Validated, ReportLoops
<1>4. QED
  BY <1>2, <1>3

LEMMA HeaderValidated ==
  ASSUME Typed, Validated, Header
  PROVE  Validated'
<1> DEFINE next == file + 1
<1>1. /\ pc = "files" /\ verdict = "none" /\ ArgumentsOk /\ file \in Nat
      /\ file < Len(files) /\ files \in Seq(Text) /\ \A k \in 1..file : FileOk(k)
  BY DEF Header, Typed, TypeOK, Located, Validated, files
<1>2. next \in DOMAIN files /\ next - 1 = file
  BY <1>1
<1>3. CASE files[next] \in DOMAIN input.disk /\ HeaderOk(input.disk[files[next]])
  <2>1. Enter("p0") /\ file' = next
    BY <1>3 DEF Header
  <2>2. /\ pc' = "p0" /\ at' = 1 /\ found' = {} /\ UNCHANGED <<input, options, verdict>>
    BY <2>1 DEF Enter
  <2>3. report' = input.disk[files[next]] /\ UNCHANGED files
    BY <2>1, <2>2 DEF report, files
  <2>4. ArgumentsOk' /\ HeaderOk(report)'
    BY <1>1, <1>3, <2>2, <2>3, SameOptions DEF HeaderOk
  <2>5. \A k \in 1..(file' - 1) : FileOk(k)'
    BY <1>1, <1>2, <2>1, <2>2, SameOptions
  <2>6. report' \in Report
    BY <1>3, <2>3, InputAssumption DEF Typed, Located
  <2>7. P0To(report', at' - 1) /\ at' <= Len(report'.p0) + 1
    <3>1. at' - 1 = 0 /\ 1..(at' - 1) = {}
      BY <2>2
    <3>2. Len(report'.p0) \in Nat
      BY <2>6 DEF Report
    <3>3. QED
      BY <2>2, <3>1, <3>2 DEF P0To
  <2>8. found' = {Entry(report'.p0[i]) : i \in 1..(at' - 1)}
    BY <2>2
  <2>9. QED
    BY <1>1, <2>2, <2>4, <2>5, <2>7, <2>8
       DEF Validated, ReportLoops, AcceptedChecked, RejectedChecked
<1>4. CASE ~(files[next] \in DOMAIN input.disk /\ HeaderOk(input.disk[files[next]]))
  <2>1. Reject
    BY <1>4 DEF Header
  <2>2. pc' = "end" /\ verdict' = "rejected" /\ UNCHANGED <<input, options, file>>
    BY <2>1 DEF Reject
  <2>3. ~FileOk(next)'
    <3>1. ~FileOk(next)
      BY <1>4 DEF FileOk, Checked
    <3>2. QED
      BY <2>2, <3>1, SameOptions
  <2>4. UNCHANGED <<files, Reported>>
    BY <2>2 DEF files, Reported
  <2>5. RejectedChecked' /\ AcceptedChecked'
    <3>1. ~ \A k \in DOMAIN files' : FileOk(k)'
      BY <1>2, <2>2, <2>3, <2>4
    <3>2. QED
      BY <2>2, <3>1 DEF RejectedChecked, AcceptedChecked, FileOk, Reported
  <2>6. QED
    BY <2>2, <2>5 DEF Validated, ReportLoops
<1>5. QED
  BY <1>3, <1>4

LEMMA AllPlatformsValidated ==
  ASSUME Typed, Validated, AllPlatforms
  PROVE  Validated'
<1>1. /\ pc = "files" /\ ArgumentsOk /\ file = Len(files) /\ files \in Seq(Text)
      /\ \A k \in 1..Len(files) : FileOk(k)
  BY DEF AllPlatforms, Typed, TypeOK, Located, Validated, files
<1>2. AllReported <=> OnePerPlatform
  BY <1>1, AllMeans DEF ArgumentsOk
<1>3. pc' = "end" /\ UNCHANGED <<input, options>>
  BY DEF AllPlatforms, Reject
<1>4. UNCHANGED <<files, Reported>> /\ (OnePerPlatform' <=> OnePerPlatform)
  BY <1>3 DEF files, Reported, OnePerPlatform
<1>5. CASE options.all => AllReported
  <2>1. verdict' = "accepted"
    BY <1>5 DEF AllPlatforms
  <2>2. AcceptedChecked'
    <3>1. \A k \in DOMAIN files : files[k] \in DOMAIN input.disk /\ Checked(Reported[k])
      BY <1>1 DEF FileOk, Reported
    <3>2. \A k \in DOMAIN files' : files'[k] \in DOMAIN input'.disk /\ Checked(Reported[k])'
      BY <1>3, <1>4, <3>1, SameOptions
    <3>3. QED
      BY <1>1, <1>2, <1>3, <1>4, <1>5, <3>2 DEF AcceptedChecked, ArgumentsOk
  <2>3. QED
    BY <1>3, <2>1, <2>2 DEF Validated, ReportLoops, RejectedChecked
<1>6. CASE ~(options.all => AllReported)
  <2>1. Reject
    BY <1>6 DEF AllPlatforms
  <2>2. verdict' = "rejected"
    BY <2>1 DEF Reject
  <2>3. RejectedChecked' /\ AcceptedChecked'
    BY <1>2, <1>3, <1>4, <1>6, <2>2 DEF RejectedChecked, AcceptedChecked
  <2>4. QED
    BY <1>3, <2>3 DEF Validated, ReportLoops
<1>7. QED
  BY <1>5, <1>6

LEMMA AlwaysValidated == Spec => []Validated
<1>1. Init => Validated
  BY DEF Init, Validated, ReportLoops, AcceptedChecked, RejectedChecked
<1>2. ASSUME Typed, Validated, [Next]_vars PROVE Validated'
  <2>1. CASE Argument
    <3>1. pc = "arguments" /\ verdict = "none" /\ UNCHANGED <<pc, file, verdict>>
      BY <1>2, <2>1 DEF Argument, Typed, Located
    <3>2. QED
      BY <1>2, <3>1 DEF Validated, ReportLoops, AcceptedChecked, RejectedChecked
  <2>2. CASE ArgumentsEnd
    BY <1>2, <2>2, ArgumentsEndValidated
  <2>3. CASE Header
    BY <1>2, <2>3, HeaderValidated
  <2>4. CASE P0Item \/ P0ItemsEnd \/ P0Requirement \/ P0Leftovers
    BY <1>2, <2>4, P0ItemValidated, P0ItemsEndValidated, P0RequirementValidated,
       P0LeftoversValidated
  <2>5. CASE Scenario \/ ScenariosEnd \/ Resource \/ ResourcesEnd
    BY <1>2, <2>5, ScenarioValidated, ScenariosEndValidated, ResourceValidated,
       ResourcesEndValidated
  <2>6. CASE AudioClaim \/ AudioEnd
    BY <1>2, <2>6, AudioClaimValidated, AudioEndValidated
  <2>7. CASE AllPlatforms
    BY <1>2, <2>7, AllPlatformsValidated
  <2>8. CASE UNCHANGED vars
    <3>1. UNCHANGED <<input, pc, at, options, file, found, verdict>>
      BY <2>8 DEF vars
    <3>2. UNCHANGED <<files, report, Ids, Reported>>
      BY <3>1 DEF files, report, Ids, Reported
    <3>3. (AcceptedChecked' <=> AcceptedChecked) /\ (RejectedChecked' <=> RejectedChecked)
      <4>1. (\A k \in DOMAIN files : files[k] \in DOMAIN input.disk /\ Checked(Reported[k]))
              <=> \A k \in DOMAIN files : FileOk(k)
        BY DEF FileOk, Reported
      <4>2. (\A k \in DOMAIN files : files[k] \in DOMAIN input.disk /\ Checked(Reported[k]))'
              <=> \A k \in DOMAIN files' : FileOk(k)'
        BY DEF FileOk, Reported
      <4>3. (\A k \in DOMAIN files' : FileOk(k)') <=> \A k \in DOMAIN files : FileOk(k)
        BY <3>1, <3>2, SameOptions
      <4>4. OnePerPlatform' <=> OnePerPlatform
        BY <3>2 DEF OnePerPlatform
      <4>5. QED
        BY <3>1, <3>2, <4>1, <4>2, <4>3, <4>4 DEF AcceptedChecked, RejectedChecked
    <3>4. HeaderOk(report)' <=> HeaderOk(report)
      BY <3>1, <3>2, SameOptions DEF HeaderOk
    <3>5. QED
      BY <1>2, <3>1, <3>2, <3>3, <3>4, SameOptions DEF Validated
  <2>9. QED
    BY <1>2, <2>1, <2>2, <2>3, <2>4, <2>5, <2>6, <2>7, <2>8 DEF Next
<1>3. QED
  BY <1>1, <1>2, AlwaysTyped, PTL DEF Spec

(* The conditions of the steps are the protocol's: on either side of every *)
(* boundary they say the same, but for the tolerance of a regression.      *)
LEMMA ItemMeans ==
  ASSUME NEW item
  PROVE  ItemOk(item) <=> Documented(item)
BY DEF ItemOk, Documented

LEMMA ClaimMeans ==
  ASSUME NEW claim
  PROVE  ClaimOk(claim) <=> Honest(claim)
BY DEF ClaimOk, Honest

LEMMA HeaderMeans ==
  ASSUME NEW r
  PROVE  HeaderOk(r) <=> Identified(r)
BY DEF HeaderOk, Identified

LEMMA MetricMeans ==
  ASSUME NEW m, m.baseline \in Int, m.candidate \in Int, m.samples \in Int
  PROVE  (Measured(m, 0) => MetricOk(m)) /\ (MetricOk(m) => Measured(m, 1))
<1> DEFINE millionth == m.baseline \div 1000000
<1>1. millionth \in Int /\ (m.baseline > 0 => millionth >= 0)
  OBVIOUS
<1> HIDE DEF millionth
<1>2. \A k \in {0, 1} : Measured(m, k) <=>
        /\ m.samples > 4 /\ m.evidence /\ m.baseline > 0 /\ m.candidate >= 0
        /\ 100 * (m.candidate - m.baseline) <= 15 * m.baseline + k * millionth
  BY DEF Measured, millionth
<1>3. MetricOk(m) <=>
        /\ m.baseline > 0 /\ m.candidate >= 0 /\ ~(m.samples < 5) /\ m.evidence
        /\ ~(100 * (m.candidate - m.baseline) - 15 * m.baseline > millionth)
  BY DEF MetricOk, Excess, Tolerated, millionth
<1>4. QED
  BY <1>1, <1>2, <1>3

LEMMA CheckedMeans ==
  ASSUME NEW r \in Report
  PROVE  (Conforms(r, 0) => Checked(r)) /\ (Checked(r) => Conforms(r, 1))
<1>1. HeaderOk(r) <=> Identified(r)
  BY HeaderMeans
<1>2. P0Checked(r) <=> P0Conforms(r)
  BY ItemMeans DEF P0Checked, P0Conforms
<1>3. AudioChecked(r) <=> AudioConforms(r)
  BY ClaimMeans DEF AudioChecked, AudioConforms
<1>4. ASSUME NEW i \in DOMAIN r.resources
      PROVE  LET m == r.resources[i] IN
             (Measured(m, 0) => MetricOk(m)) /\ (MetricOk(m) => Measured(m, 1))
  <2>1. r.resources \in Seq([name : Text, baseline : Int, candidate : Int, samples : Int,
                             evidence : BOOLEAN])
    BY DEF Report
  <2>2. r.resources[i] \in [name : Text, baseline : Int, candidate : Int, samples : Int,
                            evidence : BOOLEAN]
    <3>1. i \in 1..Len(r.resources) /\ Len(r.resources) \in Nat
      BY ReportLists
    <3>2. i \in Nat \ {0} /\ i <= Len(r.resources)
      BY <3>1
    <3>3. QED
      BY <2>1, <3>2, Element
  <2>3. \A m \in [name : Text, baseline : Int, candidate : Int, samples : Int,
                  evidence : BOOLEAN] :
          (Measured(m, 0) => MetricOk(m)) /\ (MetricOk(m) => Measured(m, 1))
    <3> SUFFICES ASSUME NEW m \in [name : Text, baseline : Int, candidate : Int,
                                   samples : Int, evidence : BOOLEAN]
                 PROVE  (Measured(m, 0) => MetricOk(m)) /\ (MetricOk(m) => Measured(m, 1))
      OBVIOUS
    <3>1. m.baseline \in Int /\ m.candidate \in Int /\ m.samples \in Int
      OBVIOUS
    <3>2. QED
      BY <3>1, MetricMeans
  <2>4. QED
    BY <2>2, <2>3
<1>5. (ResourcesConform(r, 0) => ResourcesChecked(r))
      /\ (ResourcesChecked(r) => ResourcesConform(r, 1))
  BY <1>4 DEF ResourcesConform, ResourcesChecked
<1>6. QED
  BY <1>1, <1>2, <1>3, <1>5 DEF Checked, Conforms

LEMMA ReportsRead ==
  ASSUME Typed, NEW k \in DOMAIN files, files[k] \in DOMAIN input.disk
  PROVE  Reported[k] \in Report
BY InputAssumption DEF Typed, Located, Reported

LEMMA AlwaysChecked == Spec => []AcceptedChecked
<1>1. Validated => AcceptedChecked
  BY DEF Validated
<1>2. QED
  BY AlwaysValidated, <1>1, PTL

(* What the gate accepts conforms to the protocol: no order of turns, of items *)
(* or of reports and no boundary lets anything else through.                   *)
THEOREM Accepted == Spec => []AcceptedConforms
<1>1. Typed /\ Validated => AcceptedConforms
  BY ReportsRead, CheckedMeans DEF Validated, AcceptedChecked, AcceptedConforms
<1>2. QED
  BY AlwaysTyped, AlwaysValidated, <1>1, PTL

(* What the gate rejects does not conform: it turns no sound release away. *)
THEOREM Rejected == Spec => []RejectedForCause
<1>1. Typed /\ Validated => RejectedForCause
  BY ReportsRead, CheckedMeans DEF Validated, RejectedChecked, RejectedForCause
<1>2. QED
  BY AlwaysTyped, AlwaysValidated, <1>1, PTL

-----------------------------------------------------------------------------
(* The command line.  An option may take the next one for its value; the value *)
(* it has then is the name of an option, and no report bears such a name.      *)

Once == GivenOnce("--commit") /\ GivenOnce("--platform")

\* What parseArguments() has gone past.
Past(k) == k \in DOMAIN argv /\ (pc = "arguments" => k < at)

CommitRead == \A k : Past(k) /\ argv[k] = "--commit" =>
  options.commit = Value(k) \/ options.platform = "--commit"

FlagRead == \A k : Past(k) /\ argv[k] = "--require-all-platforms" =>
  options.all \/ "--require-all-platforms" \in {options.platform, options.commit}

ValuesRead ==
  /\ options.commit # "" => \E j : Past(j) /\ argv[j] = "--commit"
  /\ options.platform # "" => \E j : Past(j) /\ argv[j] = "--platform"

Read == Once => CommitRead /\ FlagRead /\ ValuesRead

LEMMA ArgumentRead ==
  ASSUME Typed, Read, Argument
  PROVE  Read'
<1> SUFFICES ASSUME Once' PROVE CommitRead' /\ FlagRead' /\ ValuesRead'
  BY DEF Read
<1>1. /\ argv \in Seq(Text) /\ at \in Nat \ {0} /\ at <= Len(argv) /\ pc = "arguments"
      /\ options \in OptionsType /\ UNCHANGED <<input, pc>> /\ Len(argv) \in Nat
  BY InputAssumption DEF Argument, Typed, TypeOK, Located, argv, OptionsType
<1>2. UNCHANGED argv /\ (\A k : Value(k)' = Value(k)) /\ Once
  BY <1>1 DEF argv, Value, Once, GivenOnce
<1>3. CommitRead /\ FlagRead /\ ValuesRead
  BY <1>2 DEF Read
<1>4. /\ \A k : Past(k) <=> k \in 1..(at - 1)
      /\ \A k : Past(k)' <=> k \in 1..Len(argv) /\ k < at'
  BY <1>1, <1>2 DEF Past
<1>5. /\ \A i, j \in 1..Len(argv) : argv[i] = "--commit" /\ argv[j] = "--commit" => i = j
      /\ \A i, j \in 1..Len(argv) : argv[i] = "--platform" /\ argv[j] = "--platform" => i = j
  BY <1>1, <1>2 DEF Once, GivenOnce
<1>6. \A k \in 1..Len(argv) : k = at + 1 => Value(at) = argv[k]
  <2>1. SUFFICES ASSUME NEW k \in 1..Len(argv), k = at + 1 PROVE Value(at) = argv[k]
    OBVIOUS
  <2>2. at < Len(argv)
    BY <1>1, <2>1
  <2>3. QED
    BY <2>1, <2>2 DEF Value
<1>7. CASE argv[at] = "--commit"
  <2>1. /\ options'.commit = Value(at) /\ options'.platform = options.platform
        /\ options'.all = options.all /\ at' = at + 2
    BY <1>1, <1>7 DEF Argument, OptionsType
  <2>2. \A k : Past(k)' => Past(k) \/ k = at \/ (k = at + 1 /\ k \in 1..Len(argv))
    BY <1>1, <1>4, <2>1
  <2>3. \A k : k = at \/ Past(k) => Past(k)' /\ k \in 1..Len(argv)
    BY <1>1, <1>4, <2>1
  <2>4. \A k : Past(k)' /\ argv[k] = "--commit" => k = at
    BY <1>1, <1>4, <1>5, <1>7
  <2>5. options.commit = ""
    <3>1. at \in 1..Len(argv) /\ \A k : Past(k) => k \in 1..Len(argv) /\ k # at
      BY <1>1, <1>4
    <3>2. \A k : Past(k) => argv[k] # "--commit"
      BY <1>5, <1>7, <3>1
    <3>3. QED
      BY <1>3, <3>2 DEF ValuesRead
  <2>6. CommitRead'
    BY <1>2, <2>1, <2>4 DEF CommitRead
  <2>7. FlagRead'
    BY <1>2, <1>3, <1>6, <1>7, <2>1, <2>2, <2>5 DEF FlagRead
  <2>8. ValuesRead'
    BY <1>2, <1>3, <1>7, <2>1, <2>3 DEF ValuesRead
  <2>9. QED
    BY <2>6, <2>7, <2>8
<1>8. CASE argv[at] = "--platform"
  <2>1. /\ options'.platform = Value(at) /\ options'.commit = options.commit
        /\ options'.all = options.all /\ at' = at + 2
    BY <1>1, <1>8 DEF Argument, OptionsType
  <2>2. \A k : Past(k)' => Past(k) \/ k = at \/ (k = at + 1 /\ k \in 1..Len(argv))
    BY <1>1, <1>4, <2>1
  <2>3. \A k : k = at \/ Past(k) => Past(k)' /\ k \in 1..Len(argv)
    BY <1>1, <1>4, <2>1
  <2>4. options.platform = ""
    <3>1. at \in 1..Len(argv) /\ \A k : Past(k) => k \in 1..Len(argv) /\ k # at
      BY <1>1, <1>4
    <3>2. \A k : Past(k) => argv[k] # "--platform"
      BY <1>5, <1>8, <3>1
    <3>3. QED
      BY <1>3, <3>2 DEF ValuesRead
  <2>5. CommitRead'
    BY <1>2, <1>3, <1>6, <1>8, <2>1, <2>2, <2>4 DEF CommitRead
  <2>6. FlagRead'
    BY <1>2, <1>3, <1>6, <1>8, <2>1, <2>2, <2>4 DEF FlagRead
  <2>7. ValuesRead'
    BY <1>2, <1>3, <1>8, <2>1, <2>3 DEF ValuesRead
  <2>8. QED
    BY <2>5, <2>6, <2>7
<1>9. CASE argv[at] \notin {"--commit", "--platform"}
  <2>1. /\ options'.platform = options.platform /\ options'.commit = options.commit
        /\ options'.all = (options.all \/ argv[at] = "--require-all-platforms") /\ at' = at + 1
    <3>1. CASE argv[at] = "--require-all-platforms"
      BY <1>1, <1>9, <3>1 DEF Argument, OptionsType
    <3>2. CASE argv[at] # "--require-all-platforms"
      BY <1>1, <1>9, <3>2 DEF Argument, OptionsType
    <3>3. QED
      BY <3>1, <3>2
  <2>2. \A k : Past(k)' => Past(k) \/ k = at
    BY <1>1, <1>4, <2>1
  <2>3. \A k : Past(k) => Past(k)'
    BY <1>1, <1>4, <2>1
  <2>4. QED
    BY <1>2, <1>3, <1>9, <2>1, <2>2, <2>3 DEF CommitRead, FlagRead, ValuesRead
<1>10. QED
  BY <1>7, <1>8, <1>9

LEMMA AlwaysRead == Spec => []Read
<1>1. Init => Read
  <2>1. ASSUME Init PROVE /\ options.commit = "" /\ options.platform = ""
                          /\ pc = "arguments" /\ at = 1 /\ argv \in Seq(Text)
    BY <2>1, InputAssumption DEF Init, NoOptions, argv
  <2>2. ASSUME Init PROVE \A k : ~Past(k)
    <3>1. \A k \in DOMAIN argv : k \in Nat \ {0}
      <4>1. argv \in Seq(Text)
        BY <2>1, <2>2
      <4>2. DOMAIN argv = 1..Len(argv) /\ Len(argv) \in Nat
        BY <4>1
      <4>3. QED
        BY <4>2
    <3>2. pc = "arguments" /\ at = 1
      BY <2>1, <2>2
    <3>3. ASSUME NEW k, Past(k) PROVE FALSE
      <4>1. k \in Nat \ {0} /\ k < 1
        BY <3>1, <3>2, <3>3 DEF Past
      <4>2. QED
        BY <4>1
    <3>4. QED
      BY <3>3
  <2>3. QED
    BY <2>1, <2>2 DEF Read, CommitRead, FlagRead, ValuesRead
<1>2. ASSUME Typed, Read, [Next]_vars PROVE Read'
  <2>1. CASE Argument
    BY <1>2, <2>1, ArgumentRead
  <2>2. CASE ~Argument
    <3>1. /\ UNCHANGED <<input, options>>
          /\ \/ UNCHANGED <<pc, at>>
             \/ pc # "arguments" /\ pc' # "arguments"
             \/ pc = "arguments" /\ at > Len(argv) /\ pc' # "arguments"
      <4>1. CASE ArgumentsEnd
        BY <4>1 DEF ArgumentsEnd, Reject, Enter
      <4>2. CASE UNCHANGED vars
        BY <4>2 DEF vars
      <4>3. CASE Header \/ AllPlatforms \/ P0Item \/ P0ItemsEnd
        BY <4>3 DEF Header, AllPlatforms, P0Item, P0ItemsEnd, Reject, Enter, Turn
      <4>4. CASE P0Requirement \/ P0Leftovers \/ Scenario \/ ScenariosEnd
        BY <4>4 DEF P0Requirement, P0Leftovers, Scenario, ScenariosEnd, Reject, Enter, Turn
      <4>5. CASE Resource \/ ResourcesEnd \/ AudioClaim \/ AudioEnd
        BY <4>5 DEF Resource, ResourcesEnd, AudioClaim, AudioEnd, Reject, Enter, Turn
      <4>6. QED
        BY <1>2, <2>2, <4>1, <4>2, <4>3, <4>4, <4>5 DEF Next
    <3>2. argv \in Seq(Text) /\ at \in Nat
      BY <1>2, InputAssumption DEF Typed, TypeOK, Located, argv
    <3>3. UNCHANGED argv /\ (\A k : Value(k)' = Value(k)) /\ (Once' <=> Once)
      BY <3>1 DEF argv, Value, Once, GivenOnce
    <3>4. \A k : Past(k)' <=> Past(k)
      BY <3>1, <3>2, <3>3 DEF Past
    <3>5. QED
      BY <1>2, <3>1, <3>3, <3>4 DEF Read, CommitRead, FlagRead, ValuesRead
  <2>3. QED
    BY <2>1, <2>2
<1>3. QED
  BY <1>1, <1>2, AlwaysTyped, PTL DEF Spec

LEMMA FirstReport ==
  ASSUME Typed, AcceptedChecked, verdict = "accepted"
  PROVE  /\ pc # "arguments" /\ options.platform \notin OptionNames
         /\ options.commit \notin OptionNames
         /\ \A i \in DOMAIN files : options.commit # "" => Reported[i].commit = options.commit
<1>1. pc # "arguments"
  BY DEF Typed, Located
<1>2. files \in Seq(Text) /\ files # <<>>
  BY DEF Typed, TypeOK, files, AcceptedChecked
<1>3. \A i \in DOMAIN files : HeaderOk(Reported[i])
  BY DEF AcceptedChecked, Checked
<1>4. 1 \in DOMAIN files
  BY <1>2
<1>5. HeaderOk(Reported[1])
  BY <1>3, <1>4
<1>6. options.platform = "" \/ options.platform \in Platform
  BY <1>5 DEF HeaderOk
<1>7. options.commit = "" \/ options.commit \in Commit
  BY <1>5 DEF HeaderOk
<1>8. "" \notin OptionNames
  BY DEF OptionNames
<1>9. \A i \in DOMAIN files : options.commit # "" => Reported[i].commit = options.commit
  BY <1>3 DEF HeaderOk
<1>10. QED
  BY <1>1, <1>6, <1>7, <1>8, <1>9, NameAssumption

(* The commit of the command line is the commit of everything accepted. *)
THEOREM CommitAsked == Spec => []CommitEnforced
<1>1. ASSUME Typed, AcceptedChecked, Read PROVE CommitEnforced
  <2>1. SUFFICES ASSUME verdict = "accepted", Once,
                        NEW k \in DOMAIN argv, argv[k] = "--commit", Value(k) # "",
                        NEW i \in DOMAIN files
                 PROVE  Reported[i].commit = Value(k)
    BY DEF CommitEnforced, Once
  <2>2. /\ pc # "arguments" /\ options.platform \notin OptionNames
        /\ options.commit # "" => Reported[i].commit = options.commit
    BY <1>1, <2>1, FirstReport
  <2>3. options.commit = Value(k) \/ options.platform = "--commit"
    BY <1>1, <2>1, <2>2 DEF Read, CommitRead, Past
  <2>4. QED
    BY <2>1, <2>2, <2>3 DEF OptionNames
<1>2. QED
  BY <1>1, AlwaysTyped, AlwaysChecked, AlwaysRead, PTL

(* --require-all-platforms on the command line is obeyed. *)
THEOREM FlagAsked == Spec => []FlagObeyed
<1>1. ASSUME Typed, AcceptedChecked, Read PROVE FlagObeyed
  <2>1. SUFFICES ASSUME verdict = "accepted", Once,
                        NEW k \in DOMAIN argv, argv[k] = "--require-all-platforms"
                 PROVE  OnePerPlatform
    BY DEF FlagObeyed, Once
  <2>2. /\ pc # "arguments" /\ options.platform \notin OptionNames
        /\ options.commit \notin OptionNames
    BY <1>1, <2>1, FirstReport
  <2>3. options.all
    BY <1>1, <2>1, <2>2 DEF Read, FlagRead, Past, OptionNames
  <2>4. QED
    BY <1>1, <2>1, <2>3 DEF AcceptedChecked
<1>2. QED
  BY <1>1, AlwaysTyped, AlwaysChecked, AlwaysRead, PTL

=============================================================================
