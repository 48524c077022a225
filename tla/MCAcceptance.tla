----------------------------- MODULE MCAcceptance -----------------------------
(***************************************************************************)
(* Inputs for Acceptance: a conforming report of each of two platforms,    *)
(* and what becomes of it when one item of one list is dropped, changed or *)
(* added, or one field of the header is changed; and command lines.        *)
(***************************************************************************)
EXTENDS Acceptance, TLC

MCText == STRING

MCScope(name, tokens) == [name |-> name, tokens |-> tokens]
MCCatalog == << [id |-> "R1", scope |-> MCScope("ALL", {})],
                [id |-> "R2", scope |-> MCScope("native", {})],
                [id |-> "R3", scope |-> MCScope("supporting", {})],
                [id |-> "R4", scope |-> MCScope("tokens", {"web", "tv"})],
                [id |-> "R5", scope |-> MCScope("desktop", {})] >>

Item(id, result)  == [id |-> id, result |-> result, evidence |-> TRUE, reason |-> TRUE]
Done(id)          == [id |-> id, result |-> "pass", evidence |-> TRUE]
Metric(name, to)  == [name |-> name, baseline |-> 100, candidate |-> to, samples |-> 5,
                      evidence |-> TRUE]
Claim(d)          == [form |-> TRUE, declaration |-> d, measured |-> d = "supported"]

Good(platform) ==
  [form |-> TRUE, platform |-> platform, commit |-> "c1", physical |-> TRUE,
   p0_result |-> "pass", exemptions |-> FALSE,
   p0 |-> << Item("R1", "pass"), Item("R3", "unsupported"),
             Item(IF platform = "web" THEN "R4" ELSE "R2", "pass") >>
          \o (IF platform = "web" THEN <<>> ELSE << Item("R5", "pass") >>),
   scenarios |-> << Done("install"), Done("offline") >>,
   resources |-> << Metric("startup", 115), Metric("memory", 0) >>,
   audio |-> << Claim("unsupported"), Claim("supported") >>]

\* A list with one element dropped, replaced or added at its end.
Edits(list, Elements) ==
  {SubSeq(list, 1, k - 1) \o SubSeq(list, k + 1, Len(list)) : k \in DOMAIN list}
  \cup {[list EXCEPT ![k] = e] : k \in DOMAIN list, e \in Elements}
  \cup {Append(list, e) : e \in Elements}

Items   == [id : {"R1", "R2", "R3", "R4", "R9"}, result : {"pass", "unsupported", "fail"},
            evidence : {TRUE}, reason : BOOLEAN]
           \cup {[id |-> "R1", result |-> "pass", evidence |-> FALSE, reason |-> TRUE]}
Dones   == [id : {"install", "offline", "extra"}, result : {"pass", "fail"}, evidence : BOOLEAN]
\* Either side of every boundary, and of the two there are at 15 per cent.
Values  == {<<0, 0>>, <<0, 115>>, <<100, -1>>, <<100, 115>>, <<100, 116>>,
            <<130000000, 149500001>>, <<130000000, 149500002>>}
Metrics == {[name |-> n, baseline |-> v[1], candidate |-> v[2], samples |-> k, evidence |-> e] :
              n \in {"startup", "memory", "extra"}, v \in Values, k \in {4, 5}, e \in BOOLEAN}
Claims  == [form : BOOLEAN, declaration : {"supported", "unsupported", "maybe"},
            measured : BOOLEAN]

Reports(p) ==
  LET g == Good(p)
  IN {[g EXCEPT !.p0 = l] : l \in Edits(g.p0, Items)}
     \cup {[g EXCEPT !.scenarios = l] : l \in Edits(g.scenarios, Dones)}
     \cup {[g EXCEPT !.resources = l] : l \in Edits(g.resources, Metrics)}
     \cup {[g EXCEPT !.audio = l] : l \in Edits(g.audio, Claims) \cup {<<>>}}
     \cup {[g EXCEPT !.form = FALSE], [g EXCEPT !.physical = FALSE],
           [g EXCEPT !.p0_result = "fail"], [g EXCEPT !.exemptions = TRUE]}

CommandLines ==
  { <<"f1", "f2">>, <<"f1">>, <<>>, <<"f1", "f1">>, <<"f3">>,
    <<"--require-all-platforms", "f1", "f2">>, <<"f1", "--require-all-platforms">>,
    <<"--require-all-platforms", "f2", "f1", "f2">>,
    <<"--commit", "c1", "--require-all-platforms", "f1", "f2">>,
    <<"f1", "--commit", "c2">>, <<"f1", "f2", "--commit">>, <<"--commit", "", "f1">>,
    <<"--commit", "--require-all-platforms", "f1">>, <<"--commit", "x", "f1">>,
    <<"--commit", "c2", "--commit", "c1", "f2">>,
    <<"--platform", "web", "f1">>, <<"--platform", "web", "f2">>,
    <<"--platform", "dos", "f1">>, <<"--platform", "--commit", "c1", "f1">>,
    <<"--platform", "web", "--require-all-platforms", "f1", "f2">>,
    <<"--platform", "--require-all-platforms", "--platform", "web", "f1">>,
    <<"--platform", "--commit", "c1", "--platform", "web", "f1">> }

\* A report of each platform, and those with another platform or commit.
Headers == {[Good(p) EXCEPT !.commit = c] : p \in Platform, c \in Commit \cup {"x"}}
           \cup {[Good("web") EXCEPT !.platform = "dos"]}

MCInputs ==
  {[argv |-> <<"--commit", "c1", "f1">>, disk |-> [f \in {"f1"} |-> r]] :
     r \in Reports("linux") \cup Reports("web")}
  \cup
  {[argv |-> line, disk |-> [f \in {"f1", "f2"} |-> IF f = "f1" THEN r1 ELSE r2]] :
     line \in CommandLines, r1 \in Headers, r2 \in Headers}
=============================================================================
