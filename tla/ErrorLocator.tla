---------------------------- MODULE ErrorLocator -----------------------------
(***************************************************************************)
(* The error locator of cloud functions (hcm/HcmCloudFuncErrorLocator.tsx):*)
(* errors in a pasted text, the present value of the field of one, cases   *)
(* saved of it, feedback on a case, what is learnt of it, the gateway.     *)
(***************************************************************************)
EXTENDS Integers, FiniteSets

CONSTANTS
  Blocks,       \* errors that a text may hold
  Gateways,
  Host,         \* the gateway that the text of an error names, or ""
  Patient,      \* text, error and gateway stay while an answer is awaited
  Single,       \* errors are given to the AI together only without a value looked up
  Owned,        \* feedback is given on the error that the last case was saved of
  Alone,        \* no feedback between the preview of what is learnt and its application
  Signed,       \* the gateway stays once a sign-in has given a token
  MaxCalls      \* bound: requests

VARIABLES
  text,         \* errors in the text
  parsed, current, \* the error that is shown; the one whose value is shown, or ""
  gateway, override, \* gwKey; the gateway whose token gwTokenOverride is, or ""
  caseFile,     \* the error that the last case was saved of, or ""
  lessons, preview, \* feedback at the server; how much of it learnDetail is of, or -1
  net, sent,    \* requests under way, so far
  astray        \* what went wrong unseen: "case", "note", "token", "lesson"

shown == <<parsed, current>>
where == <<gateway, override>>
calls == <<net, sent>>
vars == <<text, shown, where, caseFile, lessons, preview, calls, astray>>

Init ==
  /\ text = {} /\ parsed = "" /\ current = "" /\ gateway = (CHOOSE g \in Gateways : TRUE) /\ override = ""
  /\ caseFile = "" /\ lessons = 0 /\ preview = -1 /\ net = {} /\ sent = 0 /\ astray = {}

-----------------------------------------------------------------------------
\* Two cases may be under way, all others keep their button disabled.
Req(kind, b, v, rest) == [n |-> IF kind = "save" THEN sent + 1 ELSE 0, kind |-> kind, block |-> b, value |-> v, rest |-> rest]
Send(r) == sent < MaxCalls /\ sent' = sent + 1 /\ net' = net \cup {r}
SendsOn(q, r) == sent < MaxCalls /\ sent' = sent + 1 /\ net' = (net \ {q}) \cup {r}
Idle(kinds) == \A r \in net : r.kind \notin kinds
Still == Patient => net = {}
Blame(what, if) == astray' = IF if THEN astray \cup {what} ELSE astray

\* The gateway follows the text; its token does not follow the gateway.
Matched(T) == {Host[b] : b \in T} \ {""}
Paste(T) ==
  /\ T # text /\ T # {} /\ Still /\ (Signed /\ override # "" => Matched(T) \subseteq {gateway}) /\ text' = T
  /\ gateway' \in (IF Matched(T) = {} THEN {gateway} ELSE Matched(T))
  /\ IF Cardinality(T) = 1 THEN parsed' \in T /\ current' = "" ELSE UNCHANGED shown
  /\ UNCHANGED <<override, caseFile, lessons, preview, calls, astray>>

\* locate takes the first error of the text.
Locate ==
  /\ text # {} /\ Still /\ parsed' = (CHOOSE b \in text : TRUE) /\ current' = ""
  /\ UNCHANGED <<text, where, caseFile, lessons, preview, calls, astray>>
SelectBlockKeeps(b) ==               \* mutant: the value stays
  /\ Cardinality(text) > 1 /\ Still /\ parsed' = b /\ current' = current
  /\ UNCHANGED <<text, where, caseFile, lessons, preview, calls, astray>>
SelectBlock(b) ==
  /\ Cardinality(text) > 1 /\ Still /\ parsed' = b /\ current' = ""
  /\ UNCHANGED <<text, where, caseFile, lessons, preview, calls, astray>>

PickGateway(g) ==
  /\ g # gateway /\ Still /\ (Signed => override = "") /\ gateway' = g
  /\ UNCHANGED <<text, shown, override, caseFile, lessons, preview, calls, astray>>
Relogin ==
  /\ Idle({"login"}) /\ Send(Req("login", gateway, "", {}))
  /\ UNCHANGED <<text, shown, where, caseFile, lessons, preview, astray>>

QueryCurrent ==
  /\ parsed # "" /\ Idle({"query"}) /\ Send(Req("query", parsed, "", {}))
  /\ Blame("token", override \notin {"", gateway})
  /\ UNCHANGED <<text, shown, where, caseFile, lessons, preview>>

-----------------------------------------------------------------------------
\* saveCase writes the error and the value that are shown at the click.
SaveCase ==
  /\ parsed # "" /\ Idle({"save"}) /\ Send(Req("save", parsed, "", {})) /\ Blame("case", current \notin {"", parsed})
  /\ UNCHANGED <<text, shown, where, caseFile, lessons, preview>>
\* genAi: a case is saved behind the context.
GenAi ==
  /\ parsed # "" /\ Idle({"ai", "many"}) /\ Send(Req("ai", parsed, current, {}))
  /\ UNCHANGED <<text, shown, where, caseFile, lessons, preview, astray>>
\* genAiMulti: a case of each error, each with the value that is shown.
GenAiMulti ==
  /\ Cardinality(text) > 1 /\ Idle({"ai", "many"}) /\ (Single => current = "")
  /\ \E b \in text : Send(Req("many", b, current, text \ {b})) /\ Blame("case", current \notin {"", b})
  /\ UNCHANGED <<text, shown, where, caseFile, lessons, preview>>
\* createJira: the issue tells the value too.
CreateJira ==
  /\ parsed # "" /\ Idle({"issue"}) /\ Send(Req("issue", "", "", {})) /\ Blame("case", current \notin {"", parsed})
  /\ UNCHANGED <<text, shown, where, caseFile, lessons, preview>>
SubmitFeedback ==
  /\ parsed # "" /\ Idle({"note", "first"}) /\ (Owned => caseFile \in {"", parsed}) /\ (Alone => preview = -1 /\ Idle({"learn"}))
  /\ IF caseFile = "" THEN Send(Req("first", parsed, "", {})) /\ Blame("case", current \notin {"", parsed})
     ELSE Send(Req("note", caseFile, "", {})) /\ Blame("note", caseFile # parsed)
  /\ UNCHANGED <<text, shown, where, caseFile, lessons, preview>>

\* runFeedbackLearn; what is applied is what the server has by then.
Learn(apply) ==
  /\ Idle({"learn"}) /\ (apply => preview >= 0) /\ (Alone => Idle({"note", "first"}))
  /\ preview' = -1 /\ Send(Req("learn", "", "", {})) /\ Blame("lesson", apply /\ lessons # preview)
  /\ UNCHANGED <<text, shown, where, caseFile, lessons>>

-----------------------------------------------------------------------------
GotLogin(r) ==
  /\ r.kind = "login" /\ net' = net \ {r} /\ override' \in {r.block, override}
  /\ UNCHANGED <<text, shown, gateway, caseFile, lessons, preview, sent, astray>>
GotQuery(r) ==
  /\ r.kind = "query" /\ net' = net \ {r} /\ current' \in {r.block, ""}
  /\ UNCHANGED <<text, parsed, where, caseFile, lessons, preview, sent, astray>>
GotSave(r) ==
  /\ r.kind = "save" /\ net' = net \ {r} /\ caseFile' \in {r.block, caseFile}
  /\ UNCHANGED <<text, shown, where, lessons, preview, sent, astray>>
GotAi(r) ==
  /\ r.kind = "ai"
  /\ \/ SendsOn(r, Req("save", r.block, "", {})) /\ Blame("case", r.value \notin {"", r.block})
     \/ net' = net \ {r} /\ UNCHANGED <<sent, astray>>
  /\ UNCHANGED <<text, shown, where, caseFile, lessons, preview>>
\* A case that is not saved does not stop those behind it.
GotMany(r) ==
  /\ r.kind = "many" /\ caseFile' \in {r.block, caseFile}
  /\ IF r.rest = {} THEN net' = net \ {r} /\ UNCHANGED <<sent, astray>>
     ELSE \E b \in r.rest : SendsOn(r, Req("many", b, r.value, r.rest \ {b})) /\ Blame("case", r.value \notin {"", b})
  /\ UNCHANGED <<text, shown, where, lessons, preview>>
GotFirst(r) ==
  /\ r.kind = "first"
  /\ \/ caseFile' = r.block /\ SendsOn(r, Req("note", r.block, "", {}))
     \/ net' = net \ {r} /\ UNCHANGED <<sent, caseFile>>
  /\ UNCHANGED <<text, shown, where, lessons, preview, astray>>
GotIssue(r) == r.kind = "issue" /\ net' = net \ {r} /\ UNCHANGED <<text, shown, where, caseFile, lessons, preview, sent, astray>>
GotNote(r) ==
  /\ r.kind = "note" /\ net' = net \ {r} /\ lessons' \in {lessons, lessons + 1}
  /\ UNCHANGED <<text, shown, where, caseFile, preview, sent, astray>>
GotLearn(r) ==
  /\ r.kind = "learn" /\ net' = net \ {r} /\ preview' \in {-1, lessons}
  /\ UNCHANGED <<text, shown, where, caseFile, lessons, sent, astray>>

\* The page from top to bottom.
LogBar == \/ Locate \/ Relogin
          \/ \E T \in SUBSET Blocks : Paste(T)
          \/ \E g \in Gateways : PickGateway(g)
Triage == GenAiMulti \/ \E b \in text : SelectBlock(b)
Cases == SaveCase \/ SubmitFeedback \/ \E apply \in BOOLEAN : Learn(apply)
User == LogBar \/ Triage \/ QueryCurrent \/ GenAi \/ Cases \/ CreateJira
Answers == \E r \in net : \/ GotLogin(r) \/ GotQuery(r) \/ GotSave(r) \/ GotAi(r) \/ GotMany(r)
                          \/ GotFirst(r) \/ GotNote(r) \/ GotLearn(r) \/ GotIssue(r)
Next == User \/ Answers

Spec == Init /\ [][Next]_vars
-----------------------------------------------------------------------------
TypeOK ==
  /\ text \subseteq Blocks /\ {parsed, current, caseFile} \subseteq Blocks \cup {""}
  /\ gateway \in Gateways /\ override \in Gateways \cup {""} /\ lessons \in 0..MaxCalls /\ preview \in -1..MaxCalls /\ sent \in 0..MaxCalls

\* The value that is shown is of the error that is shown.
ValueIsOfError == current \in {"", parsed}

(***************************************************************************)
(* No case holds the value of another error, no feedback is on a case of   *)
(* another error, no gateway gets the token of another one, and nothing is *)
(* learnt that was not previewed.                                          *)
(***************************************************************************)
NothingAstray == astray = {}
=============================================================================
