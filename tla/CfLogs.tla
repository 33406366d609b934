------------------------------- MODULE CfLogs --------------------------------
(***************************************************************************)
(* The log page of cloud functions (components/CfPanel.tsx): a query, its  *)
(* companion that fills the distribution chart, the live stream that a task*)
(* of the server feeds per environment (api/cf/cf_stream.py) and that a new*)
(* page claims, and the sign-in with its image to be read.                 *)
(***************************************************************************)
EXTENDS Integers, Sequences, FiniteSets

CONSTANTS
  Servers,
  Calm,         \* while a call is under way the user leaves query, server and stream alone
                \* (the address also when signed in), no stream dies, and a page learns of its own
  Quick,        \* no row is written while a query or a start is on its way
  Renders,      \* the page renders before the next event
  MaxRows, MaxCalls \* bounds

VARIABLES
  srv, typ,     \* cfg.server_url; a type is filtered
  token, image, \* the server whose token, whose captcha the page holds, or none
  tokens,       \* tokenMap: servers whose token the backend keeps
  result,       \* query, server, rows and query of distRows of what is shown, or none
  resultRef,    \* the same at the last render
  seq,          \* querySeqRef
  streaming, params, \* streaming, streamParamsRef: <<server, typ>> or none
  net, sent,    \* requests under way, made so far
  logs,         \* rows written on each server so far
  streams,      \* _streams: rows a stream has seen, -1 before its seed; or -2
  events        \* cf_log_update on their way

chosen == <<srv, typ>>
session == <<token, image, tokens>>
stream == <<streaming, params>>
calls == <<net, sent>>
vars == <<chosen, session, result, resultRef, seq, stream, calls, logs, streams, events>>

None == <<>>
Nobody == ""
NoStream == -2
Unseeded == -1

-----------------------------------------------------------------------------
Send(r) == sent < MaxCalls /\ sent' = sent + 1 /\ net' = net \cup {r}
SendsOn(q, r) == sent < MaxCalls /\ sent' = sent + 1 /\ net' = (net \ {q}) \cup {r}
Ask(kind, s, ty) == [n |-> sent + 1, kind |-> kind, server |-> s, typ |-> ty, of |-> seq + 1, seq |-> 0, from |-> logs[s]]
Idle(kinds) == \A r \in net : r.kind \notin kinds
Free == Calm => events = <<>> /\ \A r \in net : r.kind = "dist"
Only(cond, r) == IF cond THEN {r} ELSE {}

\* A new page without a type; a stream of an earlier one may run, which it asks for.
Init ==
  /\ srv = (CHOOSE s \in Servers : TRUE) /\ typ = FALSE
  /\ token = Nobody /\ image = Nobody /\ tokens \in {{}, Servers}
  /\ result = None /\ resultRef = None /\ seq = 0 /\ streaming = FALSE /\ params = None
  /\ sent = 0 /\ logs = [s \in Servers |-> 0] /\ events = <<>>
  /\ streams \in [Servers -> {NoStream, 0}] /\ \A s \in Servers \ {srv} : streams[s] = NoStream
  /\ net = {Ask("status", srv, typ)}

-----------------------------------------------------------------------------
\* queryLogs: not without a token; a companion under way is made to count for nothing.
HasToken == token # Nobody \/ srv \in tokens
Query(kind, ty) ==
  /\ Free
  /\ IF HasToken THEN Send(Ask(kind, srv, ty)) /\ seq' = seq + 1 ELSE UNCHANGED <<calls, seq>>
  /\ UNCHANGED <<srv, session, result, resultRef, stream, logs, streams, events>>
QueryLogs == Idle({"query", "toggle"}) /\ Query("query", typ) /\ UNCHANGED typ
ToggleTypePick == typ' = ~typ /\ Query("query", typ')

EditServer(s) ==                     \* the field, by hand: token and image stay
  /\ s # srv /\ Free /\ (Calm => ~streaming /\ {token, image} = {Nobody})
  /\ srv' = s /\ UNCHANGED <<typ, session, result, resultRef, seq, stream, calls, logs, streams, events>>

SwitchEnvOnly(s) ==                  \* mutant: the stream of the old environment goes on
  /\ Free /\ srv' = s /\ token' = Nobody /\ image' = Nobody
  /\ UNCHANGED <<typ, tokens, result, resultRef, seq, stream, calls, logs, streams, events>>
\* switchEnv: the stream of the old environment is stopped, its sign-in forgotten;
\* an environment of one's own keeps the address.
SwitchEnv(s) ==
  /\ Free /\ srv' = s /\ token' = Nobody /\ image' = Nobody
  /\ IF streaming THEN Send(Ask("stop", srv, typ)) ELSE UNCHANGED calls
  /\ UNCHANGED <<typ, tokens, result, resultRef, seq, stream, logs, streams, events>>

\* toggleStream; the button is disabled until it is through.
ToggleStream ==
  /\ Idle({"toggle", "start", "stop"})
  /\ IF streaming
     THEN /\ Free /\ Send(Ask("stop", srv, typ))
          /\ UNCHANGED <<srv, session, result, resultRef, seq, stream, logs, streams, events>>
     ELSE Query("toggle", typ)
  /\ UNCHANGED typ

-----------------------------------------------------------------------------
\* The sign-in asks for the server of the click, and so does the image after it.
SignsIn(kind) ==
  /\ Calm => events = <<>> /\ \A r \in net : r.kind \in {"captcha", "login", "auto"}
  /\ Send(Ask(kind, srv, typ))
  /\ UNCHANGED <<chosen, session, result, resultRef, seq, stream, logs, streams, events>>
FetchCaptcha == SignsIn("captcha")
Login == Idle({"login"}) /\ SignsIn("login")
AutoGetTokens == Idle({"auto"}) /\ SignsIn("auto")
GotCaptcha(r) ==
  /\ r \in net /\ r.kind = "captcha" /\ net' = net \ {r} /\ image' \in {r.server, Nobody}
  /\ UNCHANGED <<chosen, token, tokens, result, resultRef, seq, stream, sent, logs, streams, events>>

\* A sign-in that is refused asks for an image when one is needed or was shown.
GotLogin(r) ==
  /\ r \in net /\ r.kind = "login"
  /\ \/ token' = r.server /\ image' = Nobody /\ net' = net \ {r}
     \/ UNCHANGED <<token, image>> /\ net' \in {net \ {r}, (net \ {r}) \cup {[r EXCEPT !.kind = "captcha"]}}
  /\ UNCHANGED <<chosen, tokens, result, resultRef, seq, stream, sent, logs, streams, events>>

\* autoGetTokens, loadTokens: whichever servers let the backend in.
GotAuto(r) ==
  /\ r \in net /\ r.kind = "auto" /\ net' = net \ {r} /\ tokens' \in SUBSET Servers
  /\ UNCHANGED <<chosen, token, image, result, resultRef, seq, stream, sent, logs, streams, events>>

\* restoreStreamState: the stream of the page's server is claimed, whatever its
\* filter, and a query is sent that gives its rows something to be added to.
GotStatus(r, ok) ==
  LET mine == ok /\ streams[r.server] # NoStream
      base == mine /\ result = None /\ HasToken
  IN
  /\ r \in net /\ r.kind = "status" /\ (Calm => ok)
  /\ streaming' = (streaming \/ mine) /\ params' \in (IF mine THEN {r.server} \X BOOLEAN ELSE {params})
  /\ IF base THEN SendsOn(r, Ask("query", srv, typ)) /\ seq' = seq + 1
             ELSE net' = net \ {r} /\ UNCHANGED <<seq, sent>>
  /\ UNCHANGED <<chosen, session, result, resultRef, logs, streams, events>>

-----------------------------------------------------------------------------
Stopped(ss, s) == [ss EXCEPT ![s] = NoStream]
Tells(s, rows, stops) == Append(events, [server |-> s, rows |-> rows, stopped |-> stops])

\* The answer to a query: shown, whatever else was asked meanwhile.  With a
\* type its companion is sent; a stream with another filter is started anew;
\* behind toggleStream one is started even when the query failed.
GotQuery(r, ok) ==
  LET dist    == Only(ok /\ r.typ, [r EXCEPT !.kind = "dist", !.seq = seq])
      renew   == ok /\ streaming /\ params # <<r.server, r.typ>>
      restart == Only(r.kind = "toggle" \/ renew, [r EXCEPT !.kind = "start"])
  IN
  /\ r \in net /\ r.kind \in {"query", "toggle"}
  /\ net' = (net \ {r}) \cup dist \cup restart
  /\ IF ok THEN \E n \in r.from..logs[r.server] :
                  result' = [of |-> r.of, server |-> r.server, rows |-> 1..n, dist |-> 0]
           ELSE result' = None
  /\ UNCHANGED <<chosen, session, resultRef, seq, stream, sent, logs, streams, events>>

GotDistAlways(r) ==                  \* mutant: whatever was asked meanwhile
  /\ r \in net /\ r.kind = "dist" /\ net' = net \ {r}
  /\ result' = IF result = None THEN result ELSE [result EXCEPT !.dist = r.of]
  /\ UNCHANGED <<chosen, session, resultRef, seq, stream, sent, logs, streams, events>>
\* loadDistRows: only while no other query was sent.
GotDist(r) ==
  /\ r \in net /\ r.kind = "dist" /\ net' = net \ {r}
  /\ result' = IF r.seq # seq \/ result = None THEN result ELSE [result EXCEPT !.dist = r.of]
  /\ UNCHANGED <<chosen, session, resultRef, seq, stream, sent, logs, streams, events>>

\* start_stream; when the filter is renewed, the stream of another server is
\* stopped first.
GotStart(r, ok) ==
  LET old == IF streaming /\ params # None THEN params[1] ELSE r.server
      left == IF old # r.server THEN Stopped(streams, old) ELSE streams
  IN
  /\ r \in net /\ r.kind = "start" /\ net' = net \ {r}
  /\ streams' = IF ok THEN [left EXCEPT ![r.server] = Unseeded] ELSE left
  /\ events' = IF old # r.server /\ streams[old] # NoStream THEN Tells(old, {}, TRUE) ELSE events
  /\ IF ok THEN streaming' = TRUE /\ params' = <<r.server, r.typ>> ELSE UNCHANGED stream
  /\ UNCHANGED <<chosen, session, result, resultRef, seq, sent, logs>>

\* stop_stream, of the server that cfgRef held; a failure is as good to the page.
GotStop(r) ==
  /\ r \in net /\ r.kind = "stop" /\ net' = net \ {r}
  /\ streaming' = FALSE /\ params' = None
  /\ streams' = Stopped(streams, r.server)
  /\ events' = IF streams[r.server] # NoStream THEN Tells(r.server, {}, TRUE) ELSE events
  /\ UNCHANGED <<chosen, session, result, resultRef, seq, sent, logs>>

-----------------------------------------------------------------------------
Write(s) ==
  /\ logs[s] < MaxRows /\ logs' = [logs EXCEPT ![s] = @ + 1]
  /\ Quick => streams[s] # Unseeded /\ \A r \in net : r.server # s
  /\ UNCHANGED <<chosen, session, result, resultRef, seq, stream, calls, streams, events>>

\* _stream_loop: the first round is a seed and pushes nothing.
Poll(s) ==
  /\ streams[s] # NoStream /\ streams[s] < logs[s] /\ Len(events) < 2
  /\ streams' = [streams EXCEPT ![s] = logs[s]]
  /\ events' = Tells(s, IF streams[s] = Unseeded THEN {} ELSE (streams[s] + 1)..logs[s], FALSE)
  /\ UNCHANGED <<chosen, session, result, resultRef, seq, stream, calls, logs>>

\* Too many failures, or no token any more.
Dies(s) ==
  /\ streams[s] # NoStream /\ Len(events) < 2 /\ Free
  /\ streams' = Stopped(streams, s) /\ events' = Tells(s, {}, TRUE)
  /\ UNCHANGED <<chosen, session, result, resultRef, seq, stream, calls, logs>>

-----------------------------------------------------------------------------
HandlesNewOnly(e) ==                 \* mutant: the new rows take the place of the others
  LET r == resultRef IN
  /\ result' = IF ~streaming \/ r = None \/ e.rows = {} \/ e.server # r.server THEN result
               ELSE [r EXCEPT !.rows = e.rows]
  /\ UNCHANGED stream
\* Rows are added to the result of the last render.
HandlesRows(e) ==
  LET r == resultRef IN
  /\ result' = IF ~streaming \/ r = None \/ e.rows = {} THEN result
               ELSE IF e.server # r.server \/ e.rows \subseteq r.rows THEN result
               ELSE [r EXCEPT !.rows = r.rows \cup e.rows]
  /\ UNCHANGED stream

\* A stop counts if it is of the server of the result, or the chosen one.
HandlesStop(e) ==
  /\ IF e.server = (IF resultRef = None THEN srv ELSE resultRef.server)
     THEN streaming' = FALSE /\ params' = None ELSE UNCHANGED stream
  /\ UNCHANGED result

HandleEvent ==
  /\ events # <<>> /\ (Renders => resultRef = result)
  /\ events' = Tail(events)
  /\ IF Head(events).stopped THEN HandlesStop(Head(events)) ELSE HandlesRows(Head(events))
  /\ UNCHANGED <<chosen, session, resultRef, seq, calls, logs, streams>>

Render == resultRef # result /\ resultRef' = result
          /\ UNCHANGED <<chosen, session, result, seq, stream, calls, logs, streams, events>>
-----------------------------------------------------------------------------
ConfigCard == FetchCaptcha \/ \E s \in Servers : SwitchEnv(s) \/ EditServer(s)
SignIn == Login \/ AutoGetTokens
QueryCard == QueryLogs \/ ToggleStream
User == ConfigCard \/ SignIn \/ QueryCard \/ ToggleTypePick
Answers == \E r \in net :
  \/ GotDist(r) \/ GotStop(r) \/ GotCaptcha(r) \/ GotLogin(r) \/ GotAuto(r)
  \/ \E ok \in BOOLEAN : GotQuery(r, ok) \/ GotStart(r, ok) \/ GotStatus(r, ok)
Next == User \/ Answers \/ HandleEvent \/ Render \/ \E s \in Servers : Write(s) \/ Poll(s) \/ Dies(s)

Spec == Init /\ [][Next]_vars
-----------------------------------------------------------------------------
Quiet == net = {} /\ events = <<>> /\ resultRef = result

TypeOK ==
  /\ srv \in Servers /\ {token, image} \subseteq Servers \cup {Nobody} /\ tokens \subseteq Servers
  /\ {typ, streaming} \subseteq BOOLEAN /\ sent \in 0..MaxCalls
  /\ params \in {None} \cup (Servers \X BOOLEAN) /\ (params # None => streaming)
  /\ \A s \in Servers : streams[s] \in {NoStream, Unseeded} \cup 0..logs[s]

(***************************************************************************)
(* What is shown answers the last query, and the chart's rows come from    *)
(* the companion of that same query.                                       *)
(***************************************************************************)
DistIsOfResult ==
  result # None => result.dist \in {0, result.of} /\ (Quiet => result.of = seq)

(***************************************************************************)
(* The page is the holder of what runs for it on the server: when all is   *)
(* quiet a stream runs for the chosen server iff the button says so, and   *)
(* none for another.                                                       *)
(***************************************************************************)
StreamIsHeld ==
  Quiet => \A s \in Servers : streams[s] # NoStream <=> streaming /\ s = srv

\* The token and the image that a query or a sign-in sends are of the server
\* that it sends them to.
SessionIsOfServer == {token, image} \subseteq {Nobody, srv}

(***************************************************************************)
(* A switch of the environment forgets the old one's sign-in so that its   *)
(* token is never used to query the new one (switchEnv): a token that      *)
(* comes in is of the server that is chosen.                               *)
(***************************************************************************)
SignInIsOfServer == [][token' \in {token, Nobody, srv'}]_vars

(***************************************************************************)
(* A live page lacks no row that its stream has seen.                      *)
(***************************************************************************)
RowsReach ==
  Quiet /\ streaming /\ result # None /\ streams[result.server] # NoStream
    => 1..streams[result.server] \subseteq result.rows
=============================================================================
