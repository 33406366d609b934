------------------------------ MODULE PlainPods ------------------------------
(***************************************************************************)
(* The Kubernetes tab of the Tauri page (tauri/web/app.js): environment,   *)
(* sub-pages and their timers, the connection bar with its menu of pods,   *)
(* terminal, files.  Each request reads the fields when it is made.        *)
(***************************************************************************)
EXTENDS Integers, FiniteSets

CONSTANTS
  Envs, PodNames, Dirs,
  Ordered,      \* of requests of one kind the first is answered first
  Patient,      \* nothing is listed, read, fetched or picked while what it needs is under way
  Loyal,        \* environment and pod stay while a terminal, rows or a file are there or on its way
  Fresh,        \* what is deleted is a row of the table
  Calm,         \* no terminal is opened while another one closes
  Short,        \* files are shorter than what is read of them
  MaxCalls, MaxSockets \* bounds: requests, terminals

VARIABLES
  env, sub,     \* state.k8s.env; the sub-page
  menu, pod,    \* whose pods the menu holds, or "" or "loading"; the one that is chosen
  timers,       \* sub-pages that refresh themselves
  socks, ws, connected, \* sockets (environment, pod, state); _shellWs; the sign
  path, rows, selected, edit, \* files: directory, what the table lists, the row, the file
    \* the resource, what the editor was fetched for
  net, sent, harm \* requests under way, so far; something hit what was not shown

place == <<env, sub, menu, pod>>
shell == <<socks, ws, connected>>
files == <<path, rows, selected, edit>>
calls == <<net, sent>>
vars == <<place, timers, shell, files, calls, harm>>

None == <<>>
Blank == ""                          \* no pod, an empty menu
Subs == {"shell", "files", "events"}

Init ==
  /\ env = (CHOOSE e \in Envs : TRUE) /\ sub = "events" /\ menu = Blank /\ pod = Blank /\ timers = {}
  /\ socks = {} /\ ws = 0 /\ connected = FALSE
  /\ path = (CHOOSE d \in Dirs : TRUE) /\ rows = None /\ selected = None /\ edit = None
  /\ net = {} /\ sent = 0 /\ harm = FALSE

-----------------------------------------------------------------------------
\* k8sTarget and the rest of a request.
Req(kind, e, p, d) == [n |-> sent + 1, kind |-> kind, env |-> e, pod |-> p, dir |-> d]
Send(r) == sent < MaxCalls /\ sent' = sent + 1 /\ net' = net \cup {r}
SendsOn(q, r) == sent < MaxCalls /\ sent' = sent + 1 /\ net' = (net \ {q}) \cup {r}
Answer(r, kind) == r.kind = kind /\ (Ordered => \A q \in net : q.kind = kind => r.n <= q.n)
Idle(kinds) == \A r \in net : r.kind \notin kinds
Shown == <<env, pod, path>>
Free == edit = None                  \* the window of a file covers the page

Settled == ws = 0 /\ rows = None /\ Idle({"list", "read"})

\* k8sShellDisconnect: the close event comes later.
Hangup == {IF s.n = ws THEN [s EXCEPT !.state = "closing"] ELSE s : s \in socks}
Disconnect == socks' = Hangup /\ ws' = 0 /\ connected' = FALSE

\* loadK8sShellPods: the menu is empty until the answer, which knows the pod of before.
LoadPods(e) == menu' = "loading" /\ pod' = Blank /\ Send(Req("pods", e, pod, Blank))

ChangeEnv(e) ==
  /\ Free /\ e # env /\ (Loyal => Settled) /\ env' = e
  /\ IF sub \in {"shell", "files"} THEN LoadPods(e) ELSE UNCHANGED <<menu, pod, calls>>
  /\ UNCHANGED <<sub, timers, shell, files, harm>>

GotPods(r) ==
  /\ Answer(r, "pods") /\ net' = net \ {r}
  /\ \/ menu' = Blank /\ pod' = Blank                                            \* failed, or none
     \/ \E ps \in SUBSET PodNames : menu' = r.env /\ pod' = IF r.pod \in ps THEN r.pod ELSE Blank
  /\ UNCHANGED <<env, sub, timers, shell, files, sent, harm>>

PickPodOnly(p) ==                    \* mutant: the terminal stays
  /\ Free /\ menu \in Envs /\ p # pod /\ (Patient => Idle({"pods"})) /\ (Loyal => rows = None /\ Idle({"list", "read"})) /\ pod' = p
  /\ UNCHANGED <<env, sub, menu, timers, shell, files, calls, harm>>
PickPod(p) ==
  /\ Free /\ menu \in Envs /\ p # pod /\ (Patient => Idle({"pods"})) /\ (Loyal => rows = None /\ Idle({"list", "read"})) /\ pod' = p
  /\ IF ws # 0 THEN Disconnect ELSE UNCHANGED shell
  /\ UNCHANGED <<env, sub, menu, timers, files, calls, harm>>

\* switchK8sSub.  The menu is emptied before the pod is timersed at: the files of
\* the pod are never listed here.
SwitchSubKeeps(t) ==                 \* mutant: timers run on
  /\ Free /\ t # sub /\ sub' = t /\ timers' = timers
  /\ IF t # "shell" /\ ws # 0 THEN Disconnect ELSE UNCHANGED shell
  /\ UNCHANGED <<env, menu, pod, files, calls, harm>>
SwitchSub(t) ==
  /\ Free /\ t # sub /\ sub' = t /\ timers' = {}
  /\ IF t # "shell" /\ ws # 0 THEN Disconnect ELSE UNCHANGED shell
  /\ IF t \in {"shell", "files"} THEN LoadPods(env)
     ELSE UNCHANGED <<menu, pod, calls>>
  /\ UNCHANGED <<env, files, harm>>

-----------------------------------------------------------------------------
\* startK8sAuto: the list of events (usage too) is loaded every ten seconds, or once.
StartAuto(auto) ==
  /\ Free /\ sub = "events" /\ timers' = (IF auto THEN {"events"} ELSE {})
  /\ UNCHANGED <<place, shell, files, calls, harm>>
-----------------------------------------------------------------------------
Connect ==
  /\ Free /\ sub = "shell" /\ ~connected /\ pod # Blank /\ Cardinality(socks) < MaxSockets /\ (Calm => socks = {})
  /\ LET n == CHOOSE k \in 1..MaxSockets : \A s \in socks : s.n # k IN
       socks' = Hangup \cup {[n |-> n, env |-> env, pod |-> pod, state |-> "connecting"]} /\ ws' = n
  /\ UNCHANGED <<place, timers, connected, files, calls, harm>>
Ready(s) ==
  /\ s.state = "connecting" /\ socks' = (socks \ {s}) \cup {[s EXCEPT !.state = "open"]} /\ connected' = TRUE
  /\ UNCHANGED <<place, timers, ws, files, calls, harm>>
\* The pod ends, the network fails, or the page closed it: the sign goes, whosever socket it is.
OnClose(s) ==
  /\ socks' = socks \ {s} /\ connected' = FALSE /\ ws' = IF ws = s.n THEN 0 ELSE ws
  /\ UNCHANGED <<place, timers, files, calls, harm>>
PressDisconnect ==
  /\ Free /\ sub = "shell" /\ connected /\ Disconnect
  /\ UNCHANGED <<place, timers, files, calls, harm>>

-----------------------------------------------------------------------------
List(d) == pod # Blank /\ path' = d /\ rows' = None /\ Send(Req("list", env, pod, d))
FilesList(d) ==
  /\ Free /\ sub = "files" /\ List(d) /\ (Patient => Idle({"list", "pods"}))
  /\ UNCHANGED <<place, timers, shell, selected, edit, harm>>
GotList(r) ==
  /\ Answer(r, "list") /\ net' = net \ {r} /\ rows' \in {<<r.env, r.pod, r.dir>>, None}
  /\ UNCHANGED <<place, timers, shell, path, selected, edit, sent, harm>>
SelectRow ==
  /\ Free /\ rows # None /\ selected' = rows
  /\ UNCHANGED <<place, timers, shell, path, rows, edit, calls, harm>>
\* The row's name is joined to the directory of the page.
FileOpen ==
  /\ Free /\ rows # None /\ pod # Blank /\ (Patient => Idle({"list", "read", "pods"})) /\ Send(Req("read", env, pod, path))
  /\ harm' = (harm \/ rows # Shown)
  /\ UNCHANGED <<place, timers, shell, files>>
GotRead(r) ==
  /\ Answer(r, "read") /\ net' = net \ {r}
  /\ \/ UNCHANGED edit
     \/ edit' \in {<<r.env, r.pod, r.dir, cut>> : cut \in (IF Short THEN {FALSE} ELSE BOOLEAN)}
  /\ UNCHANGED <<place, timers, shell, path, rows, selected, sent, harm>>
\* The file goes to the pod that is chosen now.
FileSave ==
  /\ edit # None /\ Idle({"write"}) /\ Send(Req("write", env, pod, path))
  /\ harm' = (harm \/ (pod # Blank /\ (<<edit[1], edit[2]>> # <<env, pod>> \/ edit[4])))
  /\ UNCHANGED <<place, timers, shell, files>>
FileEditClose ==
  /\ edit # None /\ edit' = None
  /\ UNCHANGED <<place, timers, shell, path, rows, selected, calls, harm>>
FilesDelete ==
  /\ Free /\ sub = "files" /\ selected # None /\ pod # Blank /\ (Patient => Idle({"list", "delete", "pods"})) /\ (Fresh => selected = rows)
  /\ Send(Req("delete", env, pod, path)) /\ harm' = (harm \/ selected # Shown)
  /\ UNCHANGED <<place, timers, shell, files>>
\* k8sFileSave, k8sFilesDelete (k8sFilesMkdir, k8sFilesUploadChange): behind it the directory is listed.
GotChange(r) ==
  /\ Answer(r, r.kind) /\ r.kind \in {"write", "delete"}
  /\ \/ net' = net \ {r} /\ UNCHANGED <<sent, rows, selected>>
     \/ /\ selected' = (IF r.kind = "delete" THEN None ELSE selected)
        /\ IF pod = Blank THEN net' = net \ {r} /\ UNCHANGED <<sent, rows>>
           ELSE rows' = None /\ SendsOn(r, Req("list", env, pod, path))
  /\ UNCHANGED <<place, timers, shell, path, edit, harm>>

User == \/ \E e \in Envs : ChangeEnv(e)
        \/ \E p \in PodNames \cup {Blank} : PickPod(p)
        \/ \E t \in Subs : SwitchSub(t)
        \/ \E a \in BOOLEAN : StartAuto(a)
        \/ \E d \in Dirs : FilesList(d)
        \/ Connect \/ PressDisconnect \/ SelectRow \/ FileOpen \/ FileSave \/ FileEditClose \/ FilesDelete
Answers == \E r \in net : GotPods(r) \/ GotList(r) \/ GotRead(r) \/ GotChange(r)
Next == User \/ Answers \/ \E s \in socks : Ready(s) \/ OnClose(s)

Spec == Init /\ [][Next]_vars
-----------------------------------------------------------------------------
TypeOK ==
  /\ env \in Envs /\ sub \in Subs /\ menu \in Envs \cup {Blank, "loading"} /\ pod \in PodNames \cup {Blank}
  /\ path \in Dirs /\ {rows, selected} \subseteq (Envs \X PodNames \X Dirs) \cup {None}
  /\ ws \in 0..MaxSockets /\ sent \in 0..MaxCalls /\ Cardinality(socks) <= MaxSockets

\* The terminal that takes what is typed is in the pod that the menu shows.
TypesIntoShown == \A s \in socks : s.n = ws /\ connected /\ pod # Blank => <<s.env, s.pod>> = <<env, pod>>

\* "Connected" is shown for an open terminal that the page holds, and for no other.
SignIsTrue == connected <=> \E s \in socks : s.n = ws /\ s.state = "open"

\* Files are read, written and deleted where the page shows them.
NoHarm == ~harm

\* No sub-page refreshes itself behind another one, and no terminal is held there.
NothingIdle == /\ timers \subseteq {sub}
               /\ ws # 0 => sub = "shell"

\* With nothing under way the menu is of the environment.
MenuIsOfEnv == net = {} /\ menu \in Envs /\ sub \in {"shell", "files"} => menu = env

(***************************************************************************)
(* Why: terminal, rows, file and the requests that are under way know one  *)
(* pod at most, the one that the menu shows if it shows any.               *)
(***************************************************************************)
Knows(x) ==
  /\ pod \in {Blank, x}
  /\ \A r \in net : /\ r.kind = "pods" => r.pod \in {Blank, x}
                    /\ r.kind \in {"list", "read"} => r.pod = x
  /\ \A s \in socks : s.n = ws => s.pod = x
  /\ rows # None => rows[2] = x
  /\ edit # None => edit[2] = x
\* The words that stand for no pod and no menu are no names.
Apart == Blank \notin PodNames \cup Envs /\ "loading" \notin Envs /\ Envs # {} /\ Dirs # {} /\ MaxSockets \in Nat \ {0}
OnePod == \E x \in PodNames \cup {Blank} : Knows(x)
Numbered ==
  /\ env \in Envs /\ sent \in Nat
  /\ \A r \in net : r.n \in 1..sent /\ r.kind \in {"pods", "list", "read", "write", "delete"}
ShellFollows ==
  /\ socks \subseteq [n: Nat \ {0}, env: Envs, pod: PodNames, state: {"connecting", "open", "closing"}]
  /\ \A s, t \in socks : s = t
  /\ \A s \in socks : IF s.state = "closing" THEN ws = 0 ELSE ws = s.n /\ s.env = env
  /\ ws # 0 => socks # {} /\ sub = "shell"
  /\ connected \in BOOLEAN /\ (connected <=> \E s \in socks : s.state = "open")
FilesFollow ==
  /\ \A r \in net : r.kind \in {"list", "read"} => r.env = env
  /\ \A r \in net : r.kind = "list" => r.dir = path
  /\ rows # None => rows = <<env, rows[2], path>>
  /\ edit # None => edit[1] = env /\ edit[4] = FALSE
  /\ ~harm
MenuFollows == sub \in {"shell", "files"} =>
  /\ \A r \in net : r.kind = "pods" => r.env = env \/ \E q \in net : q.kind = "pods" /\ q.n > r.n
  /\ Idle({"pods"}) /\ menu \in Envs => menu = env
PodsFollow == Numbered /\ OnePod /\ ShellFollows /\ FilesFollow /\ MenuFollows /\ timers \subseteq {sub}
=============================================================================
