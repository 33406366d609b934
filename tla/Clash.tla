-------------------------------- MODULE Clash --------------------------------
(***************************************************************************)
(* Addresses that bypass Clash: the panel that keeps their list            *)
(* (ClashPanel.tsx), and the routes of the machine and the rules in the    *)
(* configurations that the backend writes for them (routes_clash_rules.py, *)
(* routes_clash_config.py, clash_base.py), each request in a thread.       *)
(***************************************************************************)
EXTENDS Integers, FiniteSets

CONSTANTS
  Ips, Devices, Paths, \* addresses, interfaces, configurations that are there
  Defaults, Own,       \* the list the server proposes; rules the user wrote, as <<path, ip>>
  Settled,             \* list and path are filled in once what the panel loads by itself is there, the language before
  Fixed,               \* list, interface and path stay from an application to its undoing
  Sound,               \* the configuration is there, the password is given, answers arrive
  Alone,               \* one writer of configurations at a time
  MaxCalls             \* bound: requests

VARIABLES
  ips, defaultIps, lanDevice, cfgPath, applied, applying, patchingAll, gen,
  net, sent, jobs,     \* requests for what the panel shows; requests that change the machine, with how far they are
  routes, marks,       \* the interface an address is routed to; the rules the backend wrote
  made,                \* what applications put there and nothing has taken away
  mine, named, asked   \* the list and the path as the user left them; the last generation asked for

\* No name.
Blank == ""
form == <<ips, defaultIps, lanDevice, cfgPath>>
flags == <<applied, applying, patchingAll>>
calls == <<net, sent>>
machine == <<routes, marks>>
said == <<mine, named, asked>>
vars == <<form, flags, gen, calls, jobs, machine, made, said>>

NoGen == [n |-> 0]
NoList == {"?"}
Loaded(n, path) == [n : {n}, kind : {"defaults", "ifaces", "probe"}, path : {path}, ips : {{}}]
Init ==
  /\ ips = {} /\ defaultIps = {} /\ lanDevice = Blank /\ cfgPath = Blank /\ applied = FALSE /\ applying = FALSE
  /\ patchingAll = FALSE /\ gen = NoGen /\ net = Loaded(1, Blank) /\ sent = 1 /\ jobs = {}
  /\ routes = [i \in Ips |-> Blank] /\ marks = {} /\ made = {} /\ mine = NoList /\ named = "?" /\ asked = 0

-----------------------------------------------------------------------------
\* The effect that loads everything begins anew when the path changes: probeCfgPath depends on it.
SetPath(p, rest) ==
  /\ cfgPath' = p
  /\ IF p = cfgPath THEN net' = rest /\ UNCHANGED sent
     ELSE sent < MaxCalls /\ sent' = sent + 1 /\ net' = rest \cup Loaded(sent + 1, p)
Ready == Settled => net = {}
Free == Fixed => ~applied /\ jobs = {}

EditIps(I) ==
  /\ I # ips /\ Ready /\ Free /\ ips' = I /\ mine' = I
  /\ UNCHANGED <<defaultIps, lanDevice, cfgPath, flags, gen, calls, jobs, machine, made, named, asked>>
AddIp(i) == i \notin ips /\ EditIps(ips \cup {i})
RemoveIp(i) == i \in ips /\ EditIps(ips \ {i})
RestoreDefaults == defaultIps # {} /\ EditIps(defaultIps)
PickLan(d) ==
  /\ d # lanDevice /\ Free /\ lanDevice' = d
  /\ UNCHANGED <<ips, defaultIps, cfgPath, flags, gen, calls, jobs, machine, made, said>>
EditPath(p) ==
  /\ p # cfgPath /\ Ready /\ Free /\ (Settled => mine = NoList /\ p # Blank) /\ SetPath(p, net) /\ named' = p
  /\ UNCHANGED <<ips, defaultIps, lanDevice, flags, gen, jobs, machine, made, mine, asked>>
Asks(kind) ==
  /\ sent < MaxCalls /\ sent' = sent + 1 /\ UNCHANGED <<form, flags, gen, jobs, machine, made, mine, named>>
  /\ net' = net \cup {[n |-> sent + 1, kind |-> kind, path |-> cfgPath, ips |-> ips]}
DoGenerate == Asks("generate") /\ (Settled => net = {}) /\ asked' = sent + 1
Reprobe == Asks("probe") /\ (Settled => cfgPath # Blank \/ mine = NoList) /\ UNCHANGED asked
Redetect == Asks("ifaces") /\ UNCHANGED asked
\* All is loaded again when the language changes: loadIfaces depends on it.
SetLocale ==
  /\ sent < MaxCalls /\ sent' = sent + 1 /\ (Settled => net = {} /\ mine = NoList)
  /\ net' = net \cup Loaded(sent + 1, cfgPath) /\ UNCHANGED <<form, flags, gen, jobs, machine, made, said>>

GotDefaults(r) ==
  /\ r.kind = "defaults" /\ net' = net \ {r} /\ UNCHANGED <<cfgPath, flags, gen, sent, jobs, machine, made, said>>
  /\ IF Defaults = {} THEN UNCHANGED <<ips, defaultIps>> ELSE ips' = Defaults /\ defaultIps' = Defaults
  /\ \E d \in Devices \cup {Blank} : lanDevice' = IF lanDevice = Blank THEN d ELSE lanDevice
GotIfaces(r) ==
  /\ r.kind = "ifaces" /\ net' = net \ {r} /\ UNCHANGED <<ips, defaultIps, cfgPath, flags, gen, sent, jobs, machine, made, said>>
  /\ \E d \in Devices \cup {Blank} : lanDevice' = IF lanDevice = Blank THEN d ELSE lanDevice
\* A path is proposed if there was none when the request went out.
GotProbe(r) ==
  /\ r.kind = "probe" /\ UNCHANGED <<ips, defaultIps, lanDevice, flags, gen, jobs, machine, made, said>>
  /\ \/ r.path = Blank /\ \E p \in Paths : SetPath(p, net \ {r})
     \/ r.path # Blank /\ SetPath(cfgPath, net \ {r})
GotGenerate(r) ==
  /\ r.kind = "generate" /\ net' = net \ {r} /\ gen' \in {[n |-> r.n], NoGen} /\ UNCHANGED <<form, flags, sent, jobs, machine, made, said>>
NoAnswer(r) ==
  /\ (Sound => r.kind # "generate")
  /\ net' = net \ {r} /\ UNCHANGED <<form, flags, gen, sent, jobs, machine, made, said>>

-----------------------------------------------------------------------------
Writers == Alone => jobs = {}
\* The request holds what the form says at the click; files are those that it is to write.
Sends(op, at, files) ==
  /\ jobs' = jobs \cup {[op |-> op, at |-> at, ips |-> ips, lan |-> lanDevice, path |-> cfgPath, files |-> files, text |-> {}]}
  /\ UNCHANGED <<form, applied, gen, calls, machine, made, said>>
DoApply ==
  /\ ~applying /\ ips # {} /\ lanDevice # Blank /\ Writers /\ (Sound => cfgPath \in Paths \cup {Blank}) /\ Ready
  /\ Sends("apply", "asked", {cfgPath} \ {Blank}) /\ UNCHANGED <<applying, patchingAll>>
DoRevertRoutes ==                    \* mutant: the configuration is not sent
  /\ ~applying /\ ips # {} /\ applied /\ Writers
  /\ Sends("revert", "asked", {}) /\ UNCHANGED <<applying, patchingAll>>
DoRevert ==
  /\ ~applying /\ ips # {} /\ applied /\ Writers
  /\ Sends("revert", "asked", {cfgPath} \cap Paths) /\ UNCHANGED <<applying, patchingAll>>
DoPatchAll ==
  /\ ~patchingAll /\ ips # {} /\ Writers /\ (Alone => ~applied) /\ patchingAll' = TRUE /\ Sends("patch", "read", Paths) /\ UNCHANGED applying

\* requestConfirm, in front of either; it covers the page.
Open == \A j \in jobs : j.at # "asked"
Confirm(j) ==
  /\ j.at = "asked" /\ jobs' = (jobs \ {j}) \cup {[j EXCEPT !.at = "routes"]} /\ applying' = TRUE
  /\ UNCHANGED <<form, applied, patchingAll, gen, calls, machine, made, said>>
Cancel(j) ==
  /\ j.at = "asked" /\ jobs' = jobs \ {j} /\ UNCHANGED <<form, flags, gen, calls, machine, made, said>>

Becomes(j, k) == jobs' = (jobs \ {j}) \cup {k}
AtFiles(j) == [j EXCEPT !.at = "read"]
\* A route is added where the address has none; the prompt for the password may be cancelled.
AddRoutes(j) ==
  /\ j.op = "apply" /\ j.at = "routes" /\ Becomes(j, AtFiles(j)) /\ UNCHANGED <<form, flags, gen, calls, marks, said>>
  /\ \E given \in IF Sound THEN {TRUE} ELSE BOOLEAN :
       LET added == {i \in j.ips : given /\ routes[i] = Blank}
       IN  routes' = [i \in Ips |-> IF i \in added THEN j.lan ELSE routes[i]] /\ made' = made \cup {<<j.lan, i>> : i \in added}
\* An interface without an address is refused before anything is done.
Refuse(j) ==
  /\ j.op = "apply" /\ j.at = "routes" /\ jobs' = jobs \ {j} /\ applying' = FALSE
  /\ UNCHANGED <<form, applied, patchingAll, gen, calls, machine, made, said>>
\* Those that go through the interface of the request.
DropRoutes(j) ==
  /\ j.op = "revert" /\ j.at = "routes" /\ Becomes(j, AtFiles(j)) /\ UNCHANGED <<form, flags, gen, calls, marks, said>>
  /\ \E given \in IF Sound THEN {TRUE} ELSE BOOLEAN :
       LET gone == {i \in j.ips : given /\ routes[i] = j.lan}
       IN  routes' = [i \in Ips |-> IF i \in gone THEN Blank ELSE routes[i]] /\ made' = made \ {<<j.lan, i>> : i \in gone}
RulesIn(p) == {m \in marks : m[1] = p}
ReadFile(j) ==
  /\ j.at = "read" /\ UNCHANGED <<form, flags, gen, calls, machine, made, said>>
  /\ \E p \in j.files \cap Paths : Becomes(j, [j EXCEPT !.at = "write", !.path = p, !.text = RulesIn(p)])
\* What was taken away since the text was read comes back with it.
Puts(j, text) ==
  /\ marks' = (marks \ RulesIn(j.path)) \cup text
  /\ made' = (made \ (RulesIn(j.path) \ text)) \cup (text \cap (j.text \ marks))
              \cup IF j.op = "apply" THEN text \ j.text ELSE {}
\* Rules that are in the text already, with or without the mark, are not added again.  A text
\* that turns out wrong is put back; one that cannot be read or written stays.
WriteFile(j) ==
  /\ j.at = "write" /\ Becomes(j, [j EXCEPT !.at = "read", !.files = @ \ {j.path}, !.text = {}])
  /\ LET new == {<<j.path, i>> : i \in j.ips} \ (j.text \cup Own)
     IN  \/ j.op = "revert" /\ j.text # {} /\ Puts(j, {})
         \/ j.op # "revert" /\ new # {} /\ (Puts(j, j.text \cup new) \/ Puts(j, j.text))
         \/ (Sound /\ j.op = "revert" => j.text = {}) /\ UNCHANGED <<marks, made>>
  /\ UNCHANGED <<form, flags, gen, calls, routes, said>>
\* What the panel makes of the answer: a configuration that is not there fails the request, routes or not.
Answer(j) ==
  /\ j.at = "read" /\ j.files \cap Paths = {} /\ jobs' = jobs \ {j}
  /\ applying' = (applying /\ j.op = "patch") /\ patchingAll' = (patchingAll /\ j.op # "patch")
  /\ \E told \in IF Sound THEN {TRUE} ELSE BOOLEAN :
       applied' = IF ~told \/ j.op = "patch" \/ j.files # {} THEN applied ELSE j.op = "apply"
  /\ UNCHANGED <<form, gen, calls, machine, made, said>>

User == /\ Open
        /\ \/ RestoreDefaults \/ DoGenerate \/ Reprobe \/ Redetect \/ SetLocale \/ DoApply \/ DoRevert \/ DoPatchAll
           \/ \E i \in Ips : AddIp(i) \/ RemoveIp(i)
           \/ \E d \in Devices : PickLan(d)
           \/ \E p \in Paths \cup {Blank, "gone"} : EditPath(p)
Dialog == \E j \in jobs : Confirm(j) \/ Cancel(j)
Answers == \E r \in net : GotDefaults(r) \/ GotIfaces(r) \/ GotProbe(r) \/ GotGenerate(r) \/ NoAnswer(r)
Threads == \E j \in jobs : AddRoutes(j) \/ Refuse(j) \/ DropRoutes(j) \/ ReadFile(j) \/ WriteFile(j) \/ Answer(j)
Next == User \/ Dialog \/ Answers \/ Threads

Spec == Init /\ [][Next]_vars
-----------------------------------------------------------------------------
TypeOK ==
  /\ ips \subseteq Ips /\ defaultIps \subseteq Ips /\ lanDevice \in Devices \cup {Blank} /\ cfgPath \in Paths \cup {Blank, "gone"}
  /\ \A f \in {applied, applying, patchingAll} : f \in BOOLEAN
  /\ routes \in [Ips -> Devices \cup {Blank}] /\ marks \subseteq Paths \X Ips /\ gen.n \in 0..MaxCalls /\ sent \in 1..MaxCalls
  /\ {r.n : r \in net} \subseteq 1..sent

\* The list and the path stay as the user left them.
ListStays == mine = NoList \/ ips = mine
PathStays == named = "?" \/ cfgPath = named

\* What an application put into the machine can be undone as long as it is there, and is gone once it was.
UndoneWhole == jobs = {} /\ ~applied => made = {}

\* "Routes are deleted; the configuration is restored" (routes_clash_rules.py:245):
\* once the panel takes an application for undone nothing of it is left.  A password
\* that is not given leaves the routes, and the answer is ok all the same.
RevertUndoes == [][applied /\ ~applied' => made' = {}]_vars

\* Nothing is under way that would fill in another list or path.
NothingFills ==
  /\ mine # NoList => ips = mine /\ \A r \in net : r.kind # "defaults" /\ (r.kind = "probe" => r.path # Blank)
  /\ named # "?" => cfgPath = named /\ named # Blank /\ \A r \in net : r.kind = "probe" => r.path # Blank

\* The names of the model are told apart.
Apart == "?" \notin Ips /\ Defaults \subseteq Ips /\ Devices \cap Paths = {} /\ Blank \notin Devices \cup Paths

\* What was made is there, and is of the form as it stands; how far the one job is says what may be left.
Jobs == [op : {"apply", "revert", "patch"}, at : {"asked", "routes", "read", "write"}, ips : SUBSET Ips,
         lan : Devices \cup {Blank}, path : Paths \cup {Blank, "gone"}, files : SUBSET (Paths \cup {"gone"}),
         text : SUBSET (Paths \X Ips)]
Shapes ==
  /\ ips \subseteq Ips /\ defaultIps \subseteq Ips /\ lanDevice \in Devices \cup {Blank} /\ cfgPath \in Paths \cup {Blank, "gone"}
  /\ marks \subseteq Paths \X Ips /\ made \subseteq (Devices \cup Paths) \X Ips /\ jobs \subseteq Jobs
InPlace == \A m \in made : IF m[1] \in Devices THEN routes[m[2]] = m[1] ELSE m \in marks
OfForm == \A m \in made : IF m[1] \in Devices THEN m[1] = lanDevice /\ m[2] \in ips ELSE m[1] = cfgPath
Stage(j) ==
  /\ \A k \in jobs : k = j
  /\ j.op = "patch" => made = {} /\ j.at \in {"read", "write"}
  /\ j.op = "apply" => j.lan = lanDevice /\ lanDevice # Blank /\ j.ips = ips /\ j.files \subseteq {cfgPath} \cap Paths
  /\ j.op = "apply" /\ j.at \in {"asked", "routes"} /\ ~applied => made = {}
  /\ j.op = "revert" => /\ applied
                       /\ \A m \in made : \/ m[1] \in j.files \cap Paths
                                          \/ j.at \in {"asked", "routes"} /\ m[1] = j.lan /\ m[2] \in j.ips
  /\ j.at = "write" => j.text = RulesIn(j.path) /\ j.path \in j.files \cap Paths
Undoable ==
  /\ Shapes /\ InPlace /\ OfForm /\ (\A j \in jobs : Stage(j)) /\ UndoneWhole
  /\ (mine = NoList => ips \in {{}, Defaults}) /\ (jobs # {} \/ applied => ips # {}) /\ (applied => lanDevice # Blank)
  /\ (\E r \in net : r.kind = "probe" /\ r.path = Blank) =>
       /\ \A m \in made : m[1] \in Devices
       /\ \A j \in jobs : j.op = "apply" => j.files = {}

\* The commands that are shown are those asked for last.
GenIsLatest == gen # NoGen /\ ~(\E r \in net : r.kind = "generate") => gen.n = asked
GenFollows == GenIsLatest /\ \A r \in net : r.kind = "generate" => r.n = asked
=============================================================================
