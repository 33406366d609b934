-------------------------------- MODULE Link --------------------------------
(***************************************************************************)
(* A page's link to the backend: the SSEManager singleton (api/events.ts), *)
(* the request helper with its network-down hook (api/client.ts) and the   *)
(* parts of App.tsx that load at mount and retry.  The backend comes and   *)
(* goes (the desktop shell restarts it); panels subscribe when they are    *)
(* first visited and unsubscribe when they unmount.                        *)
(***************************************************************************)
EXTENDS Integers, FiniteSets

CONSTANTS
  Events,       \* event names of the stream
  MaxOutages    \* bound: how often the backend goes away

VARIABLES
  up,           \* the backend answers
  outages,      \* outages so far
  es,           \* SSEManager.es: none, opening, open
  attached,     \* listeners on the current EventSource, per event name
  esBound,      \* SSEManager.esBound
  names,        \* keys of SSEManager.listeners: names ever subscribed to
  handlers,     \* names that have a handler now
  timer,        \* SSEManager.reconnectTimer is set
  calls,        \* requests that have not come back: their number and kind
  mounted,      \* App's effects have run
  apiDown       \* the store's apiDown: the banner

link == <<es, attached, esBound, names, handlers, timer>>
page == <<calls, mounted, apiDown>>
vars == <<up, outages, link, page>>

Kinds == {"status", "retry", "repos", "other"}

Init ==
  /\ up \in BOOLEAN /\ outages = 0
  /\ es = "none" /\ attached = [e \in Events |-> 0] /\ esBound = {}
  /\ names = {} /\ handlers = {} /\ timer = FALSE
  /\ calls = {} /\ mounted = FALSE /\ apiDown = FALSE

-----------------------------------------------------------------------------
\* bindEs of every name in evts: once per EventSource, by the book of esBound.
BindTwice(evts) ==                   \* mutant: the book is not looked at
  /\ attached' = [e \in Events |-> attached[e] + IF e \in evts THEN 1 ELSE 0]
  /\ esBound' = esBound \cup evts

BindEs(evts) ==
  /\ attached' = [e \in Events |-> attached[e] + IF e \in evts \ esBound THEN 1 ELSE 0]
  /\ esBound' = esBound \cup evts

Connect ==
  IF es # "none" THEN UNCHANGED <<es, attached, esBound>>
  ELSE es' = "opening" /\ BindEs(names)

CloseEsKeepsBook ==                  \* mutant: esBound is not cleared
  /\ es' = "none"
  /\ attached' = [e \in Events |-> 0]
  /\ UNCHANGED esBound

CloseEs ==
  /\ es' = "none"
  /\ attached' = [e \in Events |-> 0]
  /\ esBound' = {}

On(evt) ==
  /\ names' = names \cup {evt}
  /\ handlers' = handlers \cup {evt}
  /\ IF es = "none" THEN UNCHANGED <<attached, esBound>> ELSE BindEs({evt})

-----------------------------------------------------------------------------
\* A panel's effect and its clean-up; the effect of App itself is Mount.
Subscribe(evt) == mounted /\ evt \notin handlers /\ On(evt) /\ UNCHANGED <<up, outages, es, timer, page>>

Unsubscribe(evt) ==
  /\ evt \in handlers
  /\ handlers' = handlers \ {evt}
  /\ UNCHANGED <<up, outages, es, attached, esBound, names, timer, page>>

Opened ==
  /\ es = "opening" /\ up
  /\ es' = "open"
  /\ UNCHANGED <<up, outages, attached, esBound, names, handlers, timer, page>>

OnErrorGivesUp ==                    \* mutant: no timer is started
  /\ es # "none" /\ ~up
  /\ CloseEs
  /\ UNCHANGED <<up, outages, names, handlers, timer, page>>

\* onerror: close, and one timer of two seconds.
OnError ==
  /\ es # "none" /\ ~up
  /\ CloseEs
  /\ timer' = TRUE
  /\ UNCHANGED <<up, outages, names, handlers, page>>

Reconnect ==
  /\ timer
  /\ timer' = FALSE
  /\ Connect
  /\ UNCHANGED <<up, outages, names, handlers, page>>

-----------------------------------------------------------------------------
\* App's mount: status and repositories are asked for in parallel.
Mount ==
  /\ ~mounted
  /\ mounted' = TRUE
  /\ calls' = {"status", "repos"}
  /\ Connect
  /\ UNCHANGED <<up, outages, names, handlers, timer, apiDown>>

Call == mounted /\ "other" \notin calls /\ calls' = calls \cup {"other"}
        /\ UNCHANGED <<up, outages, link, mounted, apiDown>>

\* retryConnection; its button is disabled while a retry is on its way.
Retry == apiDown /\ "retry" \notin calls /\ calls' = calls \cup {"retry"}
         /\ UNCHANGED <<up, outages, link, mounted, apiDown>>

Dismiss == apiDown /\ apiDown' = FALSE /\ UNCHANGED <<up, outages, link, calls, mounted>>

\* A retry that succeeds also asks for the repositories and for the stream.
Answered(k) ==
  /\ k \in calls /\ up
  /\ calls' = (calls \ {k}) \cup (IF k = "retry" THEN {"repos"} ELSE {})
  /\ apiDown' = IF k \in {"status", "retry"} THEN FALSE ELSE apiDown
  /\ IF k = "retry" THEN Connect ELSE UNCHANGED <<es, attached, esBound>>
  /\ UNCHANGED <<up, outages, names, handlers, timer, mounted>>

\* api(): a rejected fetch reports the network down, whatever it asked for.
Failed(k) ==
  /\ k \in calls /\ ~up
  /\ calls' = calls \ {k}
  /\ apiDown' = TRUE
  /\ UNCHANGED <<up, outages, link, mounted>>

-----------------------------------------------------------------------------
GoesDown == up /\ outages < MaxOutages /\ up' = FALSE /\ outages' = outages + 1 /\ UNCHANGED <<link, page>>
ComesUp == ~up /\ up' = TRUE /\ UNCHANGED <<outages, link, page>>

Stream == Opened \/ OnError \/ Reconnect
Panels == \E e \in Events : Subscribe(e) \/ Unsubscribe(e)
Requests == Call \/ Retry \/ Dismiss \/ (\E k \in Kinds : Answered(k) \/ Failed(k))
Next == Mount \/ Stream \/ Panels \/ Requests \/ GoesDown \/ ComesUp

Fairness == WF_vars(Mount) /\ WF_vars(ComesUp) /\ WF_vars(Opened) /\ WF_vars(OnError) /\ WF_vars(Reconnect)

Spec == Init /\ [][Next]_vars /\ Fairness
-----------------------------------------------------------------------------
TypeOK ==
  /\ up \in BOOLEAN /\ outages \in 0..MaxOutages
  /\ es \in {"none", "opening", "open"} /\ attached \in [Events -> Nat]
  /\ esBound \subseteq names /\ names \subseteq Events /\ handlers \subseteq names
  /\ timer \in BOOLEAN /\ calls \subseteq Kinds /\ mounted \in BOOLEAN /\ apiDown \in BOOLEAN

(***************************************************************************)
(* While a stream exists, each event that some panel handles is attached   *)
(* to it exactly once: no reconnect, late panel or retry loses an event    *)
(* type or makes a handler run twice.                                      *)
(***************************************************************************)
HeardOnce == es # "none" => \A e \in handlers : attached[e] = 1

\* The book of what is bound is true of the stream that is there: each name in it is attached
\* once, any other not at all, and all names are in it.
BookIsTrue ==
  /\ names \subseteq Events /\ handlers \subseteq names
  /\ esBound = IF es = "none" THEN {} ELSE names
  /\ attached = [e \in Events |-> IF e \in esBound THEN 1 ELSE 0]

\* Once the backend stays up, the stream is open for good, also when nobody
\* presses Retry.
StreamReturns == <>[](es = "open")
=============================================================================
