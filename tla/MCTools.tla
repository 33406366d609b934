------------------------------ MODULE MCTools -------------------------------
(***************************************************************************)
(* Parts of the page that work beside the repository browser, each on its  *)
(* own: focus says which one a behaviour is about.                         *)
(***************************************************************************)
EXTENDS Integers, Sequences, FiniteSets, TLC

VARIABLES
  focus,   \* the component that is looked at
  env, token, page, due, linkDue, items, selected, meta, data, dataPage, flags, busy,
  net, sent, server, metaE, form, dict, payload, asked, at, effective, rows, total,
  prev, truncated, cols, pc, envP, open, models, model, name, results, loading,
  listing, walks, netP, sentP, modelB, askedB, snapshot, rowsB, pageB, loadingB,
  failed, tokenB, used, renewing, autos, netB, sentB, sortDir, query, peek, opened,
  pod, size, dls, dlRef, bar, saved, podF, path, entries, selectedF, ed, asks, netF,
  sentF, harm, current, envK, podK, reloading, socks, wsRef, connected, auto, netK,
  sentK, rowsK, envS, panelNs, kube, ns, selectedS, atS, metaS, running, shown, runs,
  asking, cancels, busyS, cancelled, thread, events, outcome, srv, typ, tokenL, image,
  tokens, result, resultRef, seq, streaming, params, netL, sentL, logs, streams,
  eventsL, rowsV, hash, logType, win, stack, typePick, search, filterOn, desc,
  localPage, activeMatch, picked, selectedG, source, bpByPath, breakpoints, tempBp,
  status, sessionId, client, line, netG, reads, progs, wire, put, wanted, text,
  parsed, currentR, gateway, override, caseFile, lessons, preview, netR, sentR,
  astray, podN, cont, labelMode, offers, raw, isErr, autoN, streamingN, abort, openN,
  netN, sentN, target, scanned, sel, detail, detailReq, busyY, acting, netY, sentY,
  online, local, deploys, index, astrayY, api, targetX, fetchSeq, lists, options,
  listState, cache, busyX, resultX, netX, ws, wsRefX, sockets, sentX, astrayX, tab,
  targetH, itemsH, searched, pick, selectedH, asksH, delTarget, delBusy, batch, time,
  dates, pageH, rowsH, busyH, netH, sentH, redis, astrayH, list, failedM, serverM,
  window, dataM, err, busyM, refresh, active, autoRan, netM, sentM, lost, modelW,
  bizType, files, selectedW, file, body, resultW, loadingW, fileLoading, runLoading,
  tokenW, metaW, metaErr, metaLoading, netW, sentW, live, statusQ, stop, paused,
  frames, evalFrame, variables, kids, watchList, entered, popup, queue, modelQ, field,
  dynLogs, selectedQ, askedQ, calls, envs, currentJ, seed, drafts, pushed, listJ,
  listCurrent, incoming, formJ, mode, selName, dirty, armed, busyJ, askingJ, jobs,
  polls, callsJ

\* Logs of three rows; widths of bars below and above a minute of four ticks.
LogRow(t, ty, h) == [time |-> t, type |-> ty, hits |-> h]
LogRows == {<<LogRow(t[1], 1, h[1]), LogRow(t[2], ty, h[2]), LogRow(t[3], 2, h[3])>> :
              t \in {<<0, 1, 3>>, <<-1, 2, 13>>}, <<ty, h>> \in {<<0, <<1, 2, 0>>>>, <<2, <<0, 1, 1>>>>}}
Collisions == {[ty \in {1, 2} |-> k] : k \in {0, 1}}
BarWidths == <<2, 4, 8>>

O == INSTANCE HcmObjects WITH Envs <- {"e1", "e2"}, Objects <- {"a", "b"},
       Ordered <- TRUE, Reliable <- TRUE, Linked <- "a", MaxCalls <- 3, MaxOpen <- 2
E == INSTANCE LedgerExport WITH MaxTable <- 5, MaxSize <- 3, MaxRows <- 5,
       MaxPages <- 9, Sample <- 2, Keys <- {"id", "u_a", "raw"},
       Listed <- {"u_a", "raw"}, RawKey <- "raw", Honest <- TRUE, Marked <- TRUE,
       Untouched <- TRUE, meta <- metaE
P == INSTANCE PersonLookup WITH Envs <- {"e1", "e2"}, Names <- {"p", "q"},
       Patient <- TRUE, MaxCalls <- 4, env <- envP, net <- netP, sent <- sentP
B == INSTANCE TableWindow WITH Models <- {"m1", "m2"}, Filled <- TRUE,
       Ordered <- TRUE, Closed <- TRUE, MaxCalls <- 4, model <- modelB,
       asked <- askedB, rows <- rowsB, page <- pageB, loading <- loadingB,
       token <- tokenB, net <- netB, sent <- sentB
D == INSTANCE K8sDownload WITH Pods <- {"p1", "p2"}, Chunk <- 2, MaxFile <- 3,
       MaxMemory <- 2, MaxRetries <- 1, Stable <- TRUE, Calm <- TRUE,
       MaxDownloads <- 2
F == INSTANCE K8sFiles WITH Pods <- {"p1", "p2"}, Dirs <- {"d1", "d2"},
       Names <- {"a", "b"}, Patient <- TRUE, Careful <- TRUE, Local <- TRUE,
       MaxCalls <- 6, MaxEdits <- 1, pod <- podF, selected <- selectedF, net <- netF,
       sent <- sentF
K == INSTANCE K8sPanel WITH Envs <- {"e1", "e2"}, PodNames <- {"x", "y"},
       Attached <- TRUE, Calm <- TRUE, Early <- TRUE, Patient <- TRUE,
       MaxSockets <- 2, MaxCalls <- 2, env <- envK, pod <- podK, net <- netK,
       sent <- sentK, rows <- rowsK
S == INSTANCE K8sSnapshot WITH Calm <- TRUE, Resolves <- TRUE, Lossless <- TRUE,
       Steady <- TRUE, Default <- TRUE, Chosen <- TRUE, Envs <- {"e", "f", "g"},
       Reachable <- {"e", "g"}, Current <- "g", MaxRuns <- 2, env <- envS,
       selected <- selectedS, at <- atS, meta <- metaS, busy <- busyS
L == INSTANCE CfLogs WITH Servers <- {"s1", "s2"}, Calm <- TRUE, Quick <- TRUE,
       Renders <- TRUE, MaxRows <- 2, MaxCalls <- 2, token <- tokenL, net <- netL,
       sent <- sentL, events <- eventsL
V == INSTANCE CfView WITH Inputs <- LogRows, Types <- {0, 1, 2}, Palette <- 2,
       Steps <- BarWidths, TargetBars <- 2, MaxBars <- 5, MaxTypeBars <- 1,
       MaxTicks <- 2, Hashes <- Collisions, MaxPick <- 1, Minute <- 4, Hour <- 8,
       PageSize <- 2, MaxStack <- 1, Coarse <- TRUE, Plain <- TRUE, Titled <- TRUE,
       OnePage <- TRUE, rows <- rowsV
G == INSTANCE CfDebug WITH Functions <- {"f", "g"}, Lines <- {1, 2}, Prompt <- TRUE,
       Focused <- TRUE, Reached <- TRUE, Patient <- TRUE, MaxRuns <- 2, MaxReads <- 2,
       selected <- selectedG, net <- netG
R == INSTANCE ErrorLocator WITH Blocks <- {"a", "b"}, Gateways <- {"g", "h"},
       Host <- [a |-> "h", b |-> ""], Patient <- TRUE, Single <- TRUE, Owned <- TRUE,
       Alone <- TRUE, Signed <- TRUE, MaxCalls <- 4, current <- currentR, net <- netR,
       sent <- sentR
N == INSTANCE PodLog WITH Pods <- {"p", "q"}, Containers <- {"c"}, Patient <- TRUE,
       Settled <- TRUE, MaxCalls <- 5, pod <- podN, auto <- autoN,
       streaming <- streamingN, open <- openN, net <- netN, sent <- sentN
Y == INSTANCE CfDeploy WITH Gateways <- {"g", "h"}, MaxTries <- 2, Fixed <- TRUE,
       Mapped <- TRUE, Alone <- TRUE, Reachable <- TRUE, MaxDeploys <- 2,
       MaxCalls <- 2, busy <- busyY, net <- netY, sent <- sentY, astray <- astrayY
X == INSTANCE ApiTester WITH Gateways <- {"g", "h"}, Apis <- {"a", "b"},
       Steady <- TRUE, Single <- TRUE, Calm <- TRUE, MaxLists <- 3, MaxCalls <- 2,
       target <- targetX, busy <- busyX, result <- resultX, net <- netX,
       wsRef <- wsRefX, sent <- sentX, astray <- astrayX
H == INSTANCE HcmOps WITH Gateways <- {"g", "h"}, Keys <- {"a", "b"},
       Times <- {"today", "custom"}, Dates <- {"d", "e"}, Pages <- 2, Dated <- TRUE,
       Patient <- TRUE, Ordered <- TRUE, Fresh <- TRUE, Reliable <- TRUE,
       MaxCalls <- 3, target <- targetH, items <- itemsH, selected <- selectedH,
       asks <- asksH, page <- pageH, rows <- rowsH, busy <- busyH, net <- netH,
       sent <- sentH, astray <- astrayH
M == INSTANCE CfMonitor WITH Servers <- {"s", "t"}, Windows <- {"v", "w"},
       Patient <- TRUE, Listed <- TRUE, Thrown <- TRUE, MaxCalls <- 3,
       failed <- failedM, server <- serverM, data <- dataM, busy <- busyM,
       net <- netM, sent <- sentM
W == INSTANCE MetaFiles WITH Models <- {"m", "o"}, Names <- {"a"}, Patient <- TRUE,
       Relisted <- TRUE, Reliable <- TRUE, Signed <- TRUE, MaxCalls <- 4,
       model <- modelW, selected <- selectedW, result <- resultW, loading <- loadingW,
       token <- tokenW, meta <- metaW, net <- netW, sent <- sentW
Q == INSTANCE CfInspect WITH Exprs <- {"a"}, Models <- {"m", "o"}, Default <- "m",
       Idle <- TRUE, Patient <- TRUE, Distinct <- TRUE, Settled <- TRUE,
       Listed <- TRUE, MaxStops <- 2, MaxWatches <- 1, MaxCalls <- 3,
       status <- statusQ, model <- modelQ, selected <- selectedQ, asked <- askedQ
J == INSTANCE K8sEnv WITH Names <- {"a", "b"}, Listed <- TRUE, Writes <- TRUE,
       Cleared <- TRUE, Refilled <- TRUE, Patient <- TRUE, MaxCalls <- 2,
       MaxDrafts <- 1, MaxItems <- 1, current <- currentJ, list <- listJ,
       form <- formJ, busy <- busyJ, asking <- askingJ, calls <- callsJ

varsO == <<env, token, page, due, linkDue, items, selected, meta, data, dataPage,
           flags, busy, net, sent>>
varsE == <<server, metaE, form, dict, payload, asked, at, effective, rows, total,
           prev, truncated, cols, pc>>
varsP == <<envP, open, models, model, name, results, loading, listing, walks, netP,
           sentP>>
varsB == <<modelB, askedB, snapshot, rowsB, pageB, loadingB, failed, tokenB, used,
           renewing, autos, netB, sentB, sortDir, query, peek, opened>>
varsD == <<pod, size, dls, dlRef, bar, saved>>
varsF == <<podF, path, entries, selectedF, ed, asks, netF, sentF, harm>>
varsK == <<current, envK, podK, reloading, socks, wsRef, connected, auto, netK, sentK,
           rowsK>>
varsS == <<envS, panelNs, kube, ns, selectedS, atS, metaS, running, shown, runs,
           asking, cancels, busyS, cancelled, thread, events, outcome>>
varsL == <<srv, typ, tokenL, image, tokens, result, resultRef, seq, streaming, params,
           netL, sentL, logs, streams, eventsL>>
varsV == <<rowsV, hash, logType, win, stack, typePick, search, filterOn, desc,
           localPage, activeMatch, picked>>
varsG == <<selectedG, source, bpByPath, breakpoints, tempBp, status, sessionId,
           client, line, netG, reads, progs, wire, put, wanted>>
varsR == <<text, parsed, currentR, gateway, override, caseFile, lessons, preview,
           netR, sentR, astray>>
varsN == <<podN, cont, labelMode, offers, raw, isErr, autoN, streamingN, abort, openN,
           netN, sentN>>
varsY == <<target, scanned, sel, detail, detailReq, busyY, acting, netY, sentY,
           online, local, deploys, index, astrayY>>
varsX == <<api, targetX, fetchSeq, lists, options, listState, cache, busyX, resultX,
           netX, ws, wsRefX, sockets, sentX, astrayX>>
varsH == <<tab, targetH, itemsH, searched, pick, selectedH, asksH, delTarget, delBusy,
           batch, time, dates, pageH, rowsH, busyH, netH, sentH, redis, astrayH>>
varsM == <<list, failedM, serverM, window, dataM, err, busyM, refresh, active,
           autoRan, netM, sentM, lost>>
varsW == <<modelW, bizType, files, selectedW, file, body, resultW, loadingW,
           fileLoading, runLoading, tokenW, metaW, metaErr, metaLoading, netW, sentW>>
varsQ == <<live, statusQ, stop, paused, frames, evalFrame, variables, kids, watchList,
           entered, popup, queue, modelQ, field, dynLogs, selectedQ, askedQ, calls>>
varsJ == <<envs, currentJ, seed, drafts, pushed, listJ, listCurrent, incoming, formJ,
           mode, selName, dirty, armed, busyJ, askingJ, jobs, polls, callsJ>>
vars == <<focus, varsO, varsE, varsP, varsB, varsD, varsF, varsK, varsS, varsL, varsV, varsG, varsR, varsN, varsY, varsX, varsH, varsM, varsW, varsQ, varsJ>>

\* The variables of a component that is not looked at.
NoO == env = 0 /\ token = 0 /\ page = 0 /\ due = 0 /\ linkDue = 0 /\ items = 0
  /\ selected = 0 /\ meta = 0 /\ data = 0 /\ dataPage = 0 /\ flags = 0 /\ busy = 0
  /\ net = 0 /\ sent = 0
NoE == server = 0 /\ metaE = 0 /\ form = 0 /\ dict = 0 /\ payload = 0 /\ asked = 0
  /\ at = 0 /\ effective = 0 /\ rows = 0 /\ total = 0 /\ prev = 0 /\ truncated = 0
  /\ cols = 0 /\ pc = 0
NoP == envP = 0 /\ open = 0 /\ models = 0 /\ model = 0 /\ name = 0 /\ results = 0
  /\ loading = 0 /\ listing = 0 /\ walks = 0 /\ netP = 0 /\ sentP = 0
NoB == modelB = 0 /\ askedB = 0 /\ snapshot = 0 /\ rowsB = 0 /\ pageB = 0
  /\ loadingB = 0 /\ failed = 0 /\ tokenB = 0 /\ used = 0 /\ renewing = 0 /\ autos = 0
  /\ netB = 0 /\ sentB = 0 /\ sortDir = 0 /\ query = 0 /\ peek = 0 /\ opened = 0
NoD == pod = 0 /\ size = 0 /\ dls = 0 /\ dlRef = 0 /\ bar = 0 /\ saved = 0
NoF == podF = 0 /\ path = 0 /\ entries = 0 /\ selectedF = 0 /\ ed = 0 /\ asks = 0
  /\ netF = 0 /\ sentF = 0 /\ harm = 0
NoK == current = 0 /\ envK = 0 /\ podK = 0 /\ reloading = 0 /\ socks = 0 /\ wsRef = 0
  /\ connected = 0 /\ auto = 0 /\ netK = 0 /\ sentK = 0 /\ rowsK = 0
NoS == envS = 0 /\ panelNs = 0 /\ kube = 0 /\ ns = 0 /\ selectedS = 0 /\ atS = 0
  /\ metaS = 0 /\ running = 0 /\ shown = 0 /\ runs = 0 /\ asking = 0 /\ cancels = 0
  /\ busyS = 0 /\ cancelled = 0 /\ thread = 0 /\ events = 0 /\ outcome = 0
NoL == srv = 0 /\ typ = 0 /\ tokenL = 0 /\ image = 0 /\ tokens = 0 /\ result = 0
  /\ resultRef = 0 /\ seq = 0 /\ streaming = 0 /\ params = 0 /\ netL = 0 /\ sentL = 0
  /\ logs = 0 /\ streams = 0 /\ eventsL = 0
NoV == rowsV = 0 /\ hash = 0 /\ logType = 0 /\ win = 0 /\ stack = 0 /\ typePick = 0
  /\ search = 0 /\ filterOn = 0 /\ desc = 0 /\ localPage = 0 /\ activeMatch = 0
  /\ picked = 0
NoG == selectedG = 0 /\ source = 0 /\ bpByPath = 0 /\ breakpoints = 0 /\ tempBp = 0
  /\ status = 0 /\ sessionId = 0 /\ client = 0 /\ line = 0 /\ netG = 0 /\ reads = 0
  /\ progs = 0 /\ wire = 0 /\ put = 0 /\ wanted = 0
NoR == text = 0 /\ parsed = 0 /\ currentR = 0 /\ gateway = 0 /\ override = 0
  /\ caseFile = 0 /\ lessons = 0 /\ preview = 0 /\ netR = 0 /\ sentR = 0 /\ astray = 0
NoN == podN = 0 /\ cont = 0 /\ labelMode = 0 /\ offers = 0 /\ raw = 0 /\ isErr = 0
  /\ autoN = 0 /\ streamingN = 0 /\ abort = 0 /\ openN = 0 /\ netN = 0 /\ sentN = 0
NoY == target = 0 /\ scanned = 0 /\ sel = 0 /\ detail = 0 /\ detailReq = 0
  /\ busyY = 0 /\ acting = 0 /\ netY = 0 /\ sentY = 0 /\ online = 0 /\ local = 0
  /\ deploys = 0 /\ index = 0 /\ astrayY = 0
NoX == api = 0 /\ targetX = 0 /\ fetchSeq = 0 /\ lists = 0 /\ options = 0
  /\ listState = 0 /\ cache = 0 /\ busyX = 0 /\ resultX = 0 /\ netX = 0 /\ ws = 0
  /\ wsRefX = 0 /\ sockets = 0 /\ sentX = 0 /\ astrayX = 0
NoH == tab = 0 /\ targetH = 0 /\ itemsH = 0 /\ searched = 0 /\ pick = 0
  /\ selectedH = 0 /\ asksH = 0 /\ delTarget = 0 /\ delBusy = 0 /\ batch = 0
  /\ time = 0 /\ dates = 0 /\ pageH = 0 /\ rowsH = 0 /\ busyH = 0 /\ netH = 0
  /\ sentH = 0 /\ redis = 0 /\ astrayH = 0
NoM == list = 0 /\ failedM = 0 /\ serverM = 0 /\ window = 0 /\ dataM = 0 /\ err = 0
  /\ busyM = 0 /\ refresh = 0 /\ active = 0 /\ autoRan = 0 /\ netM = 0 /\ sentM = 0
  /\ lost = 0
NoW == modelW = 0 /\ bizType = 0 /\ files = 0 /\ selectedW = 0 /\ file = 0 /\ body = 0
  /\ resultW = 0 /\ loadingW = 0 /\ fileLoading = 0 /\ runLoading = 0 /\ tokenW = 0
  /\ metaW = 0 /\ metaErr = 0 /\ metaLoading = 0 /\ netW = 0 /\ sentW = 0
NoQ == live = 0 /\ statusQ = 0 /\ stop = 0 /\ paused = 0 /\ frames = 0
  /\ evalFrame = 0 /\ variables = 0 /\ kids = 0 /\ watchList = 0 /\ entered = 0
  /\ popup = 0 /\ queue = 0 /\ modelQ = 0 /\ field = 0 /\ dynLogs = 0 /\ selectedQ = 0
  /\ askedQ = 0 /\ calls = 0
NoJ == envs = 0 /\ currentJ = 0 /\ seed = 0 /\ drafts = 0 /\ pushed = 0 /\ listJ = 0
  /\ listCurrent = 0 /\ incoming = 0 /\ formJ = 0 /\ mode = 0 /\ selName = 0
  /\ dirty = 0 /\ armed = 0 /\ busyJ = 0 /\ askingJ = 0 /\ jobs = 0 /\ polls = 0
  /\ callsJ = 0

Init ==
  \/ focus = "objects" /\ O!Init /\ NoE /\ NoP /\ NoB /\ NoD /\ NoF /\ NoK /\ NoS /\ NoL /\ NoV /\ NoG /\ NoR /\ NoN /\ NoY /\ NoX /\ NoH /\ NoM /\ NoW /\ NoQ /\ NoJ
  \/ focus = "ledger" /\ E!Init /\ NoO /\ NoP /\ NoB /\ NoD /\ NoF /\ NoK /\ NoS /\ NoL /\ NoV /\ NoG /\ NoR /\ NoN /\ NoY /\ NoX /\ NoH /\ NoM /\ NoW /\ NoQ /\ NoJ
  \/ focus = "person" /\ P!Init /\ NoO /\ NoE /\ NoB /\ NoD /\ NoF /\ NoK /\ NoS /\ NoL /\ NoV /\ NoG /\ NoR /\ NoN /\ NoY /\ NoX /\ NoH /\ NoM /\ NoW /\ NoQ /\ NoJ
  \/ focus = "table" /\ B!Init /\ NoO /\ NoE /\ NoP /\ NoD /\ NoF /\ NoK /\ NoS /\ NoL /\ NoV /\ NoG /\ NoR /\ NoN /\ NoY /\ NoX /\ NoH /\ NoM /\ NoW /\ NoQ /\ NoJ
  \/ focus = "download" /\ D!Init /\ NoO /\ NoE /\ NoP /\ NoB /\ NoF /\ NoK /\ NoS /\ NoL /\ NoV /\ NoG /\ NoR /\ NoN /\ NoY /\ NoX /\ NoH /\ NoM /\ NoW /\ NoQ /\ NoJ
  \/ focus = "files" /\ F!Init /\ NoO /\ NoE /\ NoP /\ NoB /\ NoD /\ NoK /\ NoS /\ NoL /\ NoV /\ NoG /\ NoR /\ NoN /\ NoY /\ NoX /\ NoH /\ NoM /\ NoW /\ NoQ /\ NoJ
  \/ focus = "panel" /\ K!Init /\ NoO /\ NoE /\ NoP /\ NoB /\ NoD /\ NoF /\ NoS /\ NoL /\ NoV /\ NoG /\ NoR /\ NoN /\ NoY /\ NoX /\ NoH /\ NoM /\ NoW /\ NoQ /\ NoJ
  \/ focus = "snapshot" /\ S!Init /\ NoO /\ NoE /\ NoP /\ NoB /\ NoD /\ NoF /\ NoK /\ NoL /\ NoV /\ NoG /\ NoR /\ NoN /\ NoY /\ NoX /\ NoH /\ NoM /\ NoW /\ NoQ /\ NoJ
  \/ focus = "logs" /\ L!Init /\ NoO /\ NoE /\ NoP /\ NoB /\ NoD /\ NoF /\ NoK /\ NoS /\ NoV /\ NoG /\ NoR /\ NoN /\ NoY /\ NoX /\ NoH /\ NoM /\ NoW /\ NoQ /\ NoJ
  \/ focus = "view" /\ V!Init /\ NoO /\ NoE /\ NoP /\ NoB /\ NoD /\ NoF /\ NoK /\ NoS /\ NoL /\ NoG /\ NoR /\ NoN /\ NoY /\ NoX /\ NoH /\ NoM /\ NoW /\ NoQ /\ NoJ
  \/ focus = "debug" /\ G!Init /\ NoO /\ NoE /\ NoP /\ NoB /\ NoD /\ NoF /\ NoK /\ NoS /\ NoL /\ NoV /\ NoR /\ NoN /\ NoY /\ NoX /\ NoH /\ NoM /\ NoW /\ NoQ /\ NoJ
  \/ focus = "locator" /\ R!Init /\ NoO /\ NoE /\ NoP /\ NoB /\ NoD /\ NoF /\ NoK /\ NoS /\ NoL /\ NoV /\ NoG /\ NoN /\ NoY /\ NoX /\ NoH /\ NoM /\ NoW /\ NoQ /\ NoJ
  \/ focus = "podlog" /\ N!Init /\ NoO /\ NoE /\ NoP /\ NoB /\ NoD /\ NoF /\ NoK /\ NoS /\ NoL /\ NoV /\ NoG /\ NoR /\ NoY /\ NoX /\ NoH /\ NoM /\ NoW /\ NoQ /\ NoJ
  \/ focus = "deploy" /\ Y!Init /\ NoO /\ NoE /\ NoP /\ NoB /\ NoD /\ NoF /\ NoK /\ NoS /\ NoL /\ NoV /\ NoG /\ NoR /\ NoN /\ NoX /\ NoH /\ NoM /\ NoW /\ NoQ /\ NoJ
  \/ focus = "tester" /\ X!Init /\ NoO /\ NoE /\ NoP /\ NoB /\ NoD /\ NoF /\ NoK /\ NoS /\ NoL /\ NoV /\ NoG /\ NoR /\ NoN /\ NoY /\ NoH /\ NoM /\ NoW /\ NoQ /\ NoJ
  \/ focus = "ops" /\ H!Init /\ NoO /\ NoE /\ NoP /\ NoB /\ NoD /\ NoF /\ NoK /\ NoS /\ NoL /\ NoV /\ NoG /\ NoR /\ NoN /\ NoY /\ NoX /\ NoM /\ NoW /\ NoQ /\ NoJ
  \/ focus = "monitor" /\ M!Init /\ NoO /\ NoE /\ NoP /\ NoB /\ NoD /\ NoF /\ NoK /\ NoS /\ NoL /\ NoV /\ NoG /\ NoR /\ NoN /\ NoY /\ NoX /\ NoH /\ NoW /\ NoQ /\ NoJ
  \/ focus = "metafiles" /\ W!Init /\ NoO /\ NoE /\ NoP /\ NoB /\ NoD /\ NoF /\ NoK /\ NoS /\ NoL /\ NoV /\ NoG /\ NoR /\ NoN /\ NoY /\ NoX /\ NoH /\ NoM /\ NoQ /\ NoJ
  \/ focus = "inspect" /\ Q!Init /\ NoO /\ NoE /\ NoP /\ NoB /\ NoD /\ NoF /\ NoK /\ NoS /\ NoL /\ NoV /\ NoG /\ NoR /\ NoN /\ NoY /\ NoX /\ NoH /\ NoM /\ NoW /\ NoJ
  \/ focus = "envs" /\ J!Init /\ NoO /\ NoE /\ NoP /\ NoB /\ NoD /\ NoF /\ NoK /\ NoS /\ NoL /\ NoV /\ NoG /\ NoR /\ NoN /\ NoY /\ NoX /\ NoH /\ NoM /\ NoW /\ NoQ

\* A step of one component leaves the others alone.
InO(A) == focus = "objects" /\ A /\ UNCHANGED <<focus, varsE, varsP, varsB, varsD, varsF, varsK, varsS, varsL, varsV, varsG, varsR, varsN, varsY, varsX, varsH, varsM, varsW, varsQ, varsJ>>
InE(A) == focus = "ledger" /\ A /\ UNCHANGED <<focus, varsO, varsP, varsB, varsD, varsF, varsK, varsS, varsL, varsV, varsG, varsR, varsN, varsY, varsX, varsH, varsM, varsW, varsQ, varsJ>>
InP(A) == focus = "person" /\ A /\ UNCHANGED <<focus, varsO, varsE, varsB, varsD, varsF, varsK, varsS, varsL, varsV, varsG, varsR, varsN, varsY, varsX, varsH, varsM, varsW, varsQ, varsJ>>
InB(A) == focus = "table" /\ A /\ UNCHANGED <<focus, varsO, varsE, varsP, varsD, varsF, varsK, varsS, varsL, varsV, varsG, varsR, varsN, varsY, varsX, varsH, varsM, varsW, varsQ, varsJ>>
InD(A) == focus = "download" /\ A /\ UNCHANGED <<focus, varsO, varsE, varsP, varsB, varsF, varsK, varsS, varsL, varsV, varsG, varsR, varsN, varsY, varsX, varsH, varsM, varsW, varsQ, varsJ>>
InF(A) == focus = "files" /\ A /\ UNCHANGED <<focus, varsO, varsE, varsP, varsB, varsD, varsK, varsS, varsL, varsV, varsG, varsR, varsN, varsY, varsX, varsH, varsM, varsW, varsQ, varsJ>>
InK(A) == focus = "panel" /\ A /\ UNCHANGED <<focus, varsO, varsE, varsP, varsB, varsD, varsF, varsS, varsL, varsV, varsG, varsR, varsN, varsY, varsX, varsH, varsM, varsW, varsQ, varsJ>>
InS(A) == focus = "snapshot" /\ A /\ UNCHANGED <<focus, varsO, varsE, varsP, varsB, varsD, varsF, varsK, varsL, varsV, varsG, varsR, varsN, varsY, varsX, varsH, varsM, varsW, varsQ, varsJ>>
InL(A) == focus = "logs" /\ A /\ UNCHANGED <<focus, varsO, varsE, varsP, varsB, varsD, varsF, varsK, varsS, varsV, varsG, varsR, varsN, varsY, varsX, varsH, varsM, varsW, varsQ, varsJ>>
InV(A) == focus = "view" /\ A /\ UNCHANGED <<focus, varsO, varsE, varsP, varsB, varsD, varsF, varsK, varsS, varsL, varsG, varsR, varsN, varsY, varsX, varsH, varsM, varsW, varsQ, varsJ>>
InG(A) == focus = "debug" /\ A /\ UNCHANGED <<focus, varsO, varsE, varsP, varsB, varsD, varsF, varsK, varsS, varsL, varsV, varsR, varsN, varsY, varsX, varsH, varsM, varsW, varsQ, varsJ>>
InR(A) == focus = "locator" /\ A /\ UNCHANGED <<focus, varsO, varsE, varsP, varsB, varsD, varsF, varsK, varsS, varsL, varsV, varsG, varsN, varsY, varsX, varsH, varsM, varsW, varsQ, varsJ>>
InN(A) == focus = "podlog" /\ A /\ UNCHANGED <<focus, varsO, varsE, varsP, varsB, varsD, varsF, varsK, varsS, varsL, varsV, varsG, varsR, varsY, varsX, varsH, varsM, varsW, varsQ, varsJ>>
InY(A) == focus = "deploy" /\ A /\ UNCHANGED <<focus, varsO, varsE, varsP, varsB, varsD, varsF, varsK, varsS, varsL, varsV, varsG, varsR, varsN, varsX, varsH, varsM, varsW, varsQ, varsJ>>
InX(A) == focus = "tester" /\ A /\ UNCHANGED <<focus, varsO, varsE, varsP, varsB, varsD, varsF, varsK, varsS, varsL, varsV, varsG, varsR, varsN, varsY, varsH, varsM, varsW, varsQ, varsJ>>
InH(A) == focus = "ops" /\ A /\ UNCHANGED <<focus, varsO, varsE, varsP, varsB, varsD, varsF, varsK, varsS, varsL, varsV, varsG, varsR, varsN, varsY, varsX, varsM, varsW, varsQ, varsJ>>
InM(A) == focus = "monitor" /\ A /\ UNCHANGED <<focus, varsO, varsE, varsP, varsB, varsD, varsF, varsK, varsS, varsL, varsV, varsG, varsR, varsN, varsY, varsX, varsH, varsW, varsQ, varsJ>>
InW(A) == focus = "metafiles" /\ A /\ UNCHANGED <<focus, varsO, varsE, varsP, varsB, varsD, varsF, varsK, varsS, varsL, varsV, varsG, varsR, varsN, varsY, varsX, varsH, varsM, varsQ, varsJ>>
InQ(A) == focus = "inspect" /\ A /\ UNCHANGED <<focus, varsO, varsE, varsP, varsB, varsD, varsF, varsK, varsS, varsL, varsV, varsG, varsR, varsN, varsY, varsX, varsH, varsM, varsW, varsJ>>
InJ(A) == focus = "envs" /\ A /\ UNCHANGED <<focus, varsO, varsE, varsP, varsB, varsD, varsF, varsK, varsS, varsL, varsV, varsG, varsR, varsN, varsY, varsX, varsH, varsM, varsW, varsQ>>

Next == InO(O!Next) \/ InE(E!Next) \/ InP(P!Next) \/ InB(B!Next) \/ InD(D!Next) \/ InF(F!Next) \/ InK(K!Next) \/ InS(S!Next) \/ InL(L!Next) \/ InV(V!Next) \/ InG(G!Next) \/ InR(R!Next) \/ InN(N!Next) \/ InY(Y!Next) \/ InX(X!Next) \/ InH(H!Next) \/ InM(M!Next) \/ InW(W!Next) \/ InQ(Q!Next) \/ InJ(J!Next)

\* The fairness that the components state for themselves.
Fairness ==
  /\ WF_vars(InE(E!Next)) /\ WF_vars(InP(P!Answers)) /\ WF_vars(InD(D!Running))
  /\ WF_vars(InS(S!Route)) /\ WF_vars(InS(S!Handles)) /\ WF_vars(InS(S!Threads))

Spec == Init /\ [][Next]_vars /\ Fairness
-----------------------------------------------------------------------------
\* The types of the component that is looked at.
TypeOK ==
  /\ focus = "objects" => O!TypeOK
  /\ focus = "person" => P!TypeOK
  /\ focus = "table" => B!TypeOK
  /\ focus = "download" => D!TypeOK
  /\ focus = "files" => F!TypeOK
  /\ focus = "panel" => K!TypeOK
  /\ focus = "snapshot" => S!TypeOK
  /\ focus = "logs" => L!TypeOK
  /\ focus = "view" => V!TypeOK
  /\ focus = "debug" => G!TypeOK
  /\ focus = "locator" => R!TypeOK
  /\ focus = "podlog" => N!TypeOK
  /\ focus = "deploy" => Y!TypeOK
  /\ focus = "tester" => X!TypeOK
  /\ focus = "ops" => H!TypeOK
  /\ focus = "monitor" => M!TypeOK
  /\ focus = "metafiles" => W!TypeOK
  /\ focus = "inspect" => Q!TypeOK
  /\ focus = "envs" => J!TypeOK

(***************************************************************************)
(* What a pane shows belongs to what was chosen last; the chart and the    *)
(* export are of the rows the table shows, and a row that is written after *)
(* a query reaches the table.  Where a panel takes an answer without asking*)
(* whose it is, this is so under the conditions that the instances above   *)
(* set: Patient, Calm, Idle, Ordered.                                      *)
(***************************************************************************)
ShownIsChosen ==
  /\ focus = "objects" => O!ShownIsChosen /\ O!SignsGo
  /\ focus = "person" => P!VerdictIsOfForm
  /\ focus = "table" => B!RowsAreOfModel /\ B!AutoQueryOnce /\ B!PeekIsOfRow
  /\ focus = "panel" => K!PodIsOfEnv /\ K!RowsAreOfEnv
  /\ focus = "files" => F!ListIsOfPath
  /\ focus = "snapshot" => S!ResultIsShown /\ S!LogIsOfRow /\ S!DescribeIsOfSelected
  /\ focus = "debug" => G!SourceIsSelected /\ G!LineIsTrue
  /\ focus = "inspect" => Q!WatchesStay /\ Q!ValuesAreOfFrame /\ Q!FieldStays
  /\ focus = "logs" => L!DistIsOfResult /\ L!RowsReach
  /\ focus = "view" => V!ChartIsTrue /\ V!ChartCountsAll /\ V!PickKeepsBar /\ V!ExportIsShown /\ V!MatchIsShown
  /\ focus = "locator" => R!ValueIsOfError
  /\ focus = "podlog" => N!RawIsOfTarget
  /\ focus = "deploy" => Y!DetailIsOfSelected
  /\ focus = "tester" => X!OptionsAreOfTarget /\ X!DisplayIsLatest
  /\ focus = "ops" => H!FoundIsOfTarget
  /\ focus = "metafiles" => W!FileIsOfSelected /\ W!ResultIsOfSelected /\ W!ErrorIsOfToken
  /\ focus = "envs" => J!FormIsTrue
  /\ focus = "monitor" => M!DataIsOfChosen /\ M!BusyIsTrue /\ M!FiguresStay

(***************************************************************************)
(* What the user does hits what the page shows: the terminal, the file and *)
(* the download are of the chosen pod, the stream and the debugged program *)
(* are the ones the page holds, with the breakpoints it shows.  The        *)
(* instances above keep out what breaks it: a list that fails to load      *)
(* (Listed), a shell left open (Attached), calls under way while the user  *)
(* goes on (Calm, Patient), deletions that fail (Reliable).                *)
(***************************************************************************)
ActsOnShown ==
  /\ focus = "panel" => K!TypesIntoTarget /\ K!SignIsTrue
  /\ focus = "files" => F!NoHarm
  /\ focus = "download" => D!ActiveIsHeld
  /\ focus = "logs" => L!StreamIsHeld /\ L!SessionIsOfServer
  /\ focus = "debug" => G!BreakpointsArePut /\ G!SessionIsHeld
  /\ focus = "locator" => R!NothingAstray
  /\ focus = "inspect" => Q!DeletesShown
  /\ focus = "podlog" => N!StreamIsHeld
  /\ focus = "deploy" => Y!NothingAstray
  /\ focus = "tester" => X!SessionIsHeld /\ X!ToldIsTrue
  /\ focus = "ops" => H!DeletesFound /\ H!GoneIsDeleted
  /\ focus = "envs" => J!SaveIsWhatItSays /\ J!DeletesArmed

(***************************************************************************)
(* A file holds all of the one object that it is named for, and the ledger *)
(* of deployments all that were made, one at a time (Alone) and from       *)
(* versions that could be read (Reachable).                                *)
(***************************************************************************)
FilesAreWhole ==
  /\ focus = "ledger" => E!FilterIsAnd /\ E!KeywordIsUseful /\ E!ExportIsView /\ E!ExportIsComplete /\ E!CutExportIsFull
  /\ focus = "download" => D!DoneIsComplete
  /\ focus = "deploy" => Y!LedgerIsTrue

\* What is under way, and what it comes to.
Pending ==
  \/ focus = "ledger" /\ pc \notin {"done", "refused"}
  \/ focus = "person" /\ ~P!Idle
  \/ focus = "download" /\ D!Waiting
  \/ focus = "snapshot" /\ running
Settled ==
  \/ focus = "ledger" /\ pc \in {"done", "refused"}
  \/ focus = "person" /\ P!Idle
  \/ focus = "download" /\ ~D!Waiting
  \/ focus = "snapshot" /\ ~running

(***************************************************************************)
(* What was begun comes to its end: an export, a look-up, a download that  *)
(* is not paused, a snapshot.                                              *)
(***************************************************************************)
Returns ==
  Pending ~> Settled
=============================================================================
