---------------------------- MODULE K8sDownload -----------------------------
(***************************************************************************)
(* Downloads from a pod's file system: the downloader that fetches a file  *)
(* slice by slice (utils/k8sFileDownload.ts), the file panel that holds    *)
(* one of them (K8sFiles.tsx), the bar with its buttons                    *)
(* (K8sDownloadBar.tsx) and the routes that read a slice.                  *)
(***************************************************************************)
EXTENDS Integers, Sequences

CONSTANTS
  Pods,
  Chunk,        \* length of a slice
  MaxFile,      \* longest file
  MaxMemory,    \* maxSize: files above it are refused
  MaxRetries,
  Stable,       \* the file does not change while it is read
  Calm,         \* the user starts a download when the one before has ended
  MaxDownloads  \* bound

VARIABLES
  pod,          \* target.pod
  size,         \* length of the file in the container
  dls,          \* the downloaders made so far
  dlRef,        \* number of the one that the buttons reach, or 0
  bar,          \* dlProg: <<number, status>> of the last progress, or none
  saved         \* <<number, bytes>> of the files handed to the browser

vars == <<pod, size, dls, dlRef, bar, saved>>

Ids == DOMAIN dls
NoBar == <<>>
Active(d) == dls[d].status \in {"preparing", "downloading", "paused"}
Finished(status) == status \in {"done", "error", "cancelled"}
Shows(statuses) == bar # NoBar /\ bar[2] \in statuses

Init ==
  /\ pod = (CHOOSE p \in Pods : TRUE) /\ size \in 0..MaxFile
  /\ dls = <<>> /\ dlRef = 0 /\ bar = NoBar /\ saved = {}

-----------------------------------------------------------------------------
\* emit: the downloader becomes d, the bar shows it.
Emit(i, d) == dls' = [dls EXCEPT ![i] = d] /\ bar' = <<i, d.status>>

\* The end of run(): the panel's finally drops its handle, whoever it is.
Over(i, d, status) ==
  /\ Emit(i, [d EXCEPT !.status = status, !.at = "over"])
  /\ dlRef' = 0
  /\ saved' = IF status = "done" THEN saved \cup {<<i, d.offset>>} ELSE saved

StartDownload ==
  /\ Len(dls) < MaxDownloads
  /\ dlRef # 0 => ~Active(dlRef)
  /\ Calm => \A i \in Ids : dls[i].at = "over"
  /\ dls' = Append(dls, [pod |-> pod, status |-> "preparing", paused |-> FALSE, cancelled |-> FALSE,
                         at |-> "stat", offset |-> 0, total |-> 0, attempt |-> 0])
  /\ dlRef' = Len(dls) + 1 /\ bar' = <<Len(dls) + 1, "preparing">>
  /\ UNCHANGED <<pod, size, saved>>

\* fetchSize came back; a failure leaves the size unknown (0).
GotSize(i, ok) ==
  LET d == [dls[i] EXCEPT !.total = IF ok THEN size ELSE 0] IN
  /\ dls[i].at = "stat"
  /\ CASE d.cancelled         -> Over(i, d, "cancelled")
       [] ~d.cancelled /\ d.total > MaxMemory -> Over(i, d, "error")
       [] OTHER               -> /\ Emit(i, [d EXCEPT !.status = "downloading", !.at = "gate"])
                                 /\ UNCHANGED <<dlRef, saved>>
  /\ UNCHANGED <<pod, size>>

\* gate: waits while paused, then the next slice is asked for.
Gate(i) ==
  /\ dls[i].at = "gate"
  /\ \/ dls[i].cancelled /\ Over(i, dls[i], "cancelled")
     \/ /\ ~dls[i].cancelled /\ ~dls[i].paused
        /\ dls' = [dls EXCEPT ![i].at = "chunk"] /\ UNCHANGED <<bar, dlRef, saved>>
  /\ UNCHANGED <<pod, size>>

\* tail | head: what is there of the slice; anything if the file is written or
\* rotated meanwhile (nothing when it is gone).
Slices(d) ==
  IF ~Stable THEN 0..Chunk
  ELSE {IF size <= d.offset THEN 0 ELSE IF size - d.offset < Chunk THEN size - d.offset ELSE Chunk}

NextAfterSkips(d, n) ==              \* mutant: the place moves on by what was asked for
  [d EXCEPT !.attempt = 0, !.offset = @ + Chunk]
NextAfter(d, n) == [d EXCEPT !.attempt = 0, !.offset = @ + n]

GotSlice(i) ==
  /\ dls[i].at = "chunk" /\ ~dls[i].cancelled
  /\ \E n \in Slices(dls[i]) :
       LET d == NextAfter(dls[i], n) IN
         IF n < Chunk \/ (d.total > 0 /\ d.offset >= d.total) THEN Over(i, d, "done")
         ELSE Emit(i, [d EXCEPT !.at = "gate"]) /\ UNCHANGED <<dlRef, saved>>
  /\ UNCHANGED <<pod, size>>

\* A slice failed: the same one again after a pause, a bounded number of times.
SliceFails(i) ==
  LET d == [dls[i] EXCEPT !.attempt = @ + 1] IN
  /\ dls[i].at = "chunk" /\ ~d.cancelled
  /\ IF d.attempt > MaxRetries THEN Over(i, d, "error")
     ELSE /\ Emit(i, [d EXCEPT !.at = "backoff", !.status = IF d.paused THEN @ ELSE "downloading"])
          /\ UNCHANGED <<dlRef, saved>>
  /\ UNCHANGED <<pod, size>>

\* The request of a cancelled downloader was aborted.
Aborted(i) ==
  /\ dls[i].at = "chunk" /\ dls[i].cancelled
  /\ Over(i, dls[i], "cancelled")
  /\ UNCHANGED <<pod, size>>

Backoff(i) ==
  /\ dls[i].at = "backoff"
  /\ dls' = [dls EXCEPT ![i].at = "gate"]
  /\ UNCHANGED <<pod, size, dlRef, bar, saved>>

-----------------------------------------------------------------------------
\* The bar's buttons reach the downloader that dlRef holds.
Pause ==
  /\ Shows({"downloading"}) /\ dlRef # 0 /\ dls[dlRef].status = "downloading"
  /\ Emit(dlRef, [dls[dlRef] EXCEPT !.paused = TRUE, !.status = "paused"])
  /\ UNCHANGED <<pod, size, dlRef, saved>>

Resume ==
  /\ Shows({"paused"}) /\ dlRef # 0 /\ dls[dlRef].paused
  /\ Emit(dlRef, [dls[dlRef] EXCEPT !.paused = FALSE, !.status = "downloading"])
  /\ UNCHANGED <<pod, size, dlRef, saved>>

CancelledOf(d) == [d EXCEPT !.cancelled = TRUE, !.paused = FALSE, !.status = "cancelled"]
Cancel ==
  /\ bar # NoBar /\ ~Finished(bar[2]) /\ dlRef # 0 /\ Active(dlRef)
  /\ Emit(dlRef, CancelledOf(dls[dlRef]))
  /\ UNCHANGED <<pod, size, dlRef, saved>>

\* Dismissed by hand, or two seconds after the end.
HideBar ==
  /\ bar # NoBar /\ Finished(bar[2])
  /\ bar' = NoBar
  /\ UNCHANGED <<pod, size, dls, dlRef, saved>>

SelectPodOnly(p) ==                  \* mutant: the download goes on
  /\ p # pod /\ pod' = p
  /\ UNCHANGED <<size, dls, bar, dlRef, saved>>

\* Another pod: the download is cancelled and the bar taken away.
SelectPod(p) ==
  /\ p # pod /\ pod' = p
  /\ IF dlRef # 0 /\ Active(dlRef)
     THEN dls' = [dls EXCEPT ![dlRef] = CancelledOf(@)] /\ bar' = NoBar
     ELSE UNCHANGED <<dls, bar>>
  /\ UNCHANGED <<size, dlRef, saved>>

-----------------------------------------------------------------------------
Runs(i) == \/ \E ok \in BOOLEAN : GotSize(i, ok)
           \/ Gate(i) \/ GotSlice(i) \/ SliceFails(i) \/ Aborted(i) \/ Backoff(i)
User == StartDownload \/ Pause \/ Resume \/ Cancel \/ HideBar \/ \E p \in Pods : SelectPod(p)
Next == User \/ (\E i \in Ids : Runs(i))

Running == \E i \in Ids : Runs(i)
Spec == Init /\ [][Next]_vars /\ WF_vars(Running)
-----------------------------------------------------------------------------
TypeOK ==
  /\ pod \in Pods /\ size \in 0..MaxFile /\ dlRef \in 0..Len(dls) /\ Len(dls) <= MaxDownloads
  /\ \A i \in Ids : dls[i].attempt \in 0..(MaxRetries + 1) /\ dls[i].at \in {"stat", "gate", "chunk", "backoff", "over"}
  /\ bar # NoBar => bar[1] \in Ids

(***************************************************************************)
(* What the browser is handed is the whole file, from a download that      *)
(* nobody cancelled, whatever failed and was paused on the way.            *)
(***************************************************************************)
DoneIsComplete == \A s \in saved : s[2] = size /\ ~dls[s[1]].cancelled

(***************************************************************************)
(* A downloader that still fetches is the one the buttons reach, and reads *)
(* from the chosen pod: changing the pod stops the slices of the old one.  *)
(***************************************************************************)
ActiveIsHeld == \A i \in Ids : Active(i) => dlRef = i /\ dls[i].pod = pod

(***************************************************************************)
(* The bar does not come back in another pod's view.  It does: the aborted *)
(* run reports once more after the panel has taken the bar away.           *)
(***************************************************************************)
BarIsOfPod == bar # NoBar => dls[bar[1]].pod = pod

\* A download ends or waits paused.
Waiting == \E i \in Ids : dls[i].at # "over" /\ ~dls[i].paused
DownloadsEnd == Waiting ~> ~Waiting
=============================================================================
