----------------------------- MODULE BatchPromise -----------------------------
(***************************************************************************)
(* What api_diff_merge_batch promises to the tab that asked: every file of *)
(* the request is decided once and for good, and the answer comes when all *)
(* of them are.                                                            *)
(***************************************************************************)
CONSTANTS Items, Verdicts, Undecided

VARIABLES verdict, answered
promise == <<verdict, answered>>

Init ==
  /\ verdict = [i \in Items |-> Undecided]
  /\ answered = FALSE

Decide(i) ==
  /\ verdict[i] = Undecided
  /\ \E v \in Verdicts : verdict' = [verdict EXCEPT ![i] = v]
  /\ UNCHANGED answered

Answer ==
  /\ ~answered
  /\ \A i \in Items : verdict[i] # Undecided
  /\ answered' = TRUE
  /\ UNCHANGED verdict

Next == Answer \/ \E i \in Items : Decide(i)

Spec == Init /\ [][Next]_promise

FairSpec == Spec /\ WF_promise(Next)
=============================================================================
