-------------------------------- MODULE WarmUp --------------------------------
(***************************************************************************)
(* What the startup warm-up promises, without its Redis keys: one pass at  *)
(* a time unless exclusion was lost; a pass passes over a secret only when *)
(* there is nothing to do for it, and tries only what needs it, unless     *)
(* another pass was at that secret since the rows were read; completion is *)
(* declared only by a pass that came to every secret.                      *)
(***************************************************************************)

CONSTANTS Processes, Secrets

VARIABLES
  stage,    \* stage[p]: "out", "entering", "in" a pass, "leaving" after it
  left,     \* left[p]: what the pass of p has still to come to
  tried,    \* tried[p]: what it has left last, if it has tried it
  touched,  \* touched[p]: of what is left, what others have tried meanwhile
  pending,  \* the secrets that are due or missing
  marked,   \* completion is declared
  lost      \* exclusion was lost since everybody was last out

vars == <<stage, left, tried, touched, pending, marked, lost>>

OthersOut(p) == \A q \in Processes \ {p} : stage[q] = "out"

Init ==
  /\ stage = [p \in Processes |-> "out"]
  /\ left = [p \in Processes |-> {}]
  /\ tried = [p \in Processes |-> {}]
  /\ touched = [p \in Processes |-> {}]
  /\ pending \in SUBSET Secrets
  /\ marked = FALSE
  /\ lost = FALSE

Enter(p) ==
  /\ stage[p] = "out" /\ (lost \/ OthersOut(p))
  /\ stage' = [stage EXCEPT ![p] = "entering"]
  /\ UNCHANGED <<left, tried, touched, pending, marked, lost>>

Begin(p) ==
  /\ stage[p] = "entering"
  /\ stage' = [stage EXCEPT ![p] = "in"]
  /\ left' = [left EXCEPT ![p] = Secrets]
  /\ UNCHANGED <<tried, touched, pending, marked, lost>>

\* Nothing to do for s, unless it is another's doing.
PassOver(p, s) ==
  /\ s \in left[p] /\ (s \notin pending \/ s \in touched[p])
  /\ left' = [left EXCEPT ![p] = @ \ {s}]
  /\ tried' = [tried EXCEPT ![p] = {}]
  /\ touched' = [touched EXCEPT ![p] = @ \ {s}]
  /\ UNCHANGED <<stage, pending, marked, lost>>

\* Something to do for s, unless another has done it already.
Try(p, s) ==
  /\ s \in left[p] /\ (s \in pending \/ s \in touched[p])
  /\ left' = [left EXCEPT ![p] = @ \ {s}]
  /\ tried' = [tried EXCEPT ![p] = {s}]
  /\ touched' = [q \in Processes |->
                   IF q = p THEN touched[q] \ {s}
                   ELSE touched[q] \cup ({s} \cap left[q])]
  /\ pending' \in {pending, pending \ {s}}
  /\ UNCHANGED <<stage, marked, lost>>

Complete(p) ==
  /\ stage[p] = "in" /\ left[p] = {}
  /\ stage' = [stage EXCEPT ![p] = "leaving"]
  /\ tried' = [tried EXCEPT ![p] = {}]
  /\ marked' = TRUE
  /\ UNCHANGED <<left, touched, pending, lost>>

Abort(p) ==
  /\ stage[p] = "in"
  /\ stage' = [stage EXCEPT ![p] = "leaving"]
  /\ left' = [left EXCEPT ![p] = {}]
  /\ tried' = [tried EXCEPT ![p] = {}]
  /\ touched' = [touched EXCEPT ![p] = {}]
  /\ UNCHANGED <<pending, marked, lost>>

Exit(p) ==
  /\ stage[p] # "out"
  /\ stage' = [stage EXCEPT ![p] = "out"]
  /\ left' = [left EXCEPT ![p] = {}]
  /\ tried' = [tried EXCEPT ![p] = {}]
  /\ touched' = [touched EXCEPT ![p] = {}]
  /\ lost' = (lost /\ ~OthersOut(p))
  /\ UNCHANGED <<pending, marked>>

\* Time passes and Redis forgets: more to do, no declaration, no exclusion.
Decay ==
  /\ pending' \in {d \in SUBSET Secrets : pending \subseteq d}
  /\ marked' \in BOOLEAN /\ (marked' => marked)
  /\ lost' \in BOOLEAN /\ (lost => lost')
  /\ lost' => \E p \in Processes : stage[p] # "out"
  /\ UNCHANGED <<stage, left, tried, touched>>

Next ==
  \/ \E p \in Processes : Enter(p) \/ Begin(p) \/ Complete(p) \/ Abort(p) \/ Exit(p)
  \/ \E p \in Processes, s \in Secrets : PassOver(p, s) \/ Try(p, s)
  \/ Decay

Spec == Init /\ [][Next]_vars
===============================================================================
