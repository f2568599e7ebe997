----------------------------- MODULE OnceEffect -----------------------------
(***************************************************************************)
(* What an authority of product effects promises to the consumers of a     *)
(* finished generation (GenerationTaskEffectStore): a consumer works under *)
(* a numbered claim, only the newest claim of an effect can end it, only   *)
(* while it has not lapsed, and what is done stays done.  GenerationEffects *)
(* shows how the browser's records and the canvas agent's do it.           *)
(***************************************************************************)
EXTENDS Naturals

CONSTANTS
  Effects,    \* the effects of a task, per account where accounts have their own
  Workers,    \* consumers
  MaxFence,   \* bound: claims of one effect
  NoClaim

VARIABLES
  status,  \* of each effect: free, held, lapsed or done
  fence,   \* the number of its newest claim
  claim    \* the claim each worker works under

vars == <<status, fence, claim>>

Statuses == {"free", "held", "lapsed", "done"}
Claim    == [effect : Effects, fence : 1..MaxFence]

OnceTypeOK ==
  /\ status \in [Effects -> Statuses]
  /\ fence \in [Effects -> 0..MaxFence]
  /\ claim \in [Workers -> Claim \cup {NoClaim}]

Init ==
  /\ status = [e \in Effects |-> "free"]
  /\ fence = [e \in Effects |-> 0]
  /\ claim = [w \in Workers |-> NoClaim]

Take(w, e) ==
  /\ claim[w] = NoClaim /\ status[e] \in {"free", "lapsed"} /\ fence[e] < MaxFence
  /\ status' = [status EXCEPT ![e] = "held"]
  /\ fence' = [fence EXCEPT ![e] = @ + 1]
  /\ claim' = [claim EXCEPT ![w] = [effect |-> e, fence |-> fence[e] + 1]]

\* The answer to a claim may be lost: nobody works under it and it lapses.
TakeUnseen(e) ==
  /\ status[e] \in {"free", "lapsed"} /\ fence[e] < MaxFence
  /\ status' = [status EXCEPT ![e] = "held"]
  /\ fence' = [fence EXCEPT ![e] = @ + 1]
  /\ UNCHANGED claim

Newest(w, e) == claim[w] = [effect |-> e, fence |-> fence[e]]

\* The holder ends the effect, for good or for the next one to try; it may
\* not learn of it.
End(w, e) ==
  /\ Newest(w, e) /\ status[e] = "held"
  /\ \E s \in {"free", "done"} : status' = [status EXCEPT ![e] = s]
  /\ claim' \in {claim, [claim EXCEPT ![w] = NoClaim]}
  /\ UNCHANGED fence

Lapse(e) ==
  /\ status[e] = "held"
  /\ status' = [status EXCEPT ![e] = "lapsed"]
  /\ UNCHANGED <<fence, claim>>

Leave(W) ==
  /\ claim' = [w \in Workers |-> IF w \in W THEN NoClaim ELSE claim[w]]
  /\ UNCHANGED <<status, fence>>

Next ==
  \/ \E W \in SUBSET Workers : Leave(W)
  \/ \E e \in Effects :
       \/ TakeUnseen(e) \/ Lapse(e)
       \/ \E w \in Workers : Take(w, e) \/ End(w, e)

Spec == Init /\ [][Next]_vars
=============================================================================
