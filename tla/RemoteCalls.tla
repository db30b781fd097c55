---------------------------- MODULE RemoteCalls -----------------------------
(***************************************************************************)
(* What window.ui promises to the code that calls it, whichever transport  *)
(* is in place: a call is served at most once, its promise settles at most *)
(* once and with the answer to that call; a page that is left behind is    *)
(* told nothing any more. UiBridgeCalls implements this.                   *)
(***************************************************************************)
CONSTANTS Ids, Calls, None

VARIABLES
  stage,    \* "idle", "asked", "served", or "lost" when no answer will come
  asked,    \* the call that was made under each id
  awaits,   \* the call whose promise the page waits on
  outcome   \* the last promise that settled: its call, and the call that was answered

vars == <<stage, asked, awaits, outcome>>

Init ==
  /\ stage = [i \in Ids |-> "idle"]
  /\ asked = [i \in Ids |-> None] /\ awaits = [i \in Ids |-> None]
  /\ outcome = None

Ask(i, c) ==
  /\ stage[i] = "idle"
  /\ stage' = [stage EXCEPT ![i] = "asked"]
  /\ asked' = [asked EXCEPT ![i] = c] /\ awaits' = [awaits EXCEPT ![i] = c]
  /\ UNCHANGED outcome

Serve(i) ==
  /\ stage[i] = "asked"
  /\ stage' = [stage EXCEPT ![i] = "served"]
  /\ UNCHANGED <<asked, awaits, outcome>>

(* The answer that is given is the one to the call that was made under the id. *)
Settle(i) ==
  /\ stage[i] = "served" /\ awaits[i] # None
  /\ outcome' = [call |-> awaits[i], answered |-> asked[i]]
  /\ stage' = [stage EXCEPT ![i] = "idle"]
  /\ asked' = [asked EXCEPT ![i] = None] /\ awaits' = [awaits EXCEPT ![i] = None]

(* An answer is not delivered. If the page waits for it, it waits in vain. *)
Lose(i) ==
  /\ stage[i] \in {"asked", "served"}
  /\ stage' = [stage EXCEPT ![i] = IF awaits[i] = None THEN "idle" ELSE "lost"]
  /\ asked' = [asked EXCEPT ![i] = None]
  /\ UNCHANGED <<awaits, outcome>>

(* The page is left; some answers go with it. *)
Leave(dropped) ==
  /\ dropped \subseteq {i \in Ids : stage[i] = "served"}
  /\ awaits' = [i \in Ids |-> None]
  /\ stage' = [i \in Ids |-> IF i \in dropped \/ stage[i] = "lost" THEN "idle" ELSE stage[i]]
  /\ asked' = [i \in Ids |-> IF i \in dropped THEN None ELSE asked[i]]
  /\ UNCHANGED outcome

Next ==
  \/ \E i \in Ids : (\E c \in Calls : Ask(i, c)) \/ Serve(i) \/ Settle(i) \/ Lose(i)
  \/ \E dropped \in SUBSET Ids : Leave(dropped)

Spec == Init /\ [][Next]_vars
=============================================================================
