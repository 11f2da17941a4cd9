----------------------------- MODULE RequestLoop -----------------------------
(***************************************************************************)
(* What the exchange between a planner and its solver amounts to: one      *)
(* token that goes round.  It is made once, it is a request, then a search *)
(* and then a plan, a plan becomes the next request, and once it is lost   *)
(* nobody makes another.                                                   *)
(***************************************************************************)
VARIABLE token

Stage == {"unsent", "request", "search", "plan", "lost"}

LoopInit == token = "unsent"

Ask    == token = "unsent"  /\ token' \in {"request", "lost"}
Take   == token = "request" /\ token' = "search"
Answer == token = "search"  /\ token' = "plan"
Renew  == token = "plan"    /\ token' \in {"request", "lost"}
Lose   == token \in {"request", "search"} /\ token' = "lost"

LoopNext == Ask \/ Take \/ Answer \/ Renew \/ Lose

LoopSpec == LoopInit /\ [][LoopNext]_token
=============================================================================
