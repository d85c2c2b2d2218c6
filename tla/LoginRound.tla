----------------------------- MODULE LoginRound ------------------------------
(***************************************************************************)
(* What an interactive round promises run(): it ends with a token for a    *)
(* code the authorization server sent back to this round, or with an       *)
(* error, once and for all, and it does end once anything has come back.   *)
(***************************************************************************)
CONSTANTS Codes, NoCode

VARIABLES
  arrived,   \* some redirect or stray request reached the callback
  codes,     \* the codes redirected to this round so far
  verdict    \* [state, code]

vars == <<arrived, codes, verdict>>

Pending     == [state |-> "pending", code |-> NoCode]
Failed      == [state |-> "failed", code |-> NoCode]
Token(code) == [state |-> "token", code |-> code]

Init == arrived = FALSE /\ codes = {} /\ verdict = Pending

Arrive ==
  /\ arrived' = TRUE
  /\ codes' \in {codes} \cup {codes \cup {c} : c \in Codes}
  /\ UNCHANGED verdict

\* An error may end the round at any time: a failed push, a cancelled context.
Settle ==
  /\ verdict = Pending
  /\ verdict' \in {Failed} \cup {Token(c) : c \in codes}
  /\ UNCHANGED <<arrived, codes>>

Next == Arrive \/ Settle

Spec == Init /\ [][Next]_vars /\ WF_vars(arrived /\ Settle)
=============================================================================
