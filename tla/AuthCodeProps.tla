---------------------------- MODULE AuthCodeProps ----------------------------
(***************************************************************************)
(* What the callback goroutines may and may not do to an interactive       *)
(* round.                                                                  *)
(***************************************************************************)
EXTENDS AuthCode

Handled == {r \in Requests : handler[r] # "idle"}
Logins  == {r \in Handled : request[r].kind = "login"}

\* A string whose two words come from one assignment.
Whole(iss) == [data |-> iss, len |-> iss]

TypeOK ==
  /\ cfg \in Configs
  /\ pc \in {"start", "waiting", "exchanging", "returned"}
  /\ handler \in [Requests -> {"idle", "iss", "isslen", "code", "err", "done"}]
  /\ request \in [Requests -> Responses \cup {NoRequest}]
  /\ codeCh \in Seq(Codes) /\ Len(codeCh) <= Capacity
  /\ errCh \in Seq({"stray", "denied"}) /\ Len(errCh) <= Capacity
  /\ callbackISS \in [data : Isses, len : Isses]
  /\ sent \in Seq(Codes)
  /\ code \in Codes \cup {NoCode}
  /\ result \in [state : {"pending", "failed", "token"}, iss : [data : Isses, len : Isses]]

(***************************************************************************)
(* The round implements LoginRound, its liveness included: a redirect that *)
(* reached the callback ends the wait, whatever else reaches it.           *)
(***************************************************************************)
Round == INSTANCE LoginRound WITH
  arrived <- Handled # {},
  codes   <- {request[r].code : r \in Logins},
  verdict <- [state |-> result.state, code |-> IF result.state = "token" THEN code ELSE NoCode]

ImplementsLoginRound == Round!Spec

\* Of several logins the one whose callback got through first is redeemed: a
\* second tab or a reloaded callback page never replaces it.
FirstLoginWins == code # NoCode => code = sent[1]

\* A round fails after a completed login only if something besides logins got
\* through, the exchange failed, or the context was cancelled: several logins do
\* not defeat each other.
LoginsDoNotCollide ==
  (result.state = "failed" /\ code = NoCode /\ ~cfg.canCancel /\ ~cfg.usePAR) => Logins # Handled

\* The reported iss is the one that came with the redeemed code unless another
\* login reached the callback meanwhile.
IssMixNeedsSecondLogin ==
  result.state = "token" =>
    \/ \E q, r \in Logins : q # r
    \/ \E r \in Logins : request[r].code = code /\ result.iss = Whole(request[r].iss)

----------------------------------------------------------------------------
(***************************************************************************)
(* A statement of the source the round does not keep.                      *)
(***************************************************************************)
\* CallbackISS is the "iss from the authorization response" (authcode.go:34): the
\* response that carried the redeemed code.
IssFromTheResponse ==
  result.state = "token" =>
    \E r \in Logins : request[r].code = code /\ result.iss = Whole(request[r].iss)
=============================================================================
