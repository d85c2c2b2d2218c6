----------------------------- MODULE MCAuthCode ------------------------------
(***************************************************************************)
(* Three requests are enough to fill a channel of capacity one, take from  *)
(* it and block on it again.  The two logins differ in their iss, as they  *)
(* do when one of the two redirects carries none.                          *)
(***************************************************************************)
EXTENDS AuthCodeProps

MCResponses ==
  {[kind |-> "stray", code |-> NoCode, iss |-> NoCode],
   [kind |-> "denied", code |-> NoCode, iss |-> NoCode],
   [kind |-> "login", code |-> "code1", iss |-> "issuer"],
   [kind |-> "login", code |-> "code2", iss |-> NoCode]}

MCConfigs == [usePAR : BOOLEAN, canCancel : BOOLEAN]

\* What main.run asks for at a server that requires no pushed request.
PlainConfigs == {[usePAR |-> FALSE, canCancel |-> FALSE]}
=============================================================================
