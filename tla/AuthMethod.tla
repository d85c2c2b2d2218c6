------------------------------ MODULE AuthMethod ------------------------------
(***************************************************************************)
(* How a client authenticates at the token endpoint: which method is       *)
(* settled on, and what a request that follows it shows the server.  Wire  *)
(* and Session use the same rules.                                         *)
(***************************************************************************)
Methods == {"none", "client_secret_post", "client_secret_basic"}

\* resolveTokenAuthMethod.
TokenAuthMethod(explicit, advertised, secret) ==
  IF explicit # "" THEN explicit
  ELSE IF ~secret /\ "none" \in advertised THEN "none"
  ELSE IF "client_secret_basic" \in advertised /\ "client_secret_post" \notin advertised
       THEN "client_secret_basic"
  ELSE "client_secret_post"

\* ApplyClientAuth, by how the server sees the client authenticate: "" when the
\* request carries no secret.
ApplyClientAuth(method, secret) == IF secret /\ method # "none" THEN method ELSE ""
===============================================================================
