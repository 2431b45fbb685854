--------------------------- MODULE AuthCodeGrant ---------------------------
(***************************************************************************)
(* What an authorization server promises about authorization codes         *)
(* (RFC 6749, 4.1.2): a code is granted to one client and is redeemed at   *)
(* most once, by that client.  Nothing here expires, stalls or crashes; a  *)
(* code that is never redeemed stays as it is.                             *)
(***************************************************************************)
EXTENDS Sequences

CONSTANTS Codes, ClientIds, None

VARIABLES
  grantee,    \* the client a code was granted to, or None
  redeemedBy  \* the clients that obtained a token with the code, in order

vars == <<grantee, redeemedBy>>

Init ==
  /\ grantee = [c \in Codes |-> None]
  /\ redeemedBy = [c \in Codes |-> <<>>]

Grant(c, id) ==
  /\ grantee[c] = None
  /\ grantee' = [grantee EXCEPT ![c] = id]
  /\ UNCHANGED redeemedBy

Redeem(c) ==
  /\ grantee[c] # None
  /\ redeemedBy[c] = <<>>
  /\ redeemedBy' = [redeemedBy EXCEPT ![c] = <<grantee[c]>>]
  /\ UNCHANGED grantee

Next ==
  \/ \E c \in Codes, id \in ClientIds : Grant(c, id)
  \/ \E c \in Codes : Redeem(c)

Spec == Init /\ [][Next]_vars

=============================================================================
