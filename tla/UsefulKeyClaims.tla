--------------------------- MODULE UsefulKeyClaims ---------------------------
(***************************************************************************)
(* A statement of the documentation, read as a property of UsefulKey with  *)
(* concurrent callers.  The code does not keep it: a run finds the         *)
(* counterexample.                                                         *)
(***************************************************************************)
EXTENDS UsefulKey

(* faq.mdx: "Revoked: always invalid with reason revoked until rotated or    *)
(* deleted".  The row of a revoked key stays revoked until it is deleted.    *)
RevokedUntilDeleted ==
  [][\A i \in Ids :
       keyStore[i] # Null /\ keyStore[i].revoked
         => keyStore'[i] = Null \/ keyStore'[i].revoked]_vars
=============================================================================
