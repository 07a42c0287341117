----------------------------- MODULE UsageLedger -----------------------------
(***************************************************************************)
(* UsefulKey with a record of what each key was sold and what it granted,  *)
(* for instances in which only verification changes usesRemaining.         *)
(***************************************************************************)
EXTENDS UsefulKey

CONSTANT MaxGranted   (* Bound: no verification begins after so many. *)

VARIABLES
  budget,     (* The usesRemaining each key was created with, Null before.    *)
  granted     (* Successful verifications of each limited key.                *)

lvars == <<vars, budget, granted>>

LedgerInit ==
  /\ Init
  /\ budget = [h \in Hashes |-> Null]
  /\ granted = [h \in Hashes |-> 0]


(* The verifications of h that this step decides in the key's favour. *)
Grants(h) == {c \in Callers : /\ pc[c] = "found" /\ pc'[c] = "update"
                              /\ call[c].op = "verifyKey" /\ record[c].keyHash = h}

LedgerNext ==
  /\ Next
  /\ budget' = [h \in Hashes |->
       IF \E r \in Rows' : r.keyHash = h /\ h \notin issued
         THEN (CHOOSE r \in Rows' : r.keyHash = h).usesRemaining
         ELSE budget[h]]
  /\ granted' = [h \in Hashes |-> granted[h] + Cardinality(Grants(h))]
  /\ \A c \in Callers : pc[c] = "idle" /\ pc'[c] = "find" /\ call'[c].op = "verifyKey"
                         => granted[call'[c].keyHash] < MaxGranted

LedgerSpec == LedgerInit /\ [][LedgerNext]_lvars

(* The limit cheats neither side in one direction: a key never shows more    *)
(* uses than it was sold, and however verifications overlap, none is charged *)
(* twice, so a key sold n uses is good for n verifications at the least.     *)
(* (It may be good for more: see EachValidCostsAUse.)                        *)
NeverOvercharged ==
  \A h \in Hashes : \A r \in Copies(h) :
    IF budget[h] = Null
      THEN r.usesRemaining = Null
      ELSE /\ r.usesRemaining \in 0..budget[h]
           /\ r.usesRemaining + granted[h] >= budget[h]
=============================================================================
