--------------------------- MODULE SerialUsefulKey ---------------------------
(***************************************************************************)
(* UsefulKey implements KeyService when its calls do not overlap: the one  *)
(* caller of the instance waits for each answer.  A call takes effect when *)
(* the code resumes after its read, the write it then sends being applied  *)
(* in the state the service shows; a sweep does when its SELECT is         *)
(* answered, and what it is still to remove shows as removed.              *)
(***************************************************************************)
EXTENDS UsefulKey

(* Calls whose outcome is decided but whose writes have not landed. *)
Decided(c) == pc[c] \in {"update", "remove", "sweep"}

(* The row of id i once the writes of c have landed. *)
Landed(c, i, row) ==
  CASE pc[c] = "update" /\ record[c].id = i -> record[c]
    [] pc[c] = "remove" /\ record[c].id = i -> Null
    [] pc[c] = "sweep" /\ i \in ids[c] -> Null
    [] OTHER -> row

Shown(i) ==
  IF keyStore[i] # Null /\ \E c \in Callers : Decided(c)
    THEN Landed(CHOOSE d \in Callers : Decided(d), i, keyStore[i])
    ELSE keyStore[i]

Outcome(c) ==
  CASE pc[c] = "update" -> IF call[c].op = "verifyKey" THEN "valid" ELSE "ok"
    [] pc[c] = "remove" -> IF call[c].op = "verifyKey" THEN "expired" ELSE "null"
    [] OTHER -> reply[c]

(* The service as it shows. *)
ShownKeys == [i \in Ids |-> Shown(i)]
Asked == [c \in Callers |-> IF Decided(c) THEN Null ELSE call[c]]
Answers == [c \in Callers |-> Outcome(c)]

Service == INSTANCE KeyService WITH
  keys <- ShownKeys, asked <- Asked, answer <- Answers

(* Calls that do not overlap are steps of the service: verification judges   *)
(* the current key, costs one use and gives the one reason that comes first, *)
(* a change is refused or changes one thing, reads and sweeps remove exactly *)
(* the keys they take for expired, and "more" is said of full batches only.  *)
(* Between the SELECT of a call and its UPDATE or DELETE nothing it relies   *)
(* on has changed.                                                           *)
IsKeyService == Service!Spec
=============================================================================
