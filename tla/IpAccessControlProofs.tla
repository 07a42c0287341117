------------------------- MODULE IpAccessControlProofs -------------------------
(***************************************************************************)
(* Proofs about IpAccessControl for every set of instances, plugins,       *)
(* concurrent calls and addresses.                                         *)
(***************************************************************************)
EXTENDS IpAccessControl, TLAPS

-----------------------------------------------------------------------------
(* The inductive invariant: what a call carries in each of its phases. *)

CallOK(c) ==
  /\ phase[c] = "idle" <=> op[c] = Null
  /\ phase[c] # "idle" => instance[c] \in running
  /\ phase[c] = "idle" => instance[c] = Null
  /\ phase[c] \in {"go", "save", "saving", "update"} => loaded[instance[c]]
  /\ phase[c] = "go" => op[c] \in Changes \cup {"verifyKey"}
  /\ phase[c] \in {"save", "saving", "update"} => op[c] \in Changes
  /\ phase[c] \in {"exist", "existing", "create"} => op[c] \in Changes \cup {"setup"}
  /\ phase[c] = "rate" => op[c] = "verifyKey"
  /\ phase[c] \in {"create", "update"} => value[c] # Null
  /\ op[c] \in Changes => ip[c] \in Ips

VarTypes ==
  /\ kind \in [Instances -> Kinds] /\ store \in Stores /\ running \subseteq Instances
  /\ loaded \in [Instances -> BOOLEAN]
  /\ lists \in [Instances -> Lists] /\ record \in Lists \cup {Null}
  /\ phase \in [Callers -> Phases] /\ op \in [Callers -> Ops \cup {Null}]
  /\ instance \in [Callers -> Instances \cup {Null}]
  /\ ip \in [Callers -> Ips \cup Clients \cup {Null}]
  /\ value \in [Callers -> Lists \cup {Null}]
  /\ stale \subseteq running

LoadedRun == \A i \in Instances : loaded[i] => i \in running

IInv == VarTypes /\ (\A c \in Callers : CallOK(c)) /\ LoadedRun

LEMMA InvImpliesTypes == ASSUME IInv PROVE TypeOK
BY DEF IInv, VarTypes, CallOK, TypeOK

LEMMA Initially == ASSUME Init PROVE IInv
<1>1. VarTypes
  BY IpAssumption DEF Init, VarTypes, Lists, Phases
<1>2. \A c \in Callers : CallOK(c)
  BY IpAssumption DEF Init, CallOK, Ops
<1>3. LoadedRun
  BY DEF Init, LoadedRun
<1> QED
  BY <1>1, <1>2, <1>3 DEF IInv

-----------------------------------------------------------------------------
(* Begin, GoOn and Idle keep the types of what a call carries. *)

CallTypes ==
  /\ phase \in [Callers -> Phases] /\ op \in [Callers -> Ops \cup {Null}]
  /\ instance \in [Callers -> Instances \cup {Null}]
  /\ ip \in [Callers -> Ips \cup Clients \cup {Null}]
  /\ value \in [Callers -> Lists \cup {Null}]

LEMMA BeginTypes ==
  ASSUME CallTypes, stale \subseteq running, NEW c \in Callers, NEW o \in Ops,
         NEW i \in Instances \cup {Null}, NEW a \in Ips \cup Clients \cup {Null},
         NEW p \in Phases, Begin(c, o, i, a, p)
  PROVE  CallTypes' /\ stale' \subseteq running \cup {i}
BY DEF Begin, CallTypes

LEMMA GoOnTypes ==
  ASSUME CallTypes, NEW c \in Callers, NEW p \in Phases, NEW v \in Lists \cup {Null},
         GoOn(c, p, v)
  PROVE  CallTypes'
BY DEF GoOn, CallTypes

LEMMA IdleTypes ==
  ASSUME CallTypes, NEW D, Idle(D)
  PROVE  CallTypes'
BY DEF Idle, CallTypes, Phases

(* A method's change of the lists gives lists; only removals shorten deny.   *)
LEMMA ChangeIsLists ==
  ASSUME NEW o \in Changes, NEW a \in Ips, NEW l \in Lists
  PROVE  /\ Change(o, a, l) \in Lists
         /\ o # "clearDeny" =>
              \A b \in Ips : b \in l.deny /\ ~(o = "removeDeny" /\ a = b)
                               => b \in Change(o, a, l).deny
<1>1. CASE o = "addAllow"
  BY <1>1 DEF Change, Lists
<1>2. CASE o = "removeAllow"
  BY <1>2 DEF Change, Lists
<1>3. CASE o = "clearAllow"
  BY <1>3 DEF Change, Lists
<1>4. CASE o = "addDeny"
  BY <1>4 DEF Change, Lists
<1>5. CASE o = "removeDeny"
  BY <1>5 DEF Change, Lists
<1>6. CASE o = "clearDeny"
  BY <1>6 DEF Change, Lists
<1> QED
  BY <1>1, <1>2, <1>3, <1>4, <1>5, <1>6 DEF Changes

-----------------------------------------------------------------------------
(* Each action keeps the types. *)

LEMMA TypesKept ==
  ASSUME IInv, Next
  PROVE  VarTypes'
<1> USE IpAssumption DEF config
<1>0. VarTypes /\ CallTypes /\ \A c \in Callers : CallOK(c)
  BY DEF IInv, VarTypes, CallTypes
<1>p. "idle" \in Phases /\ "load" \in Phases /\ "go" \in Phases /\ "save" \in Phases
      /\ "exist" \in Phases /\ "create" \in Phases /\ "update" \in Phases /\ "rate" \in Phases
      /\ \A p \in DOMAIN Found : Found[p] \in Phases
  BY DEF Phases, Found
<1>n. [allow |-> {}, deny |-> InitialDeny] \in Lists
  BY DEF Lists
<1>1. ASSUME NEW i \in Instances, Construct(i) PROVE VarTypes'
  <2>1. CASE kind[i] = "keystore"
    <3>1. PICK c \in Callers : Begin(c, "setup", i, Null, "exist")
      BY <1>1, <2>1 DEF Construct
    <3>2. CallTypes' /\ stale' \subseteq running \cup {i}
      BY <1>0, <1>p, <3>1, BeginTypes DEF VarTypes, Ops
    <3> QED
      BY <1>0, <1>1, <2>1, <3>1, <3>2 DEF Construct, VarTypes, CallTypes, Begin
  <2>2. CASE kind[i] # "keystore"
    BY <1>0, <1>1, <2>2 DEF Construct, VarTypes, call, config
  <2> QED
    BY <2>1, <2>2
<1>2. ASSUME NEW i \in Instances, Crash(i) PROVE VarTypes'
  <2>1. CallTypes'
    BY <1>0, <1>2, IdleTypes DEF Crash
  <2> QED
    BY <1>0, <1>2, <1>n, <2>1 DEF Crash, VarTypes, CallTypes
<1>3. ASSUME NEW i \in Instances, ChangeMemory(i) PROVE VarTypes'
  <2>1. PICK o \in Changes, a \in Ips : lists' = [lists EXCEPT ![i] = Change(o, a, @)]
    BY <1>3 DEF ChangeMemory
  <2>2. Change(o, a, lists[i]) \in Lists
    BY <1>0, ChangeIsLists DEF VarTypes
  <2> QED
    BY <1>0, <1>3, <2>1, <2>2 DEF ChangeMemory, VarTypes, call
<1>4. ASSUME NEW c \in Callers, NEW i \in Instances, Call(c, i) PROVE VarTypes'
  <2> DEFINE first == IF loaded[i] THEN "go" ELSE "load"
  <2>1. CallTypes' /\ stale' \subseteq running \cup {i}
    <3>1. first \in Phases /\ stale \subseteq running
      BY <1>0, <1>p DEF VarTypes
    <3>2. ASSUME NEW a \in Clients, Begin(c, "verifyKey", i, a, first)
          PROVE  CallTypes' /\ stale' \subseteq running \cup {i}
      <4> HIDE DEF first
      <4>1. "verifyKey" \in Ops
        BY DEF Ops
      <4> QED
        BY <1>0, <3>1, <3>2, <4>1, BeginTypes DEF Begin
    <3>3. ASSUME NEW o \in Changes, NEW a \in Ips, Begin(c, o, i, a, first)
          PROVE  CallTypes' /\ stale' \subseteq running \cup {i}
      <4> HIDE DEF first
      <4>1. o \in Ops
        BY DEF Ops
      <4> QED
        BY <1>0, <3>1, <3>3, <4>1, BeginTypes DEF Begin
    <3>4. ASSUME Begin(c, "refresh", i, Null, "load")
          PROVE  CallTypes' /\ stale' \subseteq running \cup {i}
      <4>1. "refresh" \in Ops
        BY DEF Ops
      <4> QED
        BY <1>0, <1>p, <3>1, <3>4, <4>1, BeginTypes DEF Begin
    <3> QED
      BY <1>4, <3>2, <3>3, <3>4 DEF Call
  <2> QED
    BY <1>0, <1>4, <2>1 DEF Call, VarTypes, CallTypes
<1>5. ASSUME NEW c \in Callers, Step(c) PROVE VarTypes'
  <2>0. instance[c] \in Instances \cup {Null} /\ (phase[c] # "idle" => instance[c] \in Instances)
    BY <1>0 DEF VarTypes, CallOK
  <2>w. ASSUME Create(c) \/ Update(c) \/ Reject(c)
        PROVE  record' \in Lists \cup {Null} /\ stale' \subseteq running'
    <3>1. phase[c] # "idle" /\ running' = running
      BY <2>w DEF Create, Update, Reject, Found
    <3>2. instance[c] \in running /\ value[c] \in Lists \cup {Null}
      BY <1>0, <3>1 DEF VarTypes, CallOK
    <3>3. record' \in Lists \cup {Null}
      BY <1>0, <2>w, <3>2 DEF Create, Update, Reject, Created, VarTypes
    <3>4. stale' \subseteq running
      BY <1>0, <2>w, <3>2 DEF Create, Update, Reject, Wrote, VarTypes
    <3> QED
      BY <3>1, <3>3, <3>4
  <2>1. CASE Find(c)
    <3>1. CallTypes'
      BY <1>0, <1>p, <2>1, GoOnTypes DEF Find, VarTypes
    <3> QED
      BY <1>0, <2>1, <3>1 DEF Find, VarTypes, CallTypes
  <2>2. CASE Load(c)
    <3>1. CallTypes'
      BY <1>0, <1>p, <2>2, GoOnTypes, IdleTypes DEF Load, Return
    <3>2. (IF value[c] = Null THEN lists[instance[c]] ELSE value[c]) \in Lists
      BY <1>0, <2>0, <2>2 DEF Load, VarTypes
    <3> QED
      BY <1>0, <2>2, <3>1, <3>2 DEF Load, VarTypes, CallTypes
  <2>3. CASE ChangeLists(c)
    <3>1. CallTypes'
      BY <1>0, <1>p, <2>3, GoOnTypes DEF ChangeLists
    <3>2. Change(op[c], ip[c], lists[instance[c]]) \in Lists
      BY <1>0, <2>0, <2>3, ChangeIsLists DEF ChangeLists, VarTypes, CallOK
    <3> QED
      BY <1>0, <2>0, <2>3, <3>1, <3>2 DEF ChangeLists, VarTypes, CallTypes
  <2>4. CASE Save(c)
    <3>1. CallTypes'
      BY <1>0, <1>p, <2>0, <2>4, GoOnTypes DEF Save, VarTypes
    <3> QED
      BY <1>0, <2>4, <3>1 DEF Save, VarTypes, CallTypes
  <2>5. CASE EnsureExists(c)
    <3>1. CallTypes'
      BY <1>0, <1>p, <2>0, <2>5, GoOnTypes, IdleTypes DEF EnsureExists, VarTypes, Return
    <3> QED
      BY <1>0, <2>5, <3>1 DEF EnsureExists, VarTypes, CallTypes
  <2>6. CASE Create(c)
    <3>1. CallTypes'
      BY <1>0, <1>p, <2>6, GoOnTypes, IdleTypes DEF Create, Return
    <3> QED
      BY <1>0, <2>6, <2>w, <3>1 DEF Create, VarTypes, CallTypes
  <2>7. CASE Update(c)
    <3>1. CallTypes'
      BY <1>0, <2>7, IdleTypes DEF Update, Return
    <3> QED
      BY <1>0, <2>7, <2>w, <3>1 DEF Update, VarTypes, CallTypes
  <2>8. CASE Reject(c)
    <3>1. CallTypes'
      BY <1>0, <1>p, <2>8, GoOnTypes, IdleTypes DEF Reject, Return
    <3> QED
      BY <1>0, <2>8, <2>w, <3>1 DEF Reject, VarTypes, CallTypes
  <2>9. CASE Judge(c) \/ RateLimit(c)
    <3>1. CallTypes'
      BY <1>0, <1>p, <2>9, GoOnTypes, IdleTypes DEF Judge, RateLimit, Return
    <3> QED
      BY <1>0, <2>9, <3>1 DEF Judge, RateLimit, VarTypes, CallTypes
  <2> QED
    BY <1>5, <2>1, <2>2, <2>3, <2>4, <2>5, <2>6, <2>7, <2>8, <2>9 DEF Step
<1> QED
  BY <1>1, <1>2, <1>3, <1>4, <1>5 DEF Next

-----------------------------------------------------------------------------
(* Each action keeps what calls carry. *)

(* A call goes on, or ends: nothing else changes about it.                   *)
LEMMA OthersKept ==
  ASSUME VarTypes, NEW c \in Callers, NEW d \in Callers, d # c,
         (\E p, v : GoOn(c, p, v)) \/ Return(c)
  PROVE  /\ phase'[d] = phase[d] /\ op'[d] = op[d] /\ instance'[d] = instance[d]
         /\ ip'[d] = ip[d] /\ value'[d] = value[d]
BY DEF GoOn, Return, Idle, VarTypes

LEMMA CallGoesOn ==
  ASSUME VarTypes, NEW c \in Callers, NEW p, NEW v, GoOn(c, p, v)
  PROVE  /\ phase'[c] = p /\ value'[c] = v
         /\ op'[c] = op[c] /\ instance'[c] = instance[c] /\ ip'[c] = ip[c]
BY DEF GoOn, VarTypes

LEMMA CallEnds ==
  ASSUME VarTypes, NEW D, Idle(D), NEW c \in Callers
  PROVE  IF c \in D
           THEN phase'[c] = "idle" /\ op'[c] = Null /\ instance'[c] = Null
                /\ ip'[c] = Null /\ value'[c] = Null
           ELSE phase'[c] = phase[c] /\ op'[c] = op[c] /\ instance'[c] = instance[c]
                /\ ip'[c] = ip[c] /\ value'[c] = value[c]
BY DEF Idle, VarTypes

LEMMA CallBegins ==
  ASSUME VarTypes, NEW c \in Callers, NEW o, NEW i, NEW a, NEW p, Begin(c, o, i, a, p)
  PROVE  /\ phase'[c] = p /\ op'[c] = o /\ instance'[c] = i /\ ip'[c] = a /\ value'[c] = value[c]
         /\ \A d \in Callers \ {c} :
              /\ phase'[d] = phase[d] /\ op'[d] = op[d] /\ instance'[d] = instance[d]
              /\ ip'[d] = ip[d] /\ value'[d] = value[d]
BY DEF Begin, VarTypes

LEMMA CallsKept ==
  ASSUME IInv, Next, VarTypes'
  PROVE  \A d \in Callers : CallOK(d)'
<1> USE IpAssumption
<1>0. VarTypes /\ \A c \in Callers : CallOK(c)
  BY DEF IInv
<1> SUFFICES ASSUME NEW d \in Callers PROVE CallOK(d)'
  OBVIOUS
<1>d. CallOK(d)
  BY <1>0
<1>s. (phase'[d] = phase[d] /\ op'[d] = op[d] /\ instance'[d] = instance[d] /\ ip'[d] = ip[d]
         /\ value'[d] = value[d] /\ running \subseteq running'
         /\ \A i \in Instances : loaded[i] => loaded'[i])
      => CallOK(d)'
  BY <1>0, <1>d DEF CallOK, VarTypes
<1>1. ASSUME NEW i \in Instances, Construct(i) PROVE CallOK(d)'
  <2>1. CASE kind[i] = "keystore"
    <3>1. PICK c \in Callers : Begin(c, "setup", i, Null, "exist")
      BY <1>1, <2>1 DEF Construct
    <3>2. CASE d = c
      BY <1>0, <1>1, <3>1, <3>2, CallBegins DEF CallOK, Construct, Ops, Changes
    <3>3. CASE d # c
      BY <1>0, <1>1, <1>s, <2>1, <3>1, <3>3, CallBegins DEF Construct
    <3> QED
      BY <3>2, <3>3
  <2>2. CASE kind[i] # "keystore"
    BY <1>0, <1>1, <1>s, <2>2 DEF Construct, VarTypes, call, config
  <2> QED
    BY <2>1, <2>2
<1>2. ASSUME NEW i \in Instances, Crash(i) PROVE CallOK(d)'
  <2>1. CASE instance[d] = i
    BY <1>0, <1>2, <2>1, CallEnds DEF Crash, CallOK, Ops, Changes
  <2>2. CASE instance[d] # i
    <3>1. phase'[d] = phase[d] /\ op'[d] = op[d] /\ instance'[d] = instance[d]
          /\ ip'[d] = ip[d] /\ value'[d] = value[d]
      BY <1>0, <1>2, <2>2, CallEnds DEF Crash
    <3>2. phase[d] # "idle" => instance[d] \in running'
      BY <1>2, <1>d, <2>2 DEF Crash, CallOK
    <3>3. phase[d] # "idle" => loaded'[instance[d]] = loaded[instance[d]]
      BY <1>0, <1>2, <1>d, <2>2 DEF Crash, CallOK, VarTypes
    <3> QED
      BY <1>d, <3>1, <3>2, <3>3 DEF CallOK
  <2> QED
    BY <2>1, <2>2
<1>3. ASSUME NEW i \in Instances, ChangeMemory(i) PROVE CallOK(d)'
  BY <1>3, <1>s DEF ChangeMemory, call
<1>4. ASSUME NEW c \in Callers, NEW i \in Instances, Call(c, i) PROVE CallOK(d)'
  <2> DEFINE first == IF loaded[i] THEN "go" ELSE "load"
             Allowed(o, a, p) == /\ o \in Changes \cup {"verifyKey", "refresh"}
                                 /\ o \in Changes => a \in Ips
                                 /\ p \in {"go", "load"}
                                 /\ p = "go" => o # "refresh" /\ loaded[i]
  <2>1. PICK o, a, p : Begin(c, o, i, a, p) /\ Allowed(o, a, p)
    <3>1. CASE \E a \in Clients : Begin(c, "verifyKey", i, a, first)
      <4>1. PICK a \in Clients : Begin(c, "verifyKey", i, a, first)
        BY <3>1
      <4>2. Allowed("verifyKey", a, first)
        BY DEF Changes
      <4> QED
        BY <4>1, <4>2
    <3>2. CASE \E o \in Changes, a \in Ips : Begin(c, o, i, a, first)
      <4>1. PICK o \in Changes, a \in Ips : Begin(c, o, i, a, first)
        BY <3>2
      <4>2. Allowed(o, a, first)
        BY DEF Changes
      <4> QED
        BY <4>1, <4>2
    <3>3. CASE Begin(c, "refresh", i, Null, "load")
      <4>1. Allowed("refresh", Null, "load")
        BY DEF Changes
      <4> QED
        BY <3>3, <4>1
    <3>4. \/ \E a \in Clients : Begin(c, "verifyKey", i, a, first)
          \/ \E o \in Changes, a \in Ips : Begin(c, o, i, a, first)
          \/ Begin(c, "refresh", i, Null, "load")
      BY <1>4 DEF Call
    <3> HIDE DEF Allowed, first
    <3> QED
      BY <3>1, <3>2, <3>3, <3>4
  <2>2. CASE d = c
    <3>1. phase'[d] = p /\ op'[d] = o /\ instance'[d] = i /\ ip'[d] = a
      BY <1>0, <2>1, <2>2, CallBegins
    <3>2. o # Null /\ i \in running' /\ loaded' = loaded
      BY <1>4, <2>1 DEF Ops, Call
    <3> QED
      BY <2>1, <3>1, <3>2 DEF CallOK, Changes
  <2>3. CASE d # c
    BY <1>0, <1>4, <1>s, <2>1, <2>3, CallBegins DEF Call
  <2> QED
    BY <2>2, <2>3
<1>5. ASSUME NEW c \in Callers, Step(c) PROVE CallOK(d)'
  <2>c. CallOK(c) /\ running' = running /\ \A i \in Instances : loaded[i] => loaded'[i]
    BY <1>0, <1>5 DEF Step, Find, Load, ChangeLists, Save, EnsureExists, Create, Update,
                      Reject, Judge, RateLimit, VarTypes
  <2>g. (\E p, v : GoOn(c, p, v)) \/ Return(c)
    BY <1>5, Zenon DEF Step, Find, Load, ChangeLists, Save, EnsureExists, Create, Update, Reject,
                Judge, RateLimit
  <2>1. CASE d # c
    BY <1>0, <1>s, <2>1, <2>c, <2>g, OthersKept
  <2>2. CASE d = c
    <3>e. Return(c) => CallOK(d)'
      <4> SUFFICES ASSUME Return(c) PROVE CallOK(d)'
        OBVIOUS
      <4>1. phase'[d] = "idle" /\ op'[d] = Null /\ instance'[d] = Null
        BY <1>0, <2>2, CallEnds DEF Return
      <4> QED
        BY <4>1 DEF CallOK, Ops, Changes
    <3>k. ASSUME NEW p, NEW v, GoOn(c, p, v)
          PROVE  phase'[d] = p /\ value'[d] = v /\ op'[d] = op[c] /\ instance'[d] = instance[c]
                 /\ ip'[d] = ip[c]
      BY <1>0, <2>2, <3>k, CallGoesOn
    <3>i. phase[c] # "idle" => instance[c] \in Instances
      BY <1>0, <2>c DEF VarTypes, CallOK
    <3>1. CASE Find(c)
      <4>1. CASE phase[c] = "load"
        BY <2>c, <3>1, <3>k, <4>1 DEF Find, Found, CallOK
      <4>2. CASE phase[c] = "save"
        BY <2>c, <3>1, <3>k, <4>2, <3>i DEF Find, Found, CallOK
      <4>3. CASE phase[c] = "exist"
        BY <2>c, <3>1, <3>k, <4>3 DEF Find, Found, CallOK
      <4> QED
        BY <3>1, <4>1, <4>2, <4>3 DEF Find, Found
    <3>2. CASE Load(c)
      <4>1. CASE op[c] \in {"setup", "refresh"}
        BY <3>2, <3>e, <4>1 DEF Load
      <4>2. CASE op[c] \notin {"setup", "refresh"}
        <5>1. op[c] \in Changes \cup {"verifyKey"}
          BY <1>0, <2>c, <3>2, <4>2 DEF Load, VarTypes, CallOK, Ops
        <5>2. GoOn(c, "go", Null) /\ loaded'[instance[c]]
          BY <1>0, <3>2, <3>i, <4>2 DEF Load, VarTypes
        <5> QED
          BY <2>c, <3>2, <3>k, <5>1, <5>2 DEF CallOK, Load, Changes
      <4> QED
        BY <4>1, <4>2
    <3>3. CASE ChangeLists(c)
      <4>1. GoOn(c, "save", Null)
        BY <3>3 DEF ChangeLists
      <4> QED
        BY <2>c, <3>3, <3>k, <4>1 DEF CallOK, ChangeLists
    <3>4. CASE Save(c)
      <4>1. CASE value[c] = Null
        BY <2>c, <3>4, <3>k, <4>1 DEF CallOK, Save
      <4>2. CASE value[c] # Null
        <5>1. lists[instance[c]] # Null
          BY <1>0, <3>4, <3>i DEF Save, VarTypes
        <5> QED
          BY <2>c, <3>4, <3>k, <4>2, <5>1 DEF CallOK, Save
      <4> QED
        BY <4>1, <4>2
    <3>5. CASE EnsureExists(c)
      <4>1. lists[instance[c]] # Null
        BY <1>0, <3>5, <3>i DEF EnsureExists, VarTypes
      <4>2. CASE value[c] = Null
        BY <2>c, <3>5, <3>k, <4>1, <4>2 DEF CallOK, EnsureExists
      <4>3. CASE value[c] # Null /\ op[c] = "setup"
        BY <2>c, <3>5, <3>k, <4>3 DEF CallOK, EnsureExists, Changes
      <4>4. CASE value[c] # Null /\ op[c] # "setup"
        BY <3>5, <3>e, <4>4 DEF EnsureExists
      <4> QED
        BY <4>2, <4>3, <4>4
    <3>6. CASE Create(c)
      BY <2>c, <3>6, <3>e, <3>k DEF CallOK, Create, Changes
    <3>7. CASE Update(c)
      BY <3>7, <3>e DEF Update
    <3>8. CASE Reject(c)
      <4>1. CASE op[c] = "setup" /\ phase[c] # "load"
        BY <2>c, <3>8, <3>k, <4>1 DEF CallOK, Reject, Found, Changes
      <4>2. CASE op[c] = "verifyKey"
        BY <2>c, <3>8, <3>k, <4>2 DEF CallOK, Reject, Found, Changes
      <4>3. CASE ~(op[c] = "setup" /\ phase[c] # "load") /\ op[c] # "verifyKey"
        BY <3>8, <3>e, <4>3 DEF Reject
      <4> QED
        BY <4>1, <4>2, <4>3
    <3>9. CASE Judge(c) \/ RateLimit(c)
      BY <2>c, <3>9, <3>e, <3>k DEF CallOK, Judge, RateLimit, Changes
    <3> QED
      BY <1>5, <3>1, <3>2, <3>3, <3>4, <3>5, <3>6, <3>7, <3>8, <3>9 DEF Step
  <2> QED
    BY <2>1, <2>2
<1> QED
  BY <1>1, <1>2, <1>3, <1>4, <1>5 DEF Next

LEMMA LoadedRunKept ==
  ASSUME IInv, Next
  PROVE  LoadedRun'
<1>0. VarTypes /\ LoadedRun /\ \A c \in Callers : CallOK(c)
  BY DEF IInv
<1>1. ASSUME NEW c \in Callers, Load(c) PROVE LoadedRun'
  BY <1>0, <1>1 DEF Load, LoadedRun, CallOK, VarTypes
<1> QED
  BY <1>0, <1>1 DEF Next, Construct, Crash, ChangeMemory, Call, Step, Find, ChangeLists, Save,
              EnsureExists, Create, Update, Reject, Judge, RateLimit, LoadedRun, VarTypes

LEMMA Invariance == Spec => []IInv
<1>1. Init => IInv
  BY Initially
<1>2. IInv /\ [Next]_vars => IInv'
  <2> SUFFICES ASSUME IInv, [Next]_vars PROVE IInv'
    OBVIOUS
  <2>1. CASE Next
    BY <2>1, TypesKept, CallsKept, LoadedRunKept DEF IInv
  <2>2. CASE UNCHANGED vars
    BY <2>2 DEF vars, call, config, IInv, VarTypes, CallOK, LoadedRun
  <2> QED
    BY <2>1, <2>2
<1> QED
  BY <1>1, <1>2, PTL DEF Spec

-----------------------------------------------------------------------------
(* The type invariant: what each variable holds, in each phase of each call. *)
THEOREM TypeCorrect == Spec => []TypeOK
BY Invariance, InvImpliesTypes, PTL

-----------------------------------------------------------------------------
(* What Denied says of a single call. *)
Carries(c, a) ==
  /\ value[c] # Null /\ (phase[c] = "create" => store = "replace") => a \in value[c].deny
  /\ value[c] = Null /\ (phase[c] = "loading" \/ (phase[c] = "existing" /\ store = "replace"))
       => a \in lists[instance[c]].deny

(* Only a removal shortens the lists of an instance that goes on.            *)
LEMMA ListsKeepDenial ==
  ASSUME IInv, Next, NEW a \in Ips, Denied(a), ~Removing(a), ~Forgets,
         NEW j \in Instances, a \in lists[j].deny, j \in running'
  PROVE  a \in lists'[j].deny
<1>0. VarTypes /\ \A c \in Callers : CallOK(c) /\ Carries(c, a)
  BY DEF IInv, Denied, Carries
<1>1. ASSUME NEW i \in Instances, Construct(i) PROVE a \in lists'[j].deny
  BY <1>1 DEF Construct
<1>2. ASSUME NEW i \in Instances, Crash(i) PROVE a \in lists'[j].deny
  BY <1>0, <1>2 DEF Crash, VarTypes
<1>3. ASSUME NEW i \in Instances, ChangeMemory(i) PROVE a \in lists'[j].deny
  <2>1. lists'[i] = lists[i]
    BY <1>3 DEF ChangeMemory, Forgets
  <2> QED
    BY <1>0, <1>3, <2>1 DEF ChangeMemory, VarTypes
<1>4. ASSUME NEW c \in Callers, NEW i \in Instances, Call(c, i) PROVE a \in lists'[j].deny
  BY <1>4 DEF Call
<1>5. ASSUME NEW c \in Callers, Step(c) PROVE a \in lists'[j].deny
  <2>1. CASE Load(c)
    BY <1>0, <2>1 DEF Load, Carries, VarTypes
  <2>2. CASE ChangeLists(c)
    <3>1. CASE instance[c] = j
      <4>1. op[c] \in Changes /\ ip[c] \in Ips /\ lists[j] \in Lists
        BY <1>0, <2>2 DEF ChangeLists, CallOK, VarTypes
      <4>2. op[c] # "clearDeny" /\ ~(op[c] = "removeDeny" /\ ip[c] = a)
        BY DEF Removing
      <4>3. lists'[j] = Change(op[c], ip[c], lists[j])
        BY <1>0, <2>2, <3>1 DEF ChangeLists, VarTypes
      <4> QED
        BY <4>1, <4>2, <4>3, ChangeIsLists
    <3>2. CASE instance[c] # j
      BY <1>0, <2>2, <3>2 DEF ChangeLists, VarTypes
    <3> QED
      BY <3>1, <3>2
  <2>3. CASE ~Load(c) /\ ~ChangeLists(c)
    <3>1. lists' = lists
      BY <1>5, <2>3 DEF Step, Find, Save, EnsureExists, Create, Update, Reject, Judge, RateLimit
    <3> QED
      BY <3>1
  <2> QED
    BY <2>1, <2>2, <2>3
<1> QED
  BY <1>1, <1>2, <1>3, <1>4, <1>5 DEF Next

(* The record, and the instances that have their lists. *)
LEMMA StoresKeepDenial ==
  ASSUME IInv, Next, NEW a \in Ips, Denied(a), ~Removing(a), ~Forgets
  PROVE  /\ record' # Null /\ a \in record'.deny
         /\ \A i \in running' : loaded'[i] => a \in lists'[i].deny
<1>0. VarTypes /\ LoadedRun /\ \A c \in Callers : CallOK(c) /\ Carries(c, a)
  BY DEF IInv, Denied, Carries
<1>1. record' # Null /\ a \in record'.deny
  <2>0. record # Null /\ a \in record.deny
    BY DEF Denied
  <2>1. ASSUME NEW c \in Callers, Update(c) \/ Reject(c)
        PROVE  record' # Null /\ a \in record'.deny
    BY <1>0, <2>0, <2>1 DEF Update, Reject, Created, CallOK, Carries
  <2>2. ASSUME NEW c \in Callers, Create(c) PROVE record' # Null /\ a \in record'.deny
    BY <1>0, <2>0, <2>2 DEF Create, Created, CallOK, Carries
  <2>3. CASE record' = record
    BY <2>0, <2>3
  <2> QED
    BY <2>1, <2>2, <2>3 DEF Next, Step, Construct, Crash, ChangeMemory, Call, Find, Load,
                            ChangeLists, Save, EnsureExists, Judge, RateLimit
<1>2. ASSUME NEW i \in running', loaded'[i] PROVE a \in lists'[i].deny
  <2>1. i \in Instances
    BY <1>0 DEF Next, Construct, Crash, ChangeMemory, Call, Step, Find, Load, ChangeLists, Save,
                EnsureExists, Create, Update, Reject, Judge, RateLimit, VarTypes
  <2>2. CASE i \in running /\ loaded[i]
    BY <2>1, <2>2, ListsKeepDenial DEF Denied
  <2>3. CASE i \notin running
    <3>1. Construct(i) /\ kind[i] = "keystore" /\ loaded' = loaded
      BY <1>0, <2>1, <2>3 DEF Next, Construct, Crash, ChangeMemory, Call, Step, Find, Load,
            ChangeLists, Save, EnsureExists, Create, Update, Reject, Judge, RateLimit, Forgets,
            VarTypes
    <3> QED
      BY <1>0, <1>2, <2>1, <2>3, <3>1 DEF LoadedRun
  <2>4. CASE i \in running /\ ~loaded[i]
    <3>1. PICK c \in Callers : Load(c) /\ instance[c] = i
      BY <1>0, <1>2, <2>1, <2>4 DEF Next, Construct, Crash, ChangeMemory, Call, Step, Find, Load,
            ChangeLists, Save, EnsureExists, Create, Update, Reject, Judge, RateLimit, VarTypes
    <3> QED
      BY <1>0, <2>1, <3>1 DEF Load, Carries, VarTypes
  <2> QED
    BY <2>2, <2>3, <2>4
<1> QED
  BY <1>1, <1>2

(* The calls in progress, and the verifications among them. *)
LEMMA CallsKeepDenial ==
  ASSUME IInv, IInv', Next, NEW a \in Ips, Denied(a), ~Removing(a), ~Forgets, NEW d \in Callers
  PROVE  Carries(d, a)' /\ (phase[d] = "go" /\ ip[d] = a => phase'[d] # "rate")
<1> USE IpAssumption
<1>0. VarTypes /\ \A c \in Callers : CallOK(c) /\ Carries(c, a)
  BY DEF IInv, Denied, Carries
<1>d. CallOK(d) /\ Carries(d, a) /\ CallOK(d)'
  BY DEF IInv, Denied, Carries
<1>l. ASSUME instance[d] \in Instances, instance[d] \in running', a \in lists[instance[d]].deny
      PROVE  a \in lists'[instance[d]].deny
  BY <1>l, ListsKeepDenial
<1>k. store' = store
  BY DEF Next, Construct, Crash, ChangeMemory, Call, Step, Find, Load, ChangeLists, Save,
         EnsureExists, Create, Update, Reject, Judge, RateLimit, config
<1>s. (phase'[d] = phase[d] /\ instance'[d] = instance[d] /\ value'[d] = value[d])
      => Carries(d, a)' /\ (phase[d] = "go" => phase'[d] # "rate")
  <2> SUFFICES ASSUME phase'[d] = phase[d], instance'[d] = instance[d], value'[d] = value[d],
                      phase[d] \in {"loading", "existing"}, a \in lists[instance[d]].deny
               PROVE  a \in lists'[instance[d]].deny
    BY <1>d, <1>k DEF Carries
  <2>1. instance[d] \in running' /\ instance[d] \in Instances
    BY <1>d DEF CallOK, IInv, VarTypes
  <2> QED
    BY <1>l, <2>1
<1> DEFINE Goal == Carries(d, a)' /\ (phase[d] = "go" /\ ip[d] = a => phase'[d] # "rate")
<1>1. ASSUME NEW i \in Instances, Construct(i) PROVE Goal
  <2>1. CASE kind[i] = "keystore"
    <3>1. PICK c \in Callers : Begin(c, "setup", i, Null, "exist")
      BY <1>1, <2>1 DEF Construct
    <3>2. CASE d = c
      BY <1>0, <1>d, <3>1, <3>2, CallBegins DEF Carries, Begin
    <3>3. CASE d # c
      BY <1>0, <1>s, <3>1, <3>3, CallBegins
    <3> QED
      BY <3>2, <3>3
  <2>2. CASE kind[i] # "keystore"
    BY <1>1, <1>s, <2>2 DEF Construct, call
  <2> QED
    BY <2>1, <2>2
<1>2. ASSUME NEW i \in Instances, Crash(i) PROVE Goal
  BY <1>0, <1>2, <1>s, CallEnds DEF Crash, Carries
<1>3. ASSUME NEW i \in Instances, ChangeMemory(i) PROVE Goal
  BY <1>3, <1>s DEF ChangeMemory, call
<1>4. ASSUME NEW c \in Callers, NEW i \in Instances, Call(c, i) PROVE Goal
  <2>1. PICK o, b, p : Begin(c, o, i, b, p) /\ p \in {"go", "load"}
    BY <1>4 DEF Call
  <2>2. CASE d = c
    BY <1>0, <1>d, <2>1, <2>2, CallBegins DEF Carries, Begin
  <2>3. CASE d # c
    BY <1>0, <1>s, <2>1, <2>3, CallBegins
  <2> QED
    BY <2>2, <2>3
<1>5. ASSUME NEW c \in Callers, Step(c) PROVE Goal
  <2>g. (\E p, v : GoOn(c, p, v)) \/ Return(c)
    BY <1>5, Zenon DEF Step, Find, Load, ChangeLists, Save, EnsureExists, Create, Update, Reject,
                Judge, RateLimit
  <2>1. CASE d # c
    BY <1>0, <1>s, <2>1, <2>g, OthersKept
  <2>2. CASE d = c
    <3>e. Return(c) => Goal
      BY <1>0, <2>2, CallEnds DEF Return, Carries
    <3>n. ASSUME NEW p, GoOn(c, p, Null), p \notin {"loading", "existing"}, phase[c] # "go" \/ p # "rate"
          PROVE  Goal
      BY <1>0, <2>2, <3>n, CallGoesOn DEF Carries
    <3>v. ASSUME NEW p, NEW v, GoOn(c, p, v), p # "rate", v # Null,
                 (p = "create" /\ store = "insert") \/ a \in v.deny
          PROVE  Goal
      BY <1>0, <1>k, <2>2, <3>v, CallGoesOn DEF Carries
    <3>i. instance[c] \in Instances \cap running
      BY <1>0, <1>5 DEF Step, Find, Found, Load, ChangeLists, Save, EnsureExists, Create, Update,
                        Reject, Judge, RateLimit, CallOK, VarTypes
    <3>1. CASE Find(c)
      <4>1. record # Null /\ a \in record.deny
        BY DEF Denied
      <4>2. Found[phase[c]] # "rate"
        BY <3>1 DEF Find, Found
      <4> QED
        BY <3>1, <3>v, <4>1, <4>2 DEF Find
    <3>2. CASE Load(c)
      BY <3>2, <3>e, <3>n DEF Load
    <3>3. CASE ChangeLists(c)
      BY <3>3, <3>n DEF ChangeLists
    <3>4. CASE Save(c)
      <4>1. a \in lists[instance[c]].deny
        BY <1>0, <3>4, <3>i DEF Save, CallOK, Denied
      <4>2. lists[instance[c]] # Null
        BY <1>0, <3>i DEF VarTypes
      <4> QED
        BY <3>4, <3>n, <3>v, <4>1, <4>2 DEF Save
    <3>5. CASE EnsureExists(c)
      <4>1. lists[instance[c]] # Null /\ store \in {"insert", "replace"}
        BY <1>0, <3>i DEF VarTypes
      <4>2. value[c] = Null /\ store = "replace" => a \in lists[instance[c]].deny
        BY <1>0, <3>5 DEF EnsureExists, Carries
      <4> QED
        BY <3>5, <3>e, <3>n, <3>v, <4>1, <4>2 DEF EnsureExists
    <3>6. CASE Create(c)
      BY <3>6, <3>e, <3>n DEF Create
    <3>7. CASE Update(c)
      BY <3>7, <3>e DEF Update
    <3>8. CASE Reject(c)
      <4>1. phase[c] # "go"
        BY <3>8 DEF Reject, Found
      <4> QED
        BY <3>8, <3>e, <3>n, <4>1 DEF Reject
    <3>9. CASE Judge(c)
      <4>1. a \in lists[instance[c]].deny
        BY <1>0, <3>9, <3>i DEF Judge, CallOK, Denied
      <4>2. CASE ip[c] = a
        BY <3>9, <3>e, <4>1, <4>2 DEF Judge, Refuses
      <4>3. CASE ip[c] # a
        <5>1. GoOn(c, "rate", Null) => Carries(d, a)'
          BY <1>0, <2>2, CallGoesOn DEF Carries
        <5> QED
          BY <2>2, <3>9, <3>e, <4>3, <5>1 DEF Judge
      <4> QED
        BY <4>2, <4>3
    <3>10. CASE RateLimit(c)
      BY <3>10, <3>e DEF RateLimit
    <3> QED
      BY <1>5, <3>1, <3>2, <3>3, <3>4, <3>5, <3>6, <3>7, <3>8, <3>9, <3>10 DEF Step
  <2> QED
    BY <2>1, <2>2
<1> QED
  BY <1>1, <1>2, <1>3, <1>4, <1>5 DEF Next

(* A denial that has reached every loaded instance, the record and every     *)
(* call in flight is not lost by refreshes, saves, failures and crashes.     *)
THEOREM DenialLasts == Spec => DeniedStaysDenied
<1> DEFINE Kept == \A a \in Ips : Denied(a) =>
              \/ /\ Denied(a)'
                 /\ \A c \in Callers : phase[c] = "go" /\ ip[c] = a => phase'[c] # "rate"
              \/ Removing(a) \/ Removing(a)' \/ Forgets
<1>1. IInv /\ IInv' /\ [Next]_vars => [Kept]_vars
  <2> SUFFICES ASSUME IInv, IInv', Next, NEW a \in Ips, Denied(a), ~Removing(a), ~Forgets
               PROVE  /\ Denied(a)'
                      /\ \A c \in Callers : phase[c] = "go" /\ ip[c] = a => phase'[c] # "rate"
    OBVIOUS
  <2>1. \A c \in Callers : Carries(c, a)' /\ (phase[c] = "go" /\ ip[c] = a => phase'[c] # "rate")
    BY CallsKeepDenial
  <2>2. /\ record' # Null /\ a \in record'.deny
        /\ \A i \in running' : loaded'[i] => a \in lists'[i].deny
    BY StoresKeepDenial
  <2> QED
    BY <2>1, <2>2 DEF Denied, Carries
<1> QED
  BY <1>1, Invariance, PTL DEF Spec, DeniedStaysDenied

-----------------------------------------------------------------------------
(* The lists and the record: an instance that is not stale has one call that *)
(* reads or writes the record, at most, and no other instance writes it      *)
(* meanwhile.                                                                *)

Busy(c) == ~Passing(op[c], phase[c])

CarryOK(c) ==
  /\ phase[c] \in {"loading", "saving", "existing"} => value[c] = record
  /\ op[c] \in Changes /\ phase[c] \in {"exist", "existing", "create"} => record = Null
  /\ op[c] \in Changes /\ phase[c] \in {"create", "update"} => value[c] = lists[instance[c]]

Peace(i) ==
  /\ \A c, d \in Callers : instance[c] = i /\ instance[d] = i /\ Busy(c) /\ Busy(d) => c = d
  /\ \A c \in Callers : instance[c] = i => CarryOK(c)
  /\ Quiet(i) /\ record # Null => lists[i] = record

CurrentOK == \A i \in running \ stale : kind[i] = "keystore" => Peace(i)

(* A step elsewhere. *)
LEMMA PeaceUnmoved ==
  ASSUME NEW j, Peace(j), record' = record, lists'[j] = lists[j],
         \A d \in Callers : instance[d] = j \/ instance'[d] = j =>
            /\ instance'[d] = instance[d] /\ op'[d] = op[d]
            /\ phase'[d] = phase[d] /\ value'[d] = value[d]
  PROVE  Peace(j)'
<1>1. \A d \in Callers : instance'[d] = j => (Busy(d)' <=> Busy(d)) /\ (CarryOK(d) => CarryOK(d)')
  BY DEF Busy, Passing, CarryOK
<1>2. Quiet(j)' => Quiet(j)
  BY DEF Quiet, QuietBut, Passing
<1> QED
  BY <1>1, <1>2 DEF Peace

(* A step of the only call that reads or writes the record. *)
LEMMA PeaceOfOne ==
  ASSUME NEW i, NEW c \in Callers,
         \A d \in Callers \ {c} : instance'[d] = i => Passing(op'[d], phase'[d]),
         instance'[c] = i => CarryOK(c)',
         instance'[c] # i \/ Passing(op'[c], phase'[c]) => (record' # Null => lists'[i] = record')
  PROVE  Peace(i)'
<1>1. \A d \in Callers \ {c} : instance'[d] = i => ~Busy(d)' /\ CarryOK(d)'
  BY DEF Busy, CarryOK, Passing, Changes
<1>2. Quiet(i)' => instance'[c] # i \/ Passing(op'[c], phase'[c])
  BY DEF Quiet, QuietBut
<1> QED
  BY <1>1, <1>2 DEF Peace

(* A call that begins. *)
LEMMA PeaceBegins ==
  ASSUME IInv, CurrentOK, NEW c \in Callers, NEW o \in Ops, NEW i \in Instances, NEW a,
         NEW p \in {"go", "load", "exist"}, Begin(c, o, i, a, p), p = "exist" => o = "setup",
         UNCHANGED <<kind, lists, record>>, running' \subseteq running \cup {i},
         i \in running \/ (o = "setup" /\ \A d \in Callers : instance[d] # i)
  PROVE  CurrentOK'
<1> SUFFICES ASSUME NEW j \in running' \ stale', kind[j] = "keystore"
             PROVE  Peace(j)'
  BY DEF CurrentOK
<1>0. VarTypes /\ (\A d \in Callers : CallOK(d)) /\ phase[c] = "idle"
  BY DEF IInv, Begin
<1>1. instance[c] # j /\ j \in Instances
  BY <1>0, IpAssumption DEF CallOK, VarTypes
<1>2. /\ phase'[c] = p /\ op'[c] = o /\ instance'[c] = i
      /\ \A d \in Callers \ {c} : /\ phase'[d] = phase[d] /\ op'[d] = op[d]
                                  /\ instance'[d] = instance[d] /\ value'[d] = value[d]
  BY <1>0, CallBegins
<1>3. stale' = IF Passing(o, p) \/ Quiet(i) THEN stale ELSE stale \cup {i}
  BY DEF Begin
<1>4. CASE j # i
  <2>1. j \in running \ stale
    BY <1>3, <1>4
  <2> QED
    BY <1>1, <1>2, <1>4, <2>1, PeaceUnmoved DEF CurrentOK
<1>5. CASE j = i /\ ~Passing(o, p)
  <2>1. Quiet(i)
    BY <1>3, <1>5
  <2>2. \A d \in Callers \ {c} : instance'[d] = i => Passing(op'[d], phase'[d])
    BY <1>2, <2>1 DEF Quiet, QuietBut
  <2>3. CarryOK(c)'
    BY <1>2 DEF CarryOK, Changes
  <2> QED
    BY <1>2, <1>5, <2>2, <2>3, PeaceOfOne
<1>6. CASE j = i /\ Passing(o, p)
  <2>1. i \in running
    BY <1>6 DEF Passing
  <2>2. Peace(i)
    BY <1>3, <1>6, <2>1 DEF CurrentOK
  <2>3. CarryOK(c)' /\ ~Busy(c)'
    BY <1>2, <1>6 DEF CarryOK, Passing, Busy, Changes
  <2>4. \A d \in Callers \ {c} : instance'[d] = i =>
          instance[d] = i /\ (Busy(d)' <=> Busy(d)) /\ (CarryOK(d) => CarryOK(d)')
    BY <1>2 DEF CarryOK, Busy
  <2>5. Quiet(i)' => Quiet(i)
    BY <1>1, <1>2, <1>6 DEF Quiet, QuietBut
  <2> QED
    BY <1>6, <2>2, <2>3, <2>4, <2>5 DEF Peace
<1> QED
  BY <1>4, <1>5, <1>6

(* A step of a call, for its own instance.                                   *)
LEMMA PeaceSteps ==
  ASSUME IInv, IInv', CurrentOK, NEW c \in Callers, Step(c),
         NEW i \in running' \ stale', kind[i] = "keystore", i = instance[c]
  PROVE  Peace(i)'
<1> USE IpAssumption
<1>0. VarTypes /\ (\A d \in Callers : CallOK(d)) /\ i \in Instances /\ i # Null
  BY DEF IInv, VarTypes, Step, Find, Load, ChangeLists, Save, EnsureExists, Create, Update,
         Reject, Judge, RateLimit
<1>r. ~Reject(c)
  BY DEF Reject
<1>g. (\E p, v : GoOn(c, p, v)) \/ Return(c)
  BY <1>r, Zenon DEF Step, Find, Load, ChangeLists, Save, EnsureExists, Create, Update,
                Judge, RateLimit
<1>d. \A d \in Callers \ {c} : /\ phase'[d] = phase[d] /\ op'[d] = op[d]
                               /\ instance'[d] = instance[d] /\ value'[d] = value[d]
  BY <1>0, <1>g, OthersKept
<1>e. Return(c) => instance'[c] # i
  BY <1>0, CallEnds DEF Return
<1>k. ASSUME NEW p, NEW v, GoOn(c, p, v)
      PROVE  /\ phase'[c] = p /\ value'[c] = v /\ op'[c] = op[c] /\ instance'[c] = i
  BY <1>0, <1>k, CallGoesOn
<1>c. CallOK(c)
  BY <1>0
(* The instance was not stale, and the call is busy: the others pass.        *)
<1>p. ASSUME i \notin stale, ~Passing(op[c], phase[c])
      PROVE  /\ CarryOK(c)
             /\ \A d \in Callers \ {c} : instance'[d] = i => Passing(op'[d], phase'[d])
  <2>1. running' = running
    BY <1>r DEF Step, Find, Load, ChangeLists, Save, EnsureExists, Create, Update, Judge, RateLimit
  <2>2. Peace(i)
    BY <1>p, <2>1 DEF CurrentOK
  <2> QED
    BY <1>d, <1>p, <2>2 DEF Peace, Busy
<1>1. CASE Find(c)
  <2>0. phase[c] \in {"load", "save", "exist"} /\ phase'[c] = Found[phase[c]]
        /\ value'[c] = record /\ record' = record /\ op'[c] = op[c] /\ instance'[c] = i
    BY <1>1, <1>k DEF Find, Found
  <2>1. \A d \in Callers \ {c} : instance'[d] = i => Passing(op'[d], phase'[d])
    <3>1. CASE i \notin stale
      BY <1>p, <2>0, <3>1 DEF Passing
    <3>2. CASE i \in stale
      <4>1. QuietBut(i, {c})
        BY <1>1, <3>2 DEF Find
      <4> QED
        BY <1>d, <4>1 DEF QuietBut
    <3> QED
      BY <3>1, <3>2
  <2>2. phase[c] \in {"save", "exist"} => CarryOK(c)
    <3>1. phase[c] \in {"save", "exist"} => i \notin stale
      BY <1>1 DEF Find
    <3> QED
      BY <1>p, <3>1 DEF Passing
  <2>3. CarryOK(c)'
    BY <1>c, <2>0, <2>2 DEF CarryOK, Found, CallOK, Changes
  <2>4. ~Passing(op'[c], phase'[c])
    BY <2>0 DEF Passing, Found
  <2> QED
    BY <2>0, <2>1, <2>3, <2>4, PeaceOfOne
<1>2. CASE Load(c)
  <2>0. i \notin stale /\ ~Passing(op[c], phase[c]) /\ phase[c] = "loading" /\ record' = record
    BY <1>2 DEF Load, Passing
  <2>1. value[c] = record
    BY <1>p, <2>0 DEF CarryOK
  <2>2. record' # Null => lists'[i] = record'
    BY <1>0, <1>2, <2>0, <2>1 DEF Load, VarTypes
  <2>3. instance'[c] = i => CarryOK(c)'
    BY <1>2, <1>e, <1>k DEF Load, CarryOK
  <2> QED
    BY <1>p, <2>0, <2>2, <2>3, PeaceOfOne
<1>3. CASE ChangeLists(c)
  <2>0. i \notin stale /\ ~Passing(op[c], phase[c])
    BY <1>3 DEF ChangeLists, Passing, Changes
  <2>1. instance'[c] = i /\ phase'[c] = "save"
    BY <1>3, <1>k DEF ChangeLists
  <2> QED
    BY <1>p, <2>0, <2>1, PeaceOfOne DEF CarryOK, Passing
<1>4. CASE Save(c)
  <2>0. i \notin stale /\ ~Passing(op[c], phase[c]) /\ record' = record /\ lists' = lists
    BY <1>4 DEF Save, Passing
  <2>1. value[c] = record
    BY <1>4, <1>p, <2>0 DEF CarryOK, Save
  <2>2. /\ instance'[c] = i /\ phase'[c] \in {"exist", "update"} /\ op'[c] = op[c]
        /\ phase'[c] = "exist" => value[c] = Null
        /\ phase'[c] = "update" => value'[c] = lists[i]
    BY <1>4, <1>k DEF Save
  <2>3. CarryOK(c)' /\ ~Passing(op'[c], phase'[c])
    BY <2>0, <2>1, <2>2 DEF CarryOK, Passing
  <2> QED
    BY <1>p, <2>0, <2>2, <2>3, PeaceOfOne
<1>5. CASE EnsureExists(c)
  <2>0. i \notin stale /\ ~Passing(op[c], phase[c]) /\ record' = record /\ lists' = lists
    BY <1>5 DEF EnsureExists, Passing
  <2>1. phase[c] = "existing" /\ CarryOK(c) /\ op[c] \in Changes \cup {"setup"}
    BY <1>5, <1>c, <1>p, <2>0 DEF EnsureExists, CallOK
  <2>2. op[c] \in Changes => value[c] = Null
    BY <2>1 DEF CarryOK
  <2>3. \/ /\ value[c] = Null /\ phase'[c] = "create" /\ value'[c] = lists[i]
           /\ op'[c] = op[c] /\ instance'[c] = i
        \/ /\ op[c] = "setup" /\ phase'[c] = "load" /\ op'[c] = op[c] /\ instance'[c] = i
    BY <1>5, <1>k, <2>1, <2>2 DEF EnsureExists
  <2>4. CarryOK(c)' /\ ~Passing(op'[c], phase'[c]) /\ instance'[c] = i
    BY <2>0, <2>1, <2>3 DEF CarryOK, Passing, Changes
  <2> QED
    BY <1>p, <2>0, <2>4, PeaceOfOne
<1>6. CASE Create(c)
  <2>0. /\ i \notin stale /\ ~Passing(op[c], phase[c]) /\ lists' = lists /\ phase[c] = "create"
        /\ op[c] \in Changes \cup {"setup"} /\ record' = Created(value[c])
    BY <1>6, <1>c DEF Create, Wrote, Passing, CallOK
  <2>1. CASE op[c] = "setup"
    <3>1. phase'[c] = "load" /\ op'[c] = op[c] /\ instance'[c] = i
      BY <1>6, <1>k, <2>1 DEF Create
    <3>2. CarryOK(c)' /\ ~Passing(op'[c], phase'[c])
      BY <2>1, <3>1 DEF CarryOK, Passing, Changes
    <3> QED
      BY <1>p, <2>0, <3>1, <3>2, PeaceOfOne
  <2>2. CASE op[c] \in Changes
    <3>1. Return(c)
      BY <1>6, <2>2 DEF Create, Changes
    <3>2. record = Null /\ value[c] = lists[i]
      BY <1>p, <2>0, <2>2 DEF CarryOK
    <3>3. lists'[i] = record'
      BY <2>0, <3>2 DEF Created
    <3> QED
      BY <1>e, <1>p, <2>0, <3>1, <3>3, PeaceOfOne
  <2> QED
    BY <2>0, <2>1, <2>2
<1>7. CASE Update(c)
  <2>0. /\ i \notin stale /\ ~Passing(op[c], phase[c]) /\ lists' = lists /\ phase[c] = "update"
        /\ op[c] \in Changes /\ record' = value[c] /\ Return(c)
    BY <1>7, <1>c DEF Update, Wrote, Passing, CallOK
  <2>1. lists'[i] = record'
    BY <1>p, <2>0 DEF CarryOK
  <2> QED
    BY <1>e, <1>p, <2>0, <2>1, PeaceOfOne
<1>8. CASE Judge(c) \/ RateLimit(c)
  <2>0. /\ i \notin stale /\ record' = record /\ lists' = lists /\ running' = running
        /\ phase[c] \in {"go", "rate"} /\ op[c] = "verifyKey"
    BY <1>8, <1>c DEF Judge, RateLimit, CallOK
  <2>1. Peace(i)
    BY <2>0 DEF CurrentOK
  <2>2. instance'[c] = i => phase'[c] = "rate" /\ op'[c] = op[c]
    BY <1>8, <1>e, <1>k DEF Judge, RateLimit
  <2>3. instance'[c] = i => CarryOK(c)' /\ ~Busy(c)'
    BY <2>0, <2>2 DEF CarryOK, Busy, Passing, Changes
  <2>4. \A d \in Callers \ {c} : instance'[d] = i =>
          instance[d] = i /\ (Busy(d)' <=> Busy(d)) /\ (CarryOK(d) => CarryOK(d)')
    BY <1>d, <2>0 DEF CarryOK, Busy
  <2>5. Quiet(i)' => Quiet(i)
    BY <1>d, <2>0 DEF Quiet, QuietBut, Passing
  <2> QED
    BY <2>0, <2>1, <2>3, <2>4, <2>5 DEF Peace
<1> QED
  BY <1>1, <1>2, <1>3, <1>4, <1>5, <1>6, <1>7, <1>8, <1>r DEF Step

LEMMA CurrentKept ==
  ASSUME IInv, IInv', CurrentOK, Next
  PROVE  CurrentOK'
<1> USE IpAssumption
<1>0. VarTypes /\ \A c \in Callers : CallOK(c)
  BY DEF IInv
<1>1. ASSUME NEW i \in Instances, Construct(i) PROVE CurrentOK'
  <2>1. CASE kind[i] = "keystore"
    <3>1. PICK c \in Callers : Begin(c, "setup", i, Null, "exist")
      BY <1>1, <2>1 DEF Construct
    <3>2. UNCHANGED <<kind, lists, record>> /\ running' \subseteq running \cup {i}
      BY <1>1 DEF Construct, config
    <3>3. \A d \in Callers : instance[d] # i
      BY <1>0, <1>1 DEF Construct, CallOK
    <3>4. "setup" \in Ops /\ "exist" \in {"go", "load", "exist"}
      BY DEF Ops
    <3> QED
      BY <3>1, <3>2, <3>3, <3>4, PeaceBegins
  <2>2. CASE kind[i] # "keystore"
    <3>1. UNCHANGED <<kind, lists, record, phase, op, instance, value, stale>>
          /\ running' = running \cup {i}
      BY <1>1, <2>2 DEF Construct, call, config
    <3>2. ASSUME NEW j \in running' \ stale', kind[j] = "keystore" PROVE Peace(j)'
      <4>1. j \in running \ stale
        BY <2>2, <3>1, <3>2
      <4> QED
        BY <3>1, <3>2, <4>1, PeaceUnmoved DEF CurrentOK
    <3> QED
      BY <3>1, <3>2 DEF CurrentOK
  <2> QED
    BY <2>1, <2>2
<1>2. ASSUME NEW i \in Instances, Crash(i) PROVE CurrentOK'
  <2>1. kind' = kind /\ record' = record /\ running' = running \ {i} /\ stale' = stale \ {i}
    BY <1>2 DEF Crash, config
  <2>2. ASSUME NEW j \in running' \ stale', kind[j] = "keystore" PROVE Peace(j)'
    <3>1. j \in running \ stale /\ j # i /\ lists'[j] = lists[j]
      BY <1>0, <1>2, <2>1, <2>2 DEF Crash, VarTypes
    <3>2. \A d \in Callers : instance[d] = j \/ instance'[d] = j =>
            /\ instance'[d] = instance[d] /\ op'[d] = op[d]
            /\ phase'[d] = phase[d] /\ value'[d] = value[d]
      <4>1. j # Null
        BY <1>0, <3>1 DEF VarTypes
      <4> QED
        BY <1>0, <1>2, <3>1, <4>1, CallEnds DEF Crash
    <3> QED
      BY <2>1, <2>2, <3>1, <3>2, PeaceUnmoved DEF CurrentOK
  <2> QED
    BY <2>1, <2>2 DEF CurrentOK
<1>3. ASSUME NEW i \in Instances, ChangeMemory(i) PROVE CurrentOK'
  <2>1. UNCHANGED <<kind, record, phase, op, instance, value, running, stale>>
    BY <1>3 DEF ChangeMemory, call, config
  <2>2. ASSUME NEW j \in running' \ stale', kind[j] = "keystore" PROVE Peace(j)'
    <3>1. lists'[j] = lists[j]
      BY <1>0, <1>3, <2>2 DEF ChangeMemory, VarTypes
    <3> QED
      BY <2>1, <2>2, <3>1, PeaceUnmoved DEF CurrentOK
  <2> QED
    BY <2>1, <2>2 DEF CurrentOK
<1>4. ASSUME NEW c \in Callers, NEW i \in Instances, Call(c, i) PROVE CurrentOK'
  <2> DEFINE first == IF loaded[i] THEN "go" ELSE "load"
  <2>1. \/ \E a \in Clients : Begin(c, "verifyKey", i, a, first)
        \/ \E o \in Changes, a \in Ips : Begin(c, o, i, a, first)
        \/ Begin(c, "refresh", i, Null, "load")
    BY <1>4 DEF Call
  <2>2. UNCHANGED <<kind, lists, record>> /\ running' \subseteq running \cup {i} /\ i \in running
    BY <1>4 DEF Call, config
  <2>3. first \in {"go", "load", "exist"} /\ "load" \in {"go", "load", "exist"}
        /\ first # "exist" /\ "verifyKey" \in Ops /\ "refresh" \in Ops /\ Changes \subseteq Ops
    BY DEF Ops
  <2> HIDE DEF first
  <2>4. ASSUME NEW o \in Ops, NEW a, Begin(c, o, i, a, first) PROVE CurrentOK'
    BY <2>2, <2>3, <2>4, PeaceBegins
  <2>5. ASSUME Begin(c, "refresh", i, Null, "load") PROVE CurrentOK'
    BY <2>2, <2>3, <2>5, PeaceBegins
  <2> QED
    BY <2>1, <2>3, <2>4, <2>5
<1>5. ASSUME NEW c \in Callers, Step(c) PROVE CurrentOK'
  <2>1. kind' = kind /\ running' = running
    BY <1>5 DEF Step, Find, Load, ChangeLists, Save, EnsureExists, Create, Update, Reject, Judge,
                RateLimit, config
  <2>2. ASSUME NEW j \in running' \ stale', kind[j] = "keystore" PROVE Peace(j)'
    <3>1. CASE j = instance[c]
      BY <1>5, <2>2, <3>1, PeaceSteps
    <3>2. CASE j # instance[c]
      <4>g. (\E p, v : GoOn(c, p, v)) \/ Return(c)
        BY <1>5, Zenon DEF Step, Find, Load, ChangeLists, Save, EnsureExists, Create, Update,
                      Reject, Judge, RateLimit
      <4>1. j \in Instances /\ j # Null /\ j \in running
        BY <1>0, <2>1, <2>2 DEF VarTypes
      <4>2. instance'[c] # j
        BY <1>0, <3>2, <4>1, <4>g, CallGoesOn, CallEnds DEF Return
      <4>3. lists'[j] = lists[j]
        BY <1>0, <1>5, <3>2, <4>1 DEF Step, Find, Load, ChangeLists, Save, EnsureExists, Create,
             Update, Reject, Judge, RateLimit, VarTypes
      <4>4. j \notin stale /\ record' = record
        BY <1>5, <2>2, <3>2, <4>1 DEF Step, Find, Load, ChangeLists, Save, EnsureExists, Create,
             Update, Reject, Judge, RateLimit, Wrote
      <4> QED
        BY <1>0, <2>2, <3>2, <4>1, <4>2, <4>3, <4>4, <4>g, OthersKept, PeaceUnmoved DEF CurrentOK
    <3> QED
      BY <3>1, <3>2
  <2> QED
    BY <2>1, <2>2 DEF CurrentOK
<1> QED
  BY <1>1, <1>2, <1>3, <1>4, <1>5 DEF Next

(* The lists an instance verifies with are those of the record, whatever     *)
(* instances were constructed, refreshed, or crashed meanwhile, unless       *)
(* another has written it, or a call of its own failed or met another, since *)
(* it was constructed or last loaded them in peace: an answered change       *)
(* survives a restart, and setup, refresh and the first verification load.   *)
THEOREM ListsCurrent == Spec => []ListsAreCurrent
<1>1. Init => CurrentOK
  BY DEF Init, CurrentOK
<1>2. IInv /\ IInv' /\ CurrentOK /\ [Next]_vars => CurrentOK'
  <2>1. IInv /\ IInv' /\ CurrentOK /\ Next => CurrentOK'
    BY CurrentKept
  <2>2. CurrentOK /\ UNCHANGED vars => CurrentOK'
    <3> SUFFICES ASSUME CurrentOK, UNCHANGED vars, NEW j \in running' \ stale', kind[j] = "keystore"
                 PROVE  Peace(j)'
      BY DEF CurrentOK, vars, config
    <3> QED
      BY PeaceUnmoved DEF CurrentOK, vars, call, config
  <2> QED
    BY <2>1, <2>2
<1>3. CurrentOK => ListsAreCurrent
  BY DEF CurrentOK, Peace, ListsAreCurrent
<1> QED
  BY <1>1, <1>2, <1>3, Invariance, PTL DEF Spec
=============================================================================
