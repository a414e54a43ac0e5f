--------------------------- MODULE AccountsProofs ----------------------------
(***************************************************************************)
(* Theorems about Accounts for any names, bounds and threads, and about    *)
(* MCAccounts for one operation at a time.                                 *)
(***************************************************************************)
EXTENDS MCAccounts, FiniteSetTheorems, TLAPS

Creating == {"register", "derive", "export", "insert"}
Storing  == {"rehash", "fetch", "store"}

LEMMA OpFields ==
    ASSUME NEW o \in Op
    PROVE  /\ o.at \in Creating => o \in [at: Creating, name: Names, role: Roles,
                                          boot: BOOLEAN, env: Envelopes]
           /\ o.at \in Storing => o \in [at: Storing, id: Ids, name: Names,
                                         boot: BOOLEAN, env: Envelopes]
           /\ o.at \in {"delete", "role"} => o.id \in Ids
           /\ o.at = "role" => o.role \in Roles
           /\ o.at \in {"idle", "delete", "role"} \cup Creating \cup Storing
  BY DEF Op, Idle, Creating, Storing

LEMMA OpTypes ==
    /\ Idle \in Op
    /\ \A s \in Creating, n \in Names, r \in Roles, b \in BOOLEAN, e \in Envelopes :
          CreateOp(s, n, r, b, e) \in Op
    /\ \A s \in Storing, i \in Ids, n \in Names, b \in BOOLEAN, e \in Envelopes :
          StoreOp(s, i, n, b, e) \in Op
    /\ \A i \in Ids : DeleteOp(i) \in Op
    /\ \A i \in Ids, r \in Roles : RoleOp(i, r) \in Op
  BY DEF Op, CreateOp, StoreOp, DeleteOp, RoleOp, Creating, Storing

LEMMA RowFields ==
    ASSUME NEW x \in Row
    PROVE  /\ x.state = "live" <=> x \notin {Unused, Gone}
           /\ x.state = "live" => x.name \in Names /\ x.role \in Roles /\ x.env \in Envelopes
  BY DEF Row, Unused, Gone

LEMMA RowTypes ==
    /\ Unused \in Row /\ Gone \in Row
    /\ \A n \in Names, r \in Roles, e \in Envelopes : LiveRow(n, r, e) \in Row
  BY DEF Row, LiveRow

LEMMA LoadTypes ==
    ASSUME TypeOK
    PROVE  load_password_envelopes \in [Names -> Envelopes]
<1>1. ASSUME NEW n \in Names, InUse(n)
      PROVE  user[CHOOSE i \in LiveIds : user[i].name = n].env \in Envelopes
  BY <1>1, RowFields DEF InUse, LiveIds, Live, TypeOK
<1>2. 0 \in Envelopes
  BY BoundsAssumption DEF Envelopes
<1> QED BY <1>1, <1>2 DEF load_password_envelopes

\* Every step keeps the types of the table, the map and the operations.
LEMMA TypeStep ==
    ASSUME TypeOK, [Next]_vars
    PROVE  TypeOK'
<1>0. 0 \in Envelopes /\ (CanHash => hashed + 1 \in Envelopes)
  BY BoundsAssumption DEF Envelopes, CanHash, TypeOK
<1>1. CASE Restart
  BY <1>1, <1>0, LoadTypes, OpTypes DEF Restart, TypeOK
<1>2. ASSUME NEW th \in Threads, StatementFails(th)
      PROVE  TypeOK'
  BY <1>2, OpTypes DEF StatementFails, TypeOK
<1>3. ASSUME NEW th \in Threads, Begin(th)
      PROVE  TypeOK'
  <2>1. \A i \in Ids : Live(i) => user[i].name \in Names
    BY RowFields DEF Live, TypeOK
  <2>2. PICK o \in Op : Start(th, o)
    BY <1>3, <1>0, <2>1, OpTypes
    DEF Begin, Bootstrap_Check, CreateUser_Check, ResetPassword_Check, ChangePassword_Check,
        DeleteUser_Check, UpdateRole_Check, require_admin, LoggedIn, Roles, Creating, Storing
  <2> QED BY <2>2 DEF Start, TypeOK
<1>4. ASSUME NEW th \in Threads, Continue(th)
      PROVE  TypeOK'
  <2>0. op[th] \in Op
    BY DEF TypeOK
  <2>1. CASE Create_Register(th)
    BY <2>1, <2>0, <1>0, OpFields, OpTypes DEF Create_Register, TypeOK, Creating
  <2>2. CASE Create_Derive(th)
    BY <2>2, <2>0, <1>0, OpFields, OpTypes DEF Create_Derive, TypeOK, Creating
  <2>3. CASE Create_Export(th)
    BY <2>3, <2>0, OpFields, OpTypes DEF Create_Export, TypeOK, Creating
  <2>4. ASSUME NEW i \in Ids, Create_Insert(th, i)
        PROVE  TypeOK'
    <3>1. /\ op[th].name \in Names /\ op[th].role \in Roles
          /\ op[th].boot \in BOOLEAN /\ op[th].env \in Envelopes
      BY <2>4, <2>0, OpFields DEF Create_Insert, Creating
    <3>2. LiveRow(op[th].name, op[th].role, 0) \in Row
      BY <3>1, <1>0, RowTypes
    <3>3. StoreOp("store", i, op[th].name, op[th].boot, op[th].env) \in Op
      BY <3>1, OpTypes DEF Storing
    <3>4. user' \in [Ids -> Row]
      BY <2>4, <3>2 DEF Create_Insert, TypeOK
    <3>5. op' \in [Threads -> Op]
      BY <2>4, <3>3, OpTypes DEF Create_Insert, TypeOK
    <3> QED BY <2>4, <3>4, <3>5 DEF Create_Insert, TypeOK
  <2>5. CASE Password_Rehash(th)
    BY <2>5, <2>0, <1>0, OpFields, OpTypes DEF Password_Rehash, TypeOK, Storing
  <2>6. CASE Password_Fetch(th)
    BY <2>6, <2>0, OpFields, OpTypes DEF Password_Fetch, TypeOK, Storing
  <2>7. CASE StoreEnvelope(th)
    <3>1. op[th].id \in Ids /\ op[th].env \in Envelopes
      BY <2>7, <2>0, OpFields DEF StoreEnvelope, Storing
    <3>2. Live(op[th].id) =>
            LiveRow(user[op[th].id].name, user[op[th].id].role, op[th].env) \in Row
      BY <3>1, RowTypes, RowFields DEF Live, TypeOK
    <3>3. user' \in [Ids -> Row]
      BY <2>7, <3>2 DEF StoreEnvelope, TypeOK
    <3>4. mode' \in {"bootstrap", "ready"}
      BY <2>7 DEF StoreEnvelope, TypeOK
    <3> QED BY <2>7, <3>3, <3>4, OpTypes DEF StoreEnvelope, TypeOK
  <2>8. CASE DeleteUser_Delete(th)
    BY <2>8, <2>0, OpFields, OpTypes, RowTypes DEF DeleteUser_Delete, TypeOK
  <2>9. CASE UpdateRole_Update(th)
    BY <2>9, <2>0, OpFields, OpTypes, RowTypes, RowFields
    DEF UpdateRole_Update, TypeOK, Live
  <2> QED BY <1>4, <2>1, <2>2, <2>3, <2>4, <2>5, <2>6, <2>7, <2>8, <2>9 DEF Continue
<1>5. CASE UNCHANGED vars
  BY <1>5 DEF vars, TypeOK
<1> QED BY <1>1, <1>2, <1>3, <1>4, <1>5 DEF Next

LEMMA TypeInit == Init => TypeOK
  BY BoundsAssumption, OpTypes, RowTypes DEF Init, TypeOK, Envelopes

\* The table, the map and the pending operations keep their types.
THEOREM TypeCorrect == Spec => []TypeOK
  BY TypeInit, TypeStep, PTL DEF Spec

-----------------------------------------------------------------------------
(* EnvelopesDistinct, for any number of threads.                            *)

\* Envelope e is somewhere in use for name n: in the map, in a row, or in the
\* hands of a thread.
Held(n, e) ==
    \/ creds[n] = e
    \/ \E i \in LiveIds : user[i].name = n /\ user[i].env = e
    \/ \E th \in Threads : /\ op[th].at \in Creating \cup Storing
                           /\ op[th].name = n /\ op[th].env = e

\* Every envelope belongs to one name, and was hashed.
OneName ==
    \A n \in Names, e \in Envelopes \ {0} : Held(n, e) =>
        /\ e <= hashed
        /\ \A m \in Names : Held(m, e) => m = n

\* username is UNIQUE.
NamesDistinct ==
    \A i, j \in LiveIds : user[i].name = user[j].name => i = j

\* A thread stores an envelope into a row of the name it hashed for.
StoreTarget ==
    \A th \in Threads : op[th].at \in Storing =>
        /\ user[op[th].id] # Unused
        /\ Live(op[th].id) => user[op[th].id].name = op[th].name

EnvInv == TypeOK /\ OneName /\ NamesDistinct /\ StoreTarget

\* A step that puts no envelope where its name had none.
LEMMA QuietEnvelopes ==
    ASSUME TypeOK, TypeOK', OneName, hashed' = hashed,
           \A n \in Names, e \in Envelopes \ {0} : Held(n, e)' => Held(n, e)
    PROVE  OneName'
  BY DEF OneName

\* A step that hashes a new password for name n.
LEMMA FreshEnvelope ==
    ASSUME TypeOK, TypeOK', OneName, NEW n \in Names, hashed' = hashed + 1,
           \A m \in Names, e \in Envelopes \ {0} :
              Held(m, e)' => Held(m, e) \/ (m = n /\ e = hashed + 1)
    PROVE  OneName'
<1> SUFFICES ASSUME NEW m \in Names, NEW e \in Envelopes \ {0}, Held(m, e)'
             PROVE  e <= hashed' /\ \A k \in Names : Held(k, e)' => k = m
  BY DEF OneName
<1>1. hashed \in Nat /\ e \in Nat
  BY BoundsAssumption DEF TypeOK, Envelopes
<1>2. CASE e = hashed + 1
  <2>1. \A k \in Names : ~Held(k, e)
    BY <1>1, <1>2 DEF OneName
  <2> QED BY <1>1, <1>2, <2>1
<1>3. CASE e # hashed + 1
  BY <1>1, <1>3 DEF OneName
<1> QED BY <1>2, <1>3

\* A step of th that leaves table and map alone, and whose new operation holds
\* no envelope its name has not got already.
LEMMA OpOnlyStep ==
    ASSUME EnvInv, TypeOK', NEW th \in Threads, NEW o \in Op,
           op' = [op EXCEPT ![th] = o], UNCHANGED <<user, creds, hashed>>,
           o.at \in Creating \cup Storing => o.env = 0 \/ Held(o.name, o.env),
           o.at \in Storing => /\ user[o.id] # Unused
                               /\ Live(o.id) => user[o.id].name = o.name
    PROVE  EnvInv'
<1>1. \A t \in Threads : op'[t] = IF t = th THEN o ELSE op[t]
  BY DEF EnvInv, TypeOK
<1>2. ASSUME NEW n \in Names, NEW e \in Envelopes \ {0}, Held(n, e)'
      PROVE  Held(n, e)
  BY <1>1, <1>2 DEF Held, LiveIds, Live
<1>3. OneName'
  BY <1>2, QuietEnvelopes DEF EnvInv
<1>4. NamesDistinct'
  BY DEF EnvInv, NamesDistinct, LiveIds, Live
<1>5. StoreTarget'
  BY <1>1 DEF EnvInv, StoreTarget, Live
<1> QED BY <1>3, <1>4, <1>5 DEF EnvInv

\* Every step keeps EnvInv.
LEMMA EnvStep ==
    ASSUME EnvInv, [Next]_vars
    PROVE  EnvInv'
<1>0. TypeOK /\ TypeOK' /\ OneName /\ NamesDistinct /\ StoreTarget
  BY TypeStep DEF EnvInv
<1>a. \A t \in Threads : op[t] \in Op
  BY <1>0 DEF TypeOK
<1>b. \A i \in Ids : Live(i) => user[i] # Unused
  BY DEF Live, Unused
<1>1. CASE Restart
  <2>1. \A t \in Threads : op'[t] = Idle
    BY <1>1 DEF Restart
  <2>2. ASSUME NEW n \in Names, NEW e \in Envelopes \ {0}, Held(n, e)'
        PROVE  Held(n, e)
    <3>1. CASE creds'[n] = e
      <4>1. Startable /\ InUse(n) /\ e = user[CHOOSE i \in LiveIds : user[i].name = n].env
        BY <1>1, <3>1 DEF Restart, load_password_envelopes
      <4> QED BY <4>1 DEF InUse, Held
    <3>2. CASE creds'[n] # e
      BY <1>1, <2>1, <2>2, <3>2 DEF Restart, Held, LiveIds, Live, Idle, Creating, Storing
    <3> QED BY <3>1, <3>2
  <2>3. OneName'
    BY <1>0, <1>1, <2>2, QuietEnvelopes DEF Restart
  <2> QED BY <1>0, <1>1, <2>1, <2>3
          DEF Restart, EnvInv, NamesDistinct, StoreTarget, LiveIds, Live, Idle, Storing
<1>2. ASSUME NEW th \in Threads, StatementFails(th)
      PROVE  EnvInv'
  BY <1>0, <1>2, OpOnlyStep, OpTypes DEF StatementFails, Idle, Creating, Storing
<1>3. ASSUME NEW th \in Threads, Begin(th)
      PROVE  EnvInv'
  <2>1. \A i \in Ids : Live(i) => user[i].name \in Names
    BY <1>0, RowFields DEF Live, TypeOK
  <2>2. 0 \in Envelopes
    BY BoundsAssumption DEF Envelopes
  <2>3. PICK o \in Op : /\ Start(th, o)
                        /\ o.at \in Creating \cup Storing => o.env = 0
                        /\ o.at \in Storing => Live(o.id) /\ user[o.id].name = o.name
                        /\ o.at \in Storing => o.id \in Ids
    BY <1>3, <2>1, <2>2, OpTypes
    DEF Begin, Bootstrap_Check, CreateUser_Check, ResetPassword_Check, ChangePassword_Check,
        DeleteUser_Check, UpdateRole_Check, require_admin, LoggedIn, Roles, Creating, Storing,
        CreateOp, StoreOp, DeleteOp, RoleOp
  <2> QED BY <1>0, <1>b, <2>3, OpOnlyStep DEF Start
<1>4. ASSUME NEW th \in Threads, Continue(th)
      PROVE  EnvInv'
  <2>1. CASE Create_Register(th) \/ Password_Rehash(th)
    <3>1. op[th].at \in {"register", "rehash"} /\ op[th].name \in Names
      BY <2>1, <1>a, OpFields DEF Create_Register, Password_Rehash, Creating, Storing
    <3>2. /\ creds' = [creds EXCEPT ![op[th].name] = hashed + 1]
          /\ hashed' = hashed + 1 /\ user' = user
      BY <2>1 DEF Create_Register, Password_Rehash
    <3>3. PICK o \in Op : /\ op' = [op EXCEPT ![th] = o]
                          /\ o.at \in Creating \cup Storing
                          /\ o.name = op[th].name
                          /\ o.env \in {0, hashed + 1}
                          /\ o.at \in Storing => op[th].at \in Storing /\ o.id = op[th].id
      <4>1. op'[th] \in Op
        BY <1>0 DEF TypeOK
      <4> QED BY <2>1, <1>0, <4>1
              DEF Create_Register, Password_Rehash, CreateOp, StoreOp, TypeOK, Creating, Storing
    <3>4. \A t \in Threads : op'[t] = IF t = th THEN o ELSE op[t]
      BY <3>3, <1>0 DEF TypeOK
    <3>5. ASSUME NEW m \in Names, NEW e \in Envelopes \ {0}, Held(m, e)'
          PROVE  Held(m, e) \/ (m = op[th].name /\ e = hashed + 1)
      BY <3>2, <3>3, <3>4, <3>5, <1>0 DEF Held, LiveIds, Live, TypeOK
    <3>6. OneName'
      BY <1>0, <3>1, <3>2, <3>5, FreshEnvelope
    <3> QED BY <1>0, <3>2, <3>3, <3>4, <3>6
            DEF EnvInv, NamesDistinct, StoreTarget, LiveIds, Live
  <2>2. CASE Create_Derive(th)
    <3>1. PICK o \in Op : /\ op' = [op EXCEPT ![th] = o]
                          /\ o.at \in {"idle", "export"}
                          /\ o.at = "export" => o.env = 0
      <4>1. op'[th] \in Op
        BY <1>0 DEF TypeOK
      <4> QED BY <2>2, <1>0, <4>1 DEF Create_Derive, CreateOp, Idle, TypeOK
    <3> QED BY <2>2, <3>1, OpOnlyStep, <1>0 DEF Create_Derive, Creating, Storing
  <2>3. CASE Create_Export(th) \/ Password_Fetch(th)
    <3>1. PICK o \in Op : /\ op' = [op EXCEPT ![th] = o]
                          /\ o.name = op[th].name /\ o.env = creds[o.name]
                          /\ o.at \in Storing => op[th].at \in Storing /\ o.id = op[th].id
      <4>1. op'[th] \in Op
        BY <1>0 DEF TypeOK
      <4> QED BY <2>3, <1>0, <4>1
              DEF Create_Export, Password_Fetch, CreateOp, StoreOp, TypeOK, Storing
    <3>2. Held(o.name, o.env)
      BY <3>1 DEF Held
    <3>3. o.at \in Storing => /\ user[o.id] # Unused
                              /\ Live(o.id) => user[o.id].name = o.name
      BY <3>1, <1>0 DEF StoreTarget
    <3> QED BY <2>3, <3>1, <3>2, <3>3, OpOnlyStep, <1>0 DEF Create_Export, Password_Fetch
  <2>4. ASSUME NEW i \in Ids, Create_Insert(th, i)
        PROVE  EnvInv'
    <3>1. CASE InUse(op[th].name)
      BY <2>4, <3>1, <1>0, OpOnlyStep, OpTypes DEF Create_Insert, Idle, Creating, Storing
    <3>2. CASE ~InUse(op[th].name)
      <4>1. /\ op[th].at = "insert" /\ user[i] = Unused
            /\ user' = [user EXCEPT ![i] = LiveRow(op[th].name, op[th].role, 0)]
            /\ op' = [op EXCEPT ![th] = StoreOp("store", i, op[th].name, op[th].boot,
                                                op[th].env)]
            /\ UNCHANGED <<creds, hashed>>
        BY <2>4, <3>2 DEF Create_Insert, IsNextId
      <4>2. /\ \A j \in Ids : user'[j] = IF j = i THEN LiveRow(op[th].name, op[th].role, 0)
                                                  ELSE user[j]
            /\ \A t \in Threads : op'[t] = IF t = th
                                     THEN StoreOp("store", i, op[th].name, op[th].boot,
                                                  op[th].env)
                                     ELSE op[t]
        BY <4>1, <1>0 DEF TypeOK
      <4>3. ASSUME NEW n \in Names, NEW e \in Envelopes \ {0}, Held(n, e)'
            PROVE  Held(n, e)
        <5>1. CASE creds'[n] = e
          BY <4>1, <5>1 DEF Held
        <5>2. ASSUME NEW j \in LiveIds', user'[j].name = n, user'[j].env = e
              PROVE  Held(n, e)
          BY <4>2, <5>2 DEF Held, LiveIds, Live, LiveRow
        <5>3. ASSUME NEW t \in Threads, op'[t].at \in Creating \cup Storing,
                     op'[t].name = n, op'[t].env = e
              PROVE  Held(n, e)
          <6>1. CASE t = th
            BY <4>1, <4>2, <5>3, <6>1 DEF Held, StoreOp, Creating
          <6>2. CASE t # th
            BY <4>2, <5>3, <6>2 DEF Held
          <6> QED BY <6>1, <6>2
        <5> QED BY <4>3, <5>1, <5>2, <5>3 DEF Held
      <4>4. OneName'
        BY <1>0, <4>1, <4>3, QuietEnvelopes
      <4>5. NamesDistinct'
        BY <1>0, <3>2, <4>2 DEF NamesDistinct, InUse, LiveIds, Live, LiveRow
      <4>6. StoreTarget'
        <5> SUFFICES ASSUME NEW t \in Threads, op'[t].at \in Storing
                     PROVE  /\ user'[op'[t].id] # Unused
                            /\ user'[op'[t].id].state = "live" =>
                                  user'[op'[t].id].name = op'[t].name
          BY DEF StoreTarget, Live
        <5>1. CASE t = th
          BY <4>2, <5>1 DEF StoreOp, LiveRow, Unused
        <5>2. CASE t # th
          <6>1. op'[t] = op[t] /\ op[t].id \in Ids
            BY <4>2, <5>2, <1>a, OpFields DEF Storing
          <6>2. user[op[t].id] # Unused
            BY <6>1, <1>0 DEF StoreTarget
          <6>3. user'[op[t].id] = user[op[t].id]
            BY <4>1, <4>2, <6>1, <6>2
          <6> QED BY <6>1, <6>2, <6>3, <1>0 DEF StoreTarget, Live
        <5> QED BY <5>1, <5>2
      <4> QED BY <1>0, <4>4, <4>5, <4>6 DEF EnvInv
    <3> QED BY <3>1, <3>2
  <2>5. CASE StoreEnvelope(th)
    <3>0. op[th].at = "store" /\ op[th].id \in Ids /\ op[th].name \in Names
      BY <2>5, <1>a, OpFields DEF StoreEnvelope, Storing
    <3>1. CASE ~Live(op[th].id)
      BY <2>5, <3>1, <1>0, OpOnlyStep, OpTypes DEF StoreEnvelope, Idle, Creating, Storing
    <3>2. CASE Live(op[th].id)
      <4>0. user[op[th].id].name = op[th].name
        BY <3>0, <3>2, <1>0 DEF StoreTarget, Storing
      <4>1. /\ UNCHANGED <<creds, hashed>>
            /\ \A j \in Ids : user'[j] = IF j = op[th].id
                                 THEN LiveRow(op[th].name, user[j].role, op[th].env)
                                 ELSE user[j]
            /\ \A t \in Threads : op'[t] = IF t = th THEN Idle ELSE op[t]
        BY <2>5, <3>2, <4>0, <1>0 DEF StoreEnvelope, TypeOK
      <4>2. \A j \in Ids : /\ Live(j)' <=> Live(j)
                           /\ Live(j) => user'[j].name = user[j].name
                           /\ user'[j] = Unused => user[j] = Unused
        <5> TAKE j \in Ids
        <5>1. CASE j = op[th].id
          <6>1. user'[j] = LiveRow(op[th].name, user[j].role, op[th].env)
            BY <4>1, <5>1
          <6>2. /\ user'[j].state = "live" /\ user'[j].name = op[th].name
                /\ Unused.state = "unused"
            BY <6>1 DEF LiveRow, Unused
          <6> QED BY <4>0, <3>2, <5>1, <6>2 DEF Live
        <5>2. CASE j # op[th].id
          BY <4>1, <5>2 DEF Live
        <5> QED BY <5>1, <5>2
      <4>3. ASSUME NEW n \in Names, NEW e \in Envelopes \ {0}, Held(n, e)'
            PROVE  Held(n, e)
        <5>1. CASE creds'[n] = e
          BY <4>1, <5>1 DEF Held
        <5>2. ASSUME NEW j \in LiveIds', user'[j].name = n, user'[j].env = e
              PROVE  Held(n, e)
          <6>1. CASE j = op[th].id
            <7>1. user'[j] = LiveRow(op[th].name, user[j].role, op[th].env)
              BY <3>0, <4>1, <6>1
            <7>2. n = op[th].name /\ e = op[th].env
              BY <5>2, <7>1 DEF LiveRow
            <7> QED BY <3>0, <7>2 DEF Held, Storing
          <6>2. CASE j # op[th].id
            BY <4>1, <4>2, <5>2, <6>2 DEF Held, LiveIds
          <6> QED BY <6>1, <6>2
        <5>3. ASSUME NEW t \in Threads, op'[t].at \in Creating \cup Storing,
                     op'[t].name = n, op'[t].env = e
              PROVE  Held(n, e)
          BY <4>1, <5>3 DEF Held, Idle, Creating, Storing
        <5> QED BY <4>3, <5>1, <5>2, <5>3 DEF Held
      <4>4. OneName'
        BY <1>0, <4>1, <4>3, QuietEnvelopes
      <4>5. NamesDistinct'
        BY <1>0, <4>2 DEF NamesDistinct, LiveIds
      <4>6. StoreTarget'
        <5> SUFFICES ASSUME NEW t \in Threads, op'[t].at \in Storing
                     PROVE  /\ user'[op'[t].id] # Unused
                            /\ user'[op'[t].id].state = "live" =>
                                  user'[op'[t].id].name = op'[t].name
          BY DEF StoreTarget, Live
        <5>1. op'[t] = op[t] /\ op[t].id \in Ids
          BY <4>1, <1>a, OpFields DEF Idle, Storing
        <5> QED BY <5>1, <4>2, <1>0 DEF StoreTarget, Live
      <4> QED BY <1>0, <4>4, <4>5, <4>6 DEF EnvInv
    <3> QED BY <3>1, <3>2
  <2>6. CASE DeleteUser_Delete(th) \/ UpdateRole_Update(th)
    <3>0. op[th].at \in {"delete", "role"} /\ op[th].id \in Ids
      BY <2>6, <1>a, OpFields DEF DeleteUser_Delete, UpdateRole_Update
    <3>1. /\ UNCHANGED <<creds, hashed>>
          /\ \A t \in Threads : op'[t] = IF t = th THEN Idle ELSE op[t]
      BY <2>6, <1>0 DEF DeleteUser_Delete, UpdateRole_Update, TypeOK
    <3>2. \A j \in Ids : /\ Live(j)' => /\ Live(j)
                                        /\ user'[j].name = user[j].name
                                        /\ user'[j].env = user[j].env
                         /\ user'[j] = Unused => user[j] = Unused
      BY <2>6, <3>0, <1>0
      DEF DeleteUser_Delete, UpdateRole_Update, TypeOK, Live, LiveRow, Gone, Unused
    <3>3. ASSUME NEW n \in Names, NEW e \in Envelopes \ {0}, Held(n, e)'
          PROVE  Held(n, e)
      BY <3>1, <3>2, <3>3 DEF Held, LiveIds, Idle, Creating, Storing
    <3>4. OneName'
      BY <1>0, <3>1, <3>3, QuietEnvelopes
    <3>5. NamesDistinct'
      BY <1>0, <3>2 DEF NamesDistinct, LiveIds
    <3>6. StoreTarget'
      <4> SUFFICES ASSUME NEW t \in Threads, op'[t].at \in Storing
                   PROVE  /\ user'[op'[t].id] # Unused
                          /\ user'[op'[t].id].state = "live" =>
                                user'[op'[t].id].name = op'[t].name
        BY DEF StoreTarget, Live
      <4>1. op'[t] = op[t] /\ op[t].id \in Ids
        BY <3>1, <1>a, OpFields DEF Idle, Storing
      <4> QED BY <4>1, <3>2, <1>0 DEF StoreTarget, Live
    <3> QED BY <1>0, <3>4, <3>5, <3>6 DEF EnvInv
  <2> QED BY <1>4, <2>1, <2>2, <2>3, <2>4, <2>5, <2>6 DEF Continue
<1>5. CASE UNCHANGED vars
  BY <1>0, <1>5 DEF vars, EnvInv, OneName, Held, NamesDistinct, StoreTarget, LiveIds, Live
<1> QED BY <1>1, <1>2, <1>3, <1>4, <1>5 DEF Next

LEMMA EnvInit == Init => EnvInv
<1> SUFFICES ASSUME Init PROVE EnvInv
  OBVIOUS
<1>1. LiveIds = {}
  BY DEF Init, LiveIds, Live, Unused
<1>2. \A n \in Names, e \in Envelopes \ {0} : ~Held(n, e)
  BY <1>1 DEF Init, Held, Idle, Creating, Storing
<1> QED BY <1>1, <1>2, TypeInit
        DEF Init, EnvInv, OneName, NamesDistinct, StoreTarget, Idle, Storing

\* Whatever creations, changes, resets, deletions, failures and restarts
\* interleave, no two accounts are stored with the same envelope.
THEOREM NoSharedEnvelope == Spec => []EnvelopesDistinct
<1>1. EnvInv => EnvelopesDistinct
  <2> SUFFICES ASSUME EnvInv, NEW i \in LiveIds, NEW j \in LiveIds,
                      user[i].env # 0, user[i].env = user[j].env
               PROVE  i = j
    BY DEF EnvelopesDistinct
  <2>1. /\ user[i].name \in Names /\ user[j].name \in Names
        /\ user[i].env \in Envelopes \ {0}
    BY RowFields DEF EnvInv, TypeOK, LiveIds, Live
  <2>2. Held(user[i].name, user[i].env) /\ Held(user[j].name, user[i].env)
    BY DEF Held
  <2> QED BY <2>1, <2>2 DEF EnvInv, OneName, NamesDistinct
<1> QED BY <1>1, EnvInit, EnvStep, PTL DEF Spec
-----------------------------------------------------------------------------
(* AtLeastOneAdmin, for one operation at a time.                            *)

\* What the checks leave behind for the statement that follows: a creation is
\* the wizard's or an admin exists, and a deletion or demotion leaves another
\* admin.  With two threads the latter is what fails.
ChecksHold ==
    \A th \in Threads :
      /\ op[th].at \in Creating => op[th].role = "admin" \/ Admins # {}
      /\ op[th].at = "delete" \/ (op[th].at = "role" /\ op[th].role = "user") =>
            \E a \in Admins : a # op[th].id

AdminInv == AtLeastOneAdmin /\ ChecksHold

\* admin_count leaves another admin.
LEMMA AnotherAdmin ==
    ASSUME TypeOK, AtLeastOneAdmin, NEW i \in Ids, Live(i), admin_count_ok(i)
    PROVE  \E a \in Admins : a # i
<1>1. IsFiniteSet(Admins)
  <2>1. IsFiniteSet(Ids) /\ Admins \in SUBSET Ids
    BY FS_Interval, BoundsAssumption DEF Ids, Admins, LiveIds
  <2> QED BY <2>1, FS_Subset
<1>2. Admins # {}
  BY DEF AtLeastOneAdmin, Live, Unused
<1>3. CASE i \notin Admins
  BY <1>2, <1>3
<1>4. CASE i \in Admins
  <2>1. Cardinality(Admins) > 1
    BY <1>4 DEF admin_count_ok
  <2>2. Admins # {i}
    BY <2>1, FS_Singleton
  <2> QED BY <1>4, <2>2
<1> QED BY <1>3, <1>4

\* A step that leaves the table alone and starts nothing unchecked.
LEMMA TableAlone ==
    ASSUME TypeOK, AdminInv, user' = user,
           \A t \in Threads :
              \/ op'[t] = Idle \/ op'[t] = op[t]
              \/ op'[t].at \in Storing
              \/ op'[t].at \in Creating /\ (op'[t].role = "admin" \/ Admins # {})
              \/ op'[t].at = "role" /\ op'[t].role = "admin"
              \/ op'[t].at \in {"delete", "role"} /\ \E a \in Admins : a # op'[t].id
    PROVE  AdminInv'
<1>1. Admins' = Admins
  BY DEF Admins, LiveIds, Live
<1>2. AtLeastOneAdmin'
  BY <1>1 DEF AdminInv, AtLeastOneAdmin
<1>3. ASSUME NEW t \in Threads
      PROVE  /\ op'[t].at \in Creating => op'[t].role = "admin" \/ Admins # {}
             /\ op'[t].at = "delete" \/ (op'[t].at = "role" /\ op'[t].role = "user") =>
                   \E a \in Admins : a # op'[t].id
  <2>1. CASE op'[t] = op[t]
    BY <2>1 DEF AdminInv, ChecksHold
  <2>2. CASE op'[t] # op[t]
    BY <1>3, <2>2 DEF Idle, Creating, Storing
  <2> QED BY <2>1, <2>2
<1> QED BY <1>1, <1>2, <1>3 DEF AdminInv, ChecksHold

\* At most one thread is in the middle of an operation.
OneBusy == \A x, y \in Threads : op[x] # Idle /\ op[y] # Idle => x = y

\* Every step of the only busy thread keeps AdminInv.
LEMMA AdminStep ==
    ASSUME TypeOK, OneBusy, AdminInv, [Next]_vars
    PROVE  AdminInv'
<1>0. /\ op \in [Threads -> Op] /\ user \in [Ids -> Row]
      /\ \A t \in Threads : op[t] \in Op
  BY DEF TypeOK
<1>1. CASE Restart
  BY <1>1, TableAlone DEF Restart
<1>2. ASSUME NEW th \in Threads, StatementFails(th) PROVE AdminInv'
  BY <1>2, <1>0, TableAlone DEF StatementFails
<1>3. ASSUME NEW th \in Threads, Begin(th) PROVE AdminInv'
  <2> DEFINE Checked(o) ==
          \/ o.at \in Storing
          \/ o.at \in Creating /\ (o.role = "admin" \/ Admins # {})
          \/ o.at = "role" /\ o.role = "admin"
          \/ /\ o.at \in {"delete", "role"} /\ o.id \in Ids /\ Live(o.id)
             /\ admin_count_ok(o.id)
  <2>1. \E o : Start(th, o) /\ Checked(o)
    <3>1. ASSUME NEW n \in Names, Bootstrap_Check(th, n)
          PROVE  \E o : Start(th, o) /\ Checked(o)
      <4> WITNESS CreateOp("register", n, "admin", TRUE, 0)
      <4> QED BY <3>1 DEF Bootstrap_Check, CreateOp, Creating
    <3>2. ASSUME NEW a \in Ids, NEW n \in Names, NEW r \in Roles,
                 CreateUser_Check(th, a, n, r)
          PROVE  \E o : Start(th, o) /\ Checked(o)
      <4> WITNESS CreateOp("register", n, r, FALSE, 0)
      <4> QED BY <3>2 DEF CreateUser_Check, require_admin, CreateOp, Creating
    <3>3. ASSUME NEW a \in Ids, NEW i \in Ids, NEW r \in Roles,
                 UpdateRole_Check(th, a, i, r)
          PROVE  \E o : Start(th, o) /\ Checked(o)
      <4> WITNESS RoleOp(i, r)
      <4> QED BY <3>3 DEF UpdateRole_Check, RoleOp, Roles
    <3>4. ASSUME NEW a \in Ids, NEW i \in Ids, DeleteUser_Check(th, a, i)
          PROVE  \E o : Start(th, o) /\ Checked(o)
      <4> WITNESS DeleteOp(i)
      <4> QED BY <3>4 DEF DeleteUser_Check, DeleteOp
    <3>5. ASSUME NEW i \in Ids, NEW a \in Ids,
                 ResetPassword_Check(th, a, i) \/ ChangePassword_Check(th, i)
          PROVE  \E o : Start(th, o) /\ Checked(o)
      <4> WITNESS StoreOp("rehash", i, user[i].name, FALSE, 0)
      <4> QED BY <3>5 DEF ResetPassword_Check, ChangePassword_Check, StoreOp, Storing
    <3> HIDE DEF Checked
    <3> QED BY <1>3, <3>1, <3>2, <3>3, <3>4, <3>5 DEF Begin
  <2>x. PICK o : Start(th, o) /\ Checked(o)
    BY <2>1
  <2>2. o.at \in {"delete", "role"} /\ o.id \in Ids /\ Live(o.id) /\ admin_count_ok(o.id)
          => \E a \in Admins : a # o.id
    BY AnotherAdmin DEF AdminInv
  <2>3. user' = user /\ \A t \in Threads : op'[t] = IF t = th THEN o ELSE op[t]
    BY <2>x, <1>0 DEF Start
  <2> QED BY <2>x, <2>2, <2>3, TableAlone
<1>4. ASSUME NEW th \in Threads, Create_Register(th) \/ Create_Derive(th) \/ Create_Export(th)
      PROVE  AdminInv'
  <2>1. /\ user' = user
        /\ op'[th] = Idle \/ (op'[th].at \in Creating /\ op'[th].role = op[th].role)
        /\ \A t \in Threads : t # th => op'[t] = op[t]
    BY <1>4, <1>0 DEF Create_Register, Create_Derive, Create_Export, CreateOp, Creating
  <2>2. op[th].role = "admin" \/ Admins # {}
    BY <1>4 DEF AdminInv, ChecksHold, Create_Register, Create_Derive, Create_Export, Creating
  <2> QED BY <2>1, <2>2, TableAlone
<1>5. ASSUME NEW th \in Threads, Password_Rehash(th) \/ Password_Fetch(th)
      PROVE  AdminInv'
  <2>1. /\ user' = user /\ op'[th].at \in Storing
        /\ \A t \in Threads : t # th => op'[t] = op[t]
    BY <1>5, <1>0 DEF Password_Rehash, Password_Fetch, StoreOp, Storing
  <2> QED BY <2>1, TableAlone
<1>6. ASSUME NEW th \in Threads, NEW i \in Ids, Create_Insert(th, i)
      PROVE  AdminInv'
  <2>1. CASE InUse(op[th].name)
    BY <1>6, <2>1, <1>0, TableAlone DEF Create_Insert
  <2>2. CASE ~InUse(op[th].name)
    <3>1. /\ op[th].at = "insert" /\ user[i] = Unused
          /\ \A j \in Ids : user'[j] = IF j = i THEN LiveRow(op[th].name, op[th].role, 0)
                                              ELSE user[j]
          /\ op'[th].at = "store"
      BY <1>6, <2>2, <1>0 DEF Create_Insert, IsNextId, StoreOp
    <3>2. op[th].role = "admin" \/ Admins # {}
      BY <3>1 DEF AdminInv, ChecksHold, Creating
    <3>3. Admins' # {}
      <4>1. CASE op[th].role = "admin"
        <5>1. i \in Admins'
          BY <3>1, <4>1 DEF Admins, LiveIds, Live, LiveRow
        <5> QED BY <5>1
      <4>2. CASE Admins # {}
        <5>1. PICK a \in Admins : TRUE
          BY <4>2
        <5>2. a \in Ids /\ a # i
          BY <3>1 DEF Admins, LiveIds, Live, Unused
        <5>3. a \in Admins'
          BY <3>1, <5>2 DEF Admins, LiveIds, Live
        <5> QED BY <5>3
      <4> QED BY <3>2, <4>1, <4>2
    <3>4. AtLeastOneAdmin'
      BY <3>3 DEF AtLeastOneAdmin
    <3>5. \A t \in Threads : op'[t].at = "store" \/ op'[t] = Idle
      BY <1>6, <1>0, <3>1 DEF Create_Insert, OneBusy, Idle
    <3> QED BY <3>4, <3>5 DEF AdminInv, ChecksHold, Creating, Idle
  <2> QED BY <2>1, <2>2
<1>7. ASSUME NEW th \in Threads, StoreEnvelope(th) PROVE AdminInv'
  <2>0. op[th].id \in Ids /\ \A t \in Threads : op'[t] = Idle
    BY <1>7, <1>0, OpFields DEF StoreEnvelope, Storing, OneBusy, Idle
  <2>1. CASE ~Live(op[th].id)
    BY <1>7, <2>0, <2>1, TableAlone DEF StoreEnvelope
  <2>2. CASE Live(op[th].id)
    <3>1. \A j \in Ids : /\ user'[j].state = user[j].state /\ user'[j].role = user[j].role
                         /\ user[j] = Unused <=> user'[j] = Unused
      <4> TAKE j \in Ids
      <4>1. CASE j = op[th].id
        <5>1. user'[j] = LiveRow(user[j].name, user[j].role, op[th].env)
          BY <1>7, <1>0, <2>2, <4>1 DEF StoreEnvelope
        <5>2. /\ user'[j].state = "live" /\ user'[j].role = user[j].role
              /\ Unused.state = "unused"
          BY <5>1 DEF LiveRow, Unused
        <5> QED BY <5>2, <2>2, <4>1 DEF Live
      <4>2. CASE j # op[th].id
        BY <1>7, <1>0, <2>2, <4>2 DEF StoreEnvelope
      <4> QED BY <4>1, <4>2
    <3>2. Admins' = Admins
      BY <3>1 DEF Admins, LiveIds, Live
    <3> QED BY <2>0, <3>1, <3>2
            DEF AdminInv, AtLeastOneAdmin, ChecksHold, Idle, Creating
  <2> QED BY <2>1, <2>2
<1>8. ASSUME NEW th \in Threads, DeleteUser_Delete(th) \/ UpdateRole_Update(th)
      PROVE  AdminInv'
  <2>0. /\ op[th].at \in {"delete", "role"} /\ op[th].id \in Ids
        /\ op[th].at = "role" => op[th].role \in Roles
        /\ \A t \in Threads : op'[t] = Idle
    BY <1>8, <1>0, OpFields DEF DeleteUser_Delete, UpdateRole_Update, OneBusy, Idle
  <2>1. CASE ~Live(op[th].id)
    BY <1>8, <2>0, <2>1, TableAlone DEF DeleteUser_Delete, UpdateRole_Update
  <2>2. CASE Live(op[th].id)
    <3>1. \A j \in Ids : j # op[th].id => user'[j] = user[j]
      BY <1>8, <1>0, <2>2 DEF DeleteUser_Delete, UpdateRole_Update
    <3>2. CASE op[th].at = "role" /\ op[th].role = "admin"
      <4>1. user'[op[th].id] = LiveRow(user[op[th].id].name, "admin", user[op[th].id].env)
        BY <1>8, <1>0, <2>0, <2>2, <3>2 DEF DeleteUser_Delete, UpdateRole_Update
      <4>2. op[th].id \in Admins'
        BY <2>0, <4>1 DEF Admins, LiveIds, Live, LiveRow
      <4> QED BY <2>0, <4>2 DEF AdminInv, AtLeastOneAdmin, ChecksHold, Idle, Creating
    <3>3. CASE ~(op[th].at = "role" /\ op[th].role = "admin")
      <4>1. PICK a \in Admins : a # op[th].id
        BY <2>0, <3>3 DEF AdminInv, ChecksHold, Roles
      <4>2. a \in Admins'
        BY <3>1, <4>1 DEF Admins, LiveIds, Live
      <4> QED BY <2>0, <4>2 DEF AdminInv, AtLeastOneAdmin, ChecksHold, Idle, Creating
    <3> QED BY <3>2, <3>3
  <2> QED BY <2>1, <2>2
<1>9. CASE UNCHANGED vars
  BY <1>9, TableAlone DEF vars
<1> QED BY <1>1, <1>2, <1>3, <1>4, <1>5, <1>6, <1>7, <1>8, <1>9 DEF Next, Continue

\* When operations run one after the other there is an admin from the first
\* account on, whatever is deleted, demoted or interrupted by a crash.
THEOREM SequentialAdmin ==
    (\A x, y \in Threads : x = y) => (Spec => []AtLeastOneAdmin)
<1> SUFFICES ASSUME \A x, y \in Threads : x = y PROVE Spec => []AtLeastOneAdmin
  OBVIOUS
<1>1. Init => AdminInv
  BY DEF Init, AdminInv, AtLeastOneAdmin, ChecksHold, Idle, Creating
<1>2. TypeOK /\ AdminInv /\ [Next]_vars => AdminInv'
  BY AdminStep DEF OneBusy
<1>3. AdminInv => AtLeastOneAdmin
  BY DEF AdminInv
<1> QED BY <1>1, <1>2, <1>3, TypeCorrect, PTL DEF Spec
-----------------------------------------------------------------------------
(* MCAccounts: one administrator at work, among any number of threads.      *)

\* The behaviours of MCAccounts are behaviours of Accounts.
LEMMA MCStep == [MCNext]_<<vars, alone>> => [Next]_vars /\ alone' = alone
  BY DEF MCNext, AloneNext, Next, vars

\* A step of a thread leaves the others where they are.
LEMMA OthersStay ==
    ASSUME TypeOK, NEW th \in Threads, Begin(th) \/ Continue(th)
    PROVE  \A t \in Threads : t # th => op'[t] = op[t]
<1>0. op \in [Threads -> Op]
  BY DEF TypeOK
<1>1. CASE Begin(th)
  BY <1>0, <1>1
  DEF Begin, Bootstrap_Check, CreateUser_Check, ResetPassword_Check, ChangePassword_Check,
      DeleteUser_Check, UpdateRole_Check, Start
<1>2. CASE Continue(th)
  BY <1>0, <1>2
  DEF Continue, Create_Register, Create_Derive, Create_Export, Create_Insert,
      Password_Rehash, Password_Fetch, StoreEnvelope, DeleteUser_Delete, UpdateRole_Update
<1> QED BY <1>1, <1>2

LEMMA ContinueBusy ==
    ASSUME NEW th \in Threads, Continue(th)
    PROVE  op[th] # Idle
<1>1. op[th].at \in Creating \cup Storing \cup {"delete", "role"}
  BY DEF Continue, Create_Register, Create_Derive, Create_Export, Create_Insert,
     Password_Rehash, Password_Fetch, StoreEnvelope, DeleteUser_Delete,
     UpdateRole_Update, Creating, Storing
<1> QED BY <1>1 DEF Idle, Creating, Storing

\* An operation that has begun is finished before the next.
LEMMA BusyStep ==
    ASSUME TypeOK, alone, OneBusy, [MCNext]_<<vars, alone>>
    PROVE  OneBusy'
<1>1. ASSUME NEW th \in Threads, AllIdle, Begin(th) PROVE OneBusy'
  BY <1>1, OthersStay DEF AllIdle, OneBusy
<1>2. ASSUME NEW th \in Threads, Continue(th) PROVE OneBusy'
  <2> QED BY <1>2, ContinueBusy, OthersStay DEF OneBusy
<1>3. CASE Restart
  BY <1>3 DEF Restart, OneBusy
<1>4. CASE UNCHANGED <<vars, alone>>
  BY <1>4 DEF vars, OneBusy
<1> QED BY <1>1, <1>2, <1>3, <1>4 DEF MCNext, AloneNext

\* The last admin can be neither deleted nor demoted when one operation runs at
\* a time, in whichever threads, across crashes and restarts: AdminKeptAlone
\* for all constants.
THEOREM AdminAlone == MCSpec => []AdminKeptAlone
<1> DEFINE Inv == TypeOK /\ (alone => OneBusy /\ AdminInv)
<1>1. MCInit => Inv
  <2> SUFFICES ASSUME MCInit PROVE Inv
    OBVIOUS
  <2>1. TypeOK
    BY TypeInit DEF MCInit
  <2> QED BY <2>1 DEF MCInit, Init, OneBusy, AdminInv, AtLeastOneAdmin, ChecksHold,
                      Idle, Creating
<1>2. Inv /\ [MCNext]_<<vars, alone>> => Inv'
  BY MCStep, TypeStep, BusyStep, AdminStep
<1>3. Inv => AdminKeptAlone
  BY DEF AdminInv, AdminKeptAlone
<1> QED BY <1>1, <1>2, <1>3, PTL DEF MCSpec
-----------------------------------------------------------------------------
(* MemoryMatchesTable, for one operation at a time.                         *)

Matching(i) == user[i].env # 0 => creds[user[i].name] = user[i].env

\* What an operation under way may count on: the name of a creation has no row
\* with an envelope, a password is stored into a row that is there, and what is
\* about to be stored is what the map holds.  Under the wizard there is no other
\* account.
Carried(o) ==
    /\ o.at \in Creating =>
          /\ \A i \in LiveIds : user[i].name = o.name => user[i].env = 0
          /\ mode = "bootstrap" => LiveIds = {}
    /\ o.at \in Storing => Live(o.id) /\ (mode = "bootstrap" => LiveIds = {o.id})
    /\ o.at \in {"insert", "store"} => o.env = creds[o.name]

\* A row differs from the map only while a thread is about to store into it.
MemoryInv ==
    /\ \A th \in Threads : Carried(op[th])
    /\ mode = "ready" => \A i \in LiveIds :
          Matching(i) \/ \E th \in Threads : op[th].at \in Storing /\ op[th].id = i

\* A step after which only th may be busy.
LEMMA MemoryOf ==
    ASSUME NEW th \in Threads, \A t \in Threads : t # th => op'[t] = Idle,
           Carried(op[th])',
           mode' = "ready" => \A i \in LiveIds' :
              Matching(i)' \/ (op'[th].at \in Storing /\ op'[th].id = i)
    PROVE  MemoryInv'
<1>1. ASSUME NEW t \in Threads, t # th PROVE Carried(op[t])'
  BY <1>1 DEF Carried, Idle, Creating, Storing
<1> QED BY <1>1 DEF MemoryInv

\* Every step of the only busy thread keeps MemoryInv.
LEMMA MemoryStep ==
    ASSUME EnvInv, OneBusy, MemoryInv, AloneNext
    PROVE  MemoryInv'
<1>0. /\ TypeOK /\ NamesDistinct /\ StoreTarget /\ op \in [Threads -> Op]
      /\ user \in [Ids -> Row] /\ creds \in [Names -> Envelopes]
      /\ \A i \in LiveIds : user[i].name \in Names /\ i \in Ids
  BY RowFields DEF EnvInv, TypeOK, LiveIds, Live
<1>1. CASE Restart
  <2>1. \A t \in Threads : op'[t] = Idle
    BY <1>1 DEF Restart
  <2>2. \A t \in Threads : Carried(op[t])'
    BY <2>1 DEF Carried, Idle, Creating, Storing
  <2>3. ASSUME mode' = "ready", NEW i \in LiveIds' PROVE Matching(i)'
    <3>1. i \in LiveIds /\ Startable
      BY <1>1, <2>3 DEF Restart, LiveIds, Live
    <3>2. InUse(user[i].name) /\ user[i].name \in Names
      BY <1>0, <3>1 DEF InUse
    <3>3. (CHOOSE j \in LiveIds : user[j].name = user[i].name) = i
      BY <1>0, <3>1 DEF NamesDistinct
    <3>4. creds' = load_password_envelopes /\ user' = user
      BY <1>1, <3>1 DEF Restart
    <3>5. creds'[user[i].name] = user[i].env
      BY <3>2, <3>3, <3>4 DEF load_password_envelopes
    <3> QED BY <3>4, <3>5 DEF Matching
  <2> QED BY <2>2, <2>3 DEF MemoryInv
<1>2. ASSUME NEW th \in Threads, AllIdle, Begin(th) PROVE MemoryInv'
  <2>0. \A t \in Threads : t # th => op'[t] = Idle
    BY <1>0, <1>2, OthersStay DEF AllIdle
  <2>1. mode = "ready" => \A i \in LiveIds : Matching(i)
    BY <1>2 DEF AllIdle, Idle, Storing, MemoryInv
  <2> DEFINE Fit(o) == /\ Start(th, o)
                       /\ o.at \in Creating =>
                            /\ o.at = "register" /\ creds[o.name] = 0
                            /\ mode = "bootstrap" => LiveIds = {}
                       /\ o.at \in Storing => o.at = "rehash" /\ Live(o.id) /\ mode = "ready"
  <2>2. \E o : Fit(o)
    <3>1. ASSUME NEW n \in Names, Bootstrap_Check(th, n) PROVE \E o : Fit(o)
      <4> WITNESS CreateOp("register", n, "admin", TRUE, 0)
      <4> QED BY <3>1 DEF Bootstrap_Check, CreateOp, Creating, Storing
    <3>2. ASSUME NEW a \in Ids, NEW n \in Names, NEW r \in Roles,
                 CreateUser_Check(th, a, n, r)
          PROVE  \E o : Fit(o)
      <4> WITNESS CreateOp("register", n, r, FALSE, 0)
      <4> QED BY <3>2 DEF CreateUser_Check, require_admin, LoggedIn, CreateOp, Creating, Storing
    <3>3. ASSUME NEW a \in Ids, NEW i \in Ids,
                 ResetPassword_Check(th, a, i) \/ ChangePassword_Check(th, i)
          PROVE  \E o : Fit(o)
      <4> WITNESS StoreOp("rehash", i, user[i].name, FALSE, 0)
      <4> QED BY <3>3 DEF ResetPassword_Check, ChangePassword_Check, require_admin, LoggedIn,
                          StoreOp, Creating, Storing
    <3>4. ASSUME NEW a \in Ids, NEW i \in Ids, DeleteUser_Check(th, a, i)
          PROVE  \E o : Fit(o)
      <4> WITNESS DeleteOp(i)
      <4> QED BY <3>4 DEF DeleteUser_Check, DeleteOp, Creating, Storing
    <3>5. ASSUME NEW a \in Ids, NEW i \in Ids, NEW r \in Roles,
                 UpdateRole_Check(th, a, i, r)
          PROVE  \E o : Fit(o)
      <4> WITNESS RoleOp(i, r)
      <4> QED BY <3>5 DEF UpdateRole_Check, RoleOp, Creating, Storing
    <3> HIDE DEF Fit
    <3> QED BY <1>2, <3>1, <3>2, <3>3, <3>4, <3>5 DEF Begin
  <2>3. PICK o : Fit(o)
    BY <2>2
  <2>4. op'[th] = o /\ UNCHANGED <<user, creds, mode>>
    BY <1>0, <2>3 DEF Start
  <2>5. Carried(o)
    <3>1. ASSUME o.at \in Creating, NEW i \in LiveIds, user[i].name = o.name
          PROVE  user[i].env = 0
      <4>1. mode = "ready" /\ creds[user[i].name] = 0
        BY <1>0, <2>3, <3>1 DEF TypeOK
      <4> QED BY <2>1, <4>1 DEF Matching
    <3> QED BY <2>3, <3>1 DEF Carried, Creating, Storing
  <2>6. Carried(op[th])'
    BY <2>4, <2>5 DEF Carried, LiveIds, Live
  <2>7. mode' = "ready" => \A i \in LiveIds' : Matching(i)'
    BY <2>1, <2>4 DEF Matching, LiveIds, Live
  <2> QED BY <2>0, <2>6, <2>7, MemoryOf
<1>3. ASSUME NEW th \in Threads, Continue(th) PROVE MemoryInv'
  <2>0. /\ \A t \in Threads : t # th => op'[t] = Idle
        /\ \A t \in Threads : t # th => op[t] = Idle
        /\ op[th] \in Op /\ Carried(op[th])
    BY <1>0, <1>3, ContinueBusy, OthersStay DEF OneBusy, MemoryInv
  <2>1. mode = "ready" => \A i \in LiveIds :
            Matching(i) \/ (op[th].at \in Storing /\ op[th].id = i)
    BY <2>0 DEF MemoryInv, Idle, Storing
  <2>2. CASE Create_Register(th)
    <3>1. /\ op[th].at \in Creating /\ op[th].name \in Names
          /\ op'[th].at = "derive" /\ op'[th].name = op[th].name
          /\ UNCHANGED <<user, mode>>
          /\ \A n \in Names : n # op[th].name => creds'[n] = creds[n]
      BY <1>0, <2>0, <2>2, OpFields DEF Create_Register, Creating, CreateOp
    <3>2. Carried(op[th])'
      BY <2>0, <3>1 DEF Carried, Creating, Storing, LiveIds, Live
    <3>3. ASSUME mode' = "ready", NEW i \in LiveIds' PROVE Matching(i)'
      <4>1. i \in LiveIds /\ mode = "ready" /\ Matching(i)
        BY <2>1, <3>1, <3>3 DEF LiveIds, Live, Creating, Storing
      <4>2. CASE user[i].name = op[th].name
        BY <2>0, <3>1, <4>1, <4>2 DEF Carried, Matching
      <4>3. CASE user[i].name # op[th].name
        BY <1>0, <3>1, <4>1, <4>3 DEF Matching
      <4> QED BY <4>2, <4>3
    <3> QED BY <2>0, <3>2, <3>3, MemoryOf
  <2>3. CASE Create_Derive(th) \/ Create_Export(th)
    <3>1. /\ op[th].at \in Creating
          /\ \/ op'[th] = Idle
             \/ op'[th].at = "export" /\ op'[th].name = op[th].name
             \/ /\ op'[th].at = "insert" /\ op'[th].name = op[th].name
                /\ op'[th].env = creds[op[th].name]
          /\ UNCHANGED <<user, creds, mode>>
      BY <1>0, <2>3 DEF Create_Derive, Create_Export, Creating, CreateOp
    <3>2. Carried(op[th])'
      BY <2>0, <3>1 DEF Carried, Creating, Storing, LiveIds, Live, Idle
    <3>3. ASSUME mode' = "ready", NEW i \in LiveIds' PROVE Matching(i)'
      BY <2>1, <3>1, <3>3 DEF Matching, LiveIds, Live, Creating, Storing
    <3> QED BY <2>0, <3>2, <3>3, MemoryOf
  <2>4. ASSUME NEW j \in Ids, Create_Insert(th, j) PROVE MemoryInv'
    <3>0. op[th].at = "insert" /\ UNCHANGED <<creds, mode>>
      BY <2>4 DEF Create_Insert
    <3>1. CASE InUse(op[th].name)
      <4>1. op'[th] = Idle /\ user' = user
        BY <1>0, <2>4, <3>1 DEF Create_Insert
      <4>2. Carried(op[th])'
        BY <4>1 DEF Carried, Creating, Storing, Idle
      <4>3. ASSUME mode' = "ready", NEW i \in LiveIds' PROVE Matching(i)'
        BY <2>1, <3>0, <4>1, <4>3 DEF Matching, LiveIds, Live, Storing
      <4> QED BY <2>0, <4>2, <4>3, MemoryOf
    <3>2. CASE ~InUse(op[th].name)
      <4>1. /\ \A i \in Ids : user'[i] = IF i = j THEN LiveRow(op[th].name, op[th].role, 0)
                                           ELSE user[i]
            /\ op'[th] = StoreOp("store", j, op[th].name, op[th].boot, op[th].env)
        BY <1>0, <2>4, <3>2 DEF Create_Insert
      <4>2. LiveIds' = LiveIds \cup {j}
        BY <4>1 DEF LiveIds, Live, LiveRow
      <4>3. Carried(op[th])'
        <5>1. op'[th].at = "store" /\ op'[th].id = j /\ op'[th].env = creds'[op'[th].name]
          BY <2>0, <3>0, <4>1 DEF Carried, StoreOp
        <5>2. Live(j)' /\ (mode = "bootstrap" => LiveIds' = {j})
          BY <2>0, <3>0, <4>2 DEF Carried, Creating, LiveIds
        <5> QED BY <3>0, <5>1, <5>2 DEF Carried, Creating
      <4>4. ASSUME mode' = "ready", NEW i \in LiveIds' PROVE Matching(i)'
        <5>1. CASE i = j
          BY <4>1, <5>1 DEF Matching, LiveRow
        <5>2. CASE i # j
          BY <2>1, <3>0, <4>1, <4>2, <4>4, <5>2, <1>0 DEF Matching, Storing
        <5> QED BY <5>1, <5>2
      <4> QED BY <2>0, <4>3, <4>4, MemoryOf
    <3> QED BY <3>1, <3>2
  <2>5. CASE Password_Rehash(th) \/ Password_Fetch(th)
    <3>1. /\ op[th].at \in Storing /\ op[th].id \in Ids /\ op[th].name \in Names
          /\ op'[th].at \in {"fetch", "store"}
          /\ op'[th].id = op[th].id /\ op'[th].name = op[th].name
          /\ op'[th].at = "store" => op'[th].env = creds'[op[th].name]
          /\ UNCHANGED <<user, mode>>
          /\ \A n \in Names : n # op[th].name => creds'[n] = creds[n]
      BY <1>0, <2>0, <2>5, OpFields DEF Password_Rehash, Password_Fetch, Storing, StoreOp
    <3>2. Carried(op[th])'
      BY <2>0, <3>1 DEF Carried, Creating, Storing, LiveIds, Live
    <3>3. ASSUME mode' = "ready", NEW i \in LiveIds', i # op[th].id PROVE Matching(i)'
      <4>1. i \in LiveIds /\ mode = "ready" /\ Matching(i)
        BY <2>1, <3>1, <3>3 DEF LiveIds, Live
      <4>2. user[i].name # op[th].name
        BY <1>0, <2>0, <3>1, <3>3, <4>1 DEF StoreTarget, NamesDistinct, Carried, LiveIds
      <4> QED BY <1>0, <3>1, <4>1, <4>2 DEF Matching
    <3>4. op'[th].at \in Storing
      BY <3>1 DEF Storing
    <3> QED BY <2>0, <3>1, <3>2, <3>3, <3>4, MemoryOf
  <2>6. CASE StoreEnvelope(th)
    <3>1. /\ op[th].at = "store" /\ op[th].id \in Ids /\ Live(op[th].id)
          /\ op[th].env = creds[op[th].name] /\ user[op[th].id].name = op[th].name
      BY <1>0, <2>0, <2>6, OpFields DEF StoreEnvelope, Carried, StoreTarget, Storing
    <3>2. /\ op'[th] = Idle /\ creds' = creds
          /\ \A i \in Ids : user'[i] =
                IF i = op[th].id THEN LiveRow(user[i].name, user[i].role, op[th].env)
                                 ELSE user[i]
      BY <1>0, <2>6, <3>1 DEF StoreEnvelope
    <3>3. Carried(op[th])'
      BY <3>2 DEF Carried, Creating, Storing, Idle
    <3>4. ASSUME mode' = "ready", NEW i \in LiveIds' PROVE Matching(i)'
      <4>1. i \in Ids
        BY <3>4 DEF LiveIds
      <4>2. CASE i = op[th].id
        <5>1. user'[i] = LiveRow(op[th].name, user[i].role, creds[op[th].name])
          BY <3>1, <3>2, <4>1, <4>2
        <5> QED BY <3>2, <5>1 DEF Matching, LiveRow
      <4>3. CASE i # op[th].id
        <5>1. i \in LiveIds /\ user'[i] = user[i]
          BY <3>2, <3>4, <4>1, <4>3 DEF LiveIds, Live
        <5>2. mode = "ready"
          BY <1>0, <2>0, <3>1, <4>3, <5>1 DEF TypeOK, Carried, Storing
        <5> QED BY <2>1, <3>2, <4>3, <5>1, <5>2 DEF Matching
      <4> QED BY <4>2, <4>3
    <3> QED BY <2>0, <3>3, <3>4, MemoryOf
  <2>7. CASE DeleteUser_Delete(th) \/ UpdateRole_Update(th)
    <3>1. /\ op[th].at \in {"delete", "role"} /\ op[th].id \in Ids
          /\ op'[th] = Idle /\ UNCHANGED <<creds, mode>>
      BY <1>0, <2>0, <2>7, OpFields DEF DeleteUser_Delete, UpdateRole_Update
    <3>2. ASSUME NEW i \in LiveIds'
          PROVE  i \in LiveIds /\ user'[i].name = user[i].name /\ user'[i].env = user[i].env
      <4>1. i \in Ids /\ user'[i].state = "live"
        BY DEF LiveIds, Live
      <4>2. CASE DeleteUser_Delete(th)
        BY <1>0, <3>1, <4>1, <4>2 DEF DeleteUser_Delete, LiveIds, Live, Gone
      <4>3. CASE UpdateRole_Update(th)
        BY <1>0, <3>1, <4>1, <4>3 DEF UpdateRole_Update, LiveIds, Live, LiveRow
      <4> QED BY <2>7, <4>2, <4>3
    <3>3. Carried(op[th])'
      BY <3>1 DEF Carried, Creating, Storing, Idle
    <3>4. ASSUME mode' = "ready", NEW i \in LiveIds' PROVE Matching(i)'
      BY <2>1, <3>1, <3>2, <3>4 DEF Matching, Storing
    <3> QED BY <2>0, <3>3, <3>4, MemoryOf
  <2> QED BY <1>3, <2>2, <2>3, <2>4, <2>5, <2>6, <2>7 DEF Continue
<1> QED BY <1>1, <1>2, <1>3 DEF AloneNext

\* The credentials map and the users table agree on every stored password
\* whenever nothing runs, across crashes between the two and the reload at the
\* next start, if one operation runs at a time: MemoryMatchesAlone for all
\* constants.  MemoryMatchesTable says nothing of the moments an operation
\* runs; MemoryInv does, and that is what makes it inductive.
THEOREM MemoryAlone == MCSpec => []MemoryMatchesAlone
<1> DEFINE Inv == EnvInv /\ (alone => OneBusy /\ MemoryInv)
<1>1. MCInit => Inv
  <2> SUFFICES ASSUME MCInit PROVE Inv
    OBVIOUS
  <2>1. EnvInv
    BY EnvInit DEF MCInit
  <2>2. MemoryInv
    BY DEF MCInit, Init, MemoryInv, Carried, Idle, Creating, Storing
  <2> QED BY <2>1, <2>2 DEF MCInit, Init, OneBusy
<1>2. Inv /\ [MCNext]_<<vars, alone>> => Inv'
  <2> SUFFICES ASSUME Inv, [MCNext]_<<vars, alone>> PROVE Inv'
    OBVIOUS
  <2>1. EnvInv' /\ alone' = alone
    BY MCStep, EnvStep
  <2>2. alone => OneBusy'
    BY BusyStep DEF EnvInv
  <2>3. alone => MemoryInv'
    <3>1. CASE UNCHANGED <<vars, alone>>
      BY <3>1 DEF vars, MemoryInv, Carried, Matching, LiveIds, Live
    <3>2. CASE MCNext
      BY <3>2, MemoryStep DEF MCNext
    <3> QED BY <3>1, <3>2
  <2> QED BY <2>1, <2>2, <2>3
<1>3. Inv => MemoryMatchesAlone
  BY DEF MemoryMatchesAlone, MemoryMatchesTable, MemoryInv, Matching, AllIdle, Idle, Storing
<1> QED BY <1>1, <1>2, <1>3, PTL DEF MCSpec
=============================================================================
