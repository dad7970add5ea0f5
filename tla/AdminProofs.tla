---------------------------- MODULE AdminProofs -----------------------------
(***************************************************************************)
(* What administrators decide and who gets in, for every number of people, *)
(* shops, terminals, plans and words.  Accounts, with the requests served  *)
(* one at a time: administrators do not lock each other out, and no shop   *)
(* loses its owner.  TerminalKeys: a key finds the terminal it was last    *)
(* issued to.  LoginGuard: how often a password is guessed.  FeeSettings:  *)
(* one active assignment a shop, and no rate is set that does not settle.  *)
(* Keywords: what is approved is what an administrator wrote or was shown, *)
(* unless it was being changed meanwhile; and each has its turn.           *)
(* FeeShares: a shop's breakdown adds up to its settlement, and others are *)
(* shown the same.                                                         *)
(***************************************************************************)
EXTENDS Accounts, TerminalKeys, LoginGuard, FeeSettings, Keywords,
        FeeShares, DataLemmas, SequenceTheorems

-----------------------------------------------------------------------------
(* Administrators and the owners of shops.                                 *)

UserRow == [role : Roles, active : BOOLEAN]
Change == [what : {"nothing", "role", "toggle", "delete", "shop"},
           target : People \cup {Nobody}, role : Roles, active : BOOLEAN]

AccountTypes ==
    /\ user \in [People -> UserRow \cup {Nobody}]
    /\ ownerOf \in [Shops -> People \cup {Nobody}]
    /\ staff \in [People -> SUBSET Shops]
    /\ adminCall \in [AdminCalls -> Change]

OneShopEach == \A s, t \in Shops : ownerOf[s] # Nobody /\ ownerOf[s] = ownerOf[t] => s = t

OwnersExist == \A s \in Shops : ownerOf[s] # Nobody => Exists(ownerOf[s])

StaffExist == \A p \in People : staff[p] # {} => Exists(p)

\* What a handler that is about to commit has checked.
StillChecked(c) ==
    adminCall[c] # NoCall =>
        LET p == adminCall[c].target
            another == \E q \in People \ {p} : Authenticated(q, {"admin"})
        IN  /\ p \in People /\ Exists(p)
            /\ CASE adminCall[c].what = "role" ->
                      user[p].role = "admin" /\ adminCall[c].role # "admin" => another
                 [] adminCall[c].what \in {"toggle", "delete"} -> another
                 [] adminCall[c].what = "shop" -> Owned(p) = {}
                 [] OTHER -> FALSE

AccountsInv ==
    /\ AccountTypes
    /\ OneShopEach /\ OwnersExist /\ StaffExist
    /\ \A c, d \in Pending : c = d
    /\ \A c \in AdminCalls : StillChecked(c)

-----------------------------------------------------------------------------

LEMMA UsersAre ==
    ASSUME AccountTypes, NEW p \in People
    PROVE  /\ Exists(p) <=> user[p] \in UserRow
           /\ \A r \in UserRow : r # Nobody
  BY AccountsAssumption DEF AccountTypes, UserRow, Exists

LEMMA InitAccounts == AccountsInit => AccountsInv
<1> SUFFICES ASSUME AccountsInit PROVE AccountsInv
  OBVIOUS
<1>1. NoCall \in Change
  BY DEF NoCall, Change, Roles
<1>2. AccountTypes
  BY <1>1 DEF AccountsInit, AccountTypes, UserRow, Roles
<1>4. Pending = {} /\ \A c \in AdminCalls : adminCall[c] = NoCall
  BY DEF AccountsInit, Pending
<1>5. (\A s \in Shops : ownerOf[s] = Nobody) /\ \A p \in People : staff[p] = {}
  BY DEF AccountsInit
<1> QED BY <1>2, <1>4, <1>5, AccountsAssumption
        DEF AccountsInv, OneShopEach, OwnersExist, StaffExist, StillChecked

\* While requests are served one at a time none begins before the other ends.
LEMMA ServedAlone ==
    ASSUME MaxAdminCalls = 1, Served PROVE Pending = {}
<1>1. IsFiniteSet(Pending)
  BY AccountsAssumption, FS_Subset, Pending \subseteq AdminCalls DEF Pending
<1>2. Cardinality(Pending) \in Nat /\ Cardinality(Pending) < 1
  BY <1>1, FS_CardinalityType DEF Served
<1> QED BY <1>1, <1>2, FS_EmptySet

-----------------------------------------------------------------------------
(* Accounts come into being: nobody is taken anything away.                *)

\* A new account, perhaps with a place or a shop that was free.
LEMMA NewStep ==
    ASSUME AccountsInv, MaxAdminCalls = 1, NEW p \in People, NEW role \in Roles, NewUser(p, role),
           AccountTypes', UNCHANGED adminCall,
           \A q \in People \ {p} : staff'[q] = staff[q],
           \/ ownerOf' = ownerOf
           \/ \E s \in Shops : ownerOf[s] = Nobody /\ ownerOf' = [ownerOf EXCEPT ![s] = p]
    PROVE  AccountsInv'
<1>1. Pending = {} /\ ~Exists(p) /\ user' = [user EXCEPT ![p] = [role |-> role, active |-> TRUE]]
  BY ServedAlone DEF NewUser
<1>2. \A q \in People \ {p} : user'[q] = user[q]
  BY <1>1 DEF AccountsInv, AccountTypes
<1>3. Exists(p)'
  <2>1. user'[p] = [role |-> role, active |-> TRUE]
    BY <1>1 DEF AccountsInv, AccountTypes
  <2>2. user'[p] \in UserRow
    BY <2>1 DEF UserRow
  <2> QED BY <2>2, AccountsAssumption DEF UserRow, Exists
<1>5. \A s \in Shops : ownerOf[s] # p
  BY <1>1, AccountsAssumption DEF AccountsInv, OwnersExist
<1>6. OwnersExist' /\ OneShopEach'
  <2>1. CASE ownerOf' = ownerOf
    BY <2>1, <1>2, <1>3 DEF AccountsInv, AccountTypes, OwnersExist, OneShopEach, Exists
  <2>2. ASSUME NEW s \in Shops, ownerOf[s] = Nobody, ownerOf' = [ownerOf EXCEPT ![s] = p]
        PROVE  OwnersExist' /\ OneShopEach'
    <3>1. ownerOf'[s] = p /\ \A t \in Shops \ {s} : ownerOf'[t] = ownerOf[t]
      BY <2>2 DEF AccountsInv, AccountTypes
    <3> QED BY <3>1, <1>2, <1>3, <1>5 DEF AccountsInv, AccountTypes, OwnersExist, OneShopEach, Exists
  <2> QED BY <2>1, <2>2
<1>7. Pending' = {} /\ \A c \in AdminCalls : adminCall'[c] = NoCall
  BY <1>1 DEF Pending
<1>8. StaffExist'
  BY <1>2, <1>3 DEF AccountsInv, StaffExist, Exists
<1> QED BY <1>6, <1>7, <1>8 DEF AccountsInv, StillChecked, Pending

LEMMA RegisterStep ==
    ASSUME AccountsInv, MaxAdminCalls = 1, NEW p \in People, NEW s \in Shops \cup {Nobody},
           Register(p, s)
    PROVE  AccountsInv'
<1>1. "owner" \in Roles /\ [role |-> "owner", active |-> TRUE] \in UserRow
  BY DEF Roles, UserRow
<1>2. /\ NewUser(p, "owner") /\ UNCHANGED <<staff, adminCall>>
      /\ \/ ownerOf' = ownerOf
         \/ s \in Shops /\ ownerOf[s] = Nobody /\ ownerOf' = [ownerOf EXCEPT ![s] = p]
  BY DEF Register
<1>3. AccountTypes'
  BY <1>1, <1>2 DEF AccountsInv, AccountTypes, NewUser
<1> QED BY <1>1, <1>2, <1>3, NewStep

LEMMA CreateSalesStep ==
    ASSUME AccountsInv, MaxAdminCalls = 1, NEW a \in People, NEW p \in People, CreateSales(a, p)
    PROVE  AccountsInv'
<1>1. "sales" \in Roles /\ [role |-> "sales", active |-> TRUE] \in UserRow
  BY DEF Roles, UserRow
<1>2. NewUser(p, "sales") /\ UNCHANGED <<ownerOf, staff, adminCall>>
  BY DEF CreateSales
<1>3. AccountTypes'
  BY <1>1, <1>2 DEF AccountsInv, AccountTypes, NewUser
<1> QED BY <1>1, <1>2, <1>3, NewStep

LEMMA CreateDesignerStep ==
    ASSUME AccountsInv, MaxAdminCalls = 1, NEW o \in People, NEW p \in People, NEW s \in Shops,
           CreateDesigner(o, s, p)
    PROVE  AccountsInv'
<1>1. "designer" \in Roles /\ [role |-> "designer", active |-> TRUE] \in UserRow
  BY DEF Roles, UserRow
<1>2. NewUser(p, "designer") /\ staff' = [staff EXCEPT ![p] = {s}] /\ UNCHANGED <<ownerOf, adminCall>>
  BY DEF CreateDesigner
<1>3. AccountTypes' /\ \A q \in People \ {p} : staff'[q] = staff[q]
  BY <1>1, <1>2 DEF AccountsInv, AccountTypes, NewUser
<1> QED BY <1>1, <1>2, <1>3, NewStep

\* A place more changes neither who is who nor who owns what.
LEMMA CreateStaffStep ==
    ASSUME AccountsInv, MaxAdminCalls = 1, NEW o \in People, NEW p \in People, NEW s \in Shops,
           CreateStaff(o, s, p)
    PROVE  AccountsInv'
<1>1. /\ Pending = {} /\ Exists(p) /\ staff' = [staff EXCEPT ![p] = @ \cup {s}]
      /\ UNCHANGED <<user, ownerOf, adminCall>>
  BY ServedAlone DEF CreateStaff, OwnersForm
<1>2. /\ staff' \in [People -> SUBSET Shops]
      /\ \A q \in People \ {p} : staff'[q] = staff[q]
  BY <1>1 DEF AccountsInv, AccountTypes
<1>3. OneShopEach' /\ OwnersExist' /\ StaffExist'
  BY <1>1, <1>2 DEF AccountsInv, OneShopEach, OwnersExist, StaffExist, Exists
<1> QED BY <1>1, <1>2, <1>3 DEF AccountsInv, AccountTypes, StillChecked, Pending

LEMMA SwitchDesignerStep ==
    ASSUME AccountsInv, MaxAdminCalls = 1, NEW o \in People, NEW p \in People, NEW s \in Shops,
           NEW active \in BOOLEAN, SwitchDesigner(o, s, p, active)
    PROVE  AccountsInv'
<1> DEFINE row == [user[p] EXCEPT !.active = active]
<1>1. /\ Served /\ s \in staff[p] /\ user' = [user EXCEPT ![p] = row]
      /\ UNCHANGED <<ownerOf, staff, adminCall>>
  BY DEF SwitchDesigner, OwnersForm
<1>2. Exists(p) /\ user[p] \in UserRow
  BY <1>1, UsersAre DEF AccountsInv, StaffExist
<1>3. row \in UserRow
  BY <1>2 DEF UserRow
<1> HIDE DEF row
<1>4. AccountTypes' /\ user'[p] = row /\ \A q \in People \ {p} : user'[q] = user[q]
  BY <1>1, <1>3 DEF AccountsInv, AccountTypes
<1>5. \A q \in People : Exists(q)' <=> Exists(q)
  BY <1>2, <1>3, <1>4, AccountsAssumption DEF UserRow, Exists
<1>6. OneShopEach' /\ OwnersExist' /\ StaffExist'
  BY <1>1, <1>5 DEF AccountsInv, AccountTypes, OneShopEach, OwnersExist, StaffExist
<1>7. Pending' = {} /\ \A c \in AdminCalls : adminCall'[c] = NoCall
  BY <1>1, ServedAlone DEF Pending
<1> QED BY <1>4, <1>6, <1>7 DEF AccountsInv, StillChecked

-----------------------------------------------------------------------------
(* The administrator's handlers.                                           *)

LEMMA AskStep ==
    ASSUME AccountsInv, MaxAdminCalls = 1, NEW c \in AdminCalls, NEW a \in People, NEW p \in People,
           NEW what \in {"role", "toggle", "delete", "shop"}, NEW role \in Roles,
           Ask(c, a, p, what, role)
    PROVE  AccountsInv'
<1> DEFINE k == [what |-> what, target |-> p, role |-> role,
                 active |-> what = "toggle" /\ user[p].active]
           another == \E q \in People \ {p} : Authenticated(q, {"admin"})
<1>1. /\ Served /\ Authenticated(a, {"admin"}) /\ adminCall' = [adminCall EXCEPT ![c] = k]
      /\ UNCHANGED <<user, ownerOf, staff>>
  BY DEF Ask
<1>2. /\ Exists(p)
      /\ what = "role" => (user[p].role = "admin" /\ role # "admin" => another)
      /\ what \in {"toggle", "delete"} => another
      /\ what = "shop" => Owned(p) = {}
  BY <1>1 DEF Ask, MaySetRole, MayChange, MayOwn
<1>3. user[p] \in UserRow
  BY <1>2, UsersAre DEF AccountsInv
<1>4. k \in Change /\ k.what = what /\ k.target = p /\ k.role = role
  BY <1>3 DEF Change, UserRow
<1> HIDE DEF k
<1>5. AccountTypes' /\ adminCall'[c] = k /\ \A d \in AdminCalls \ {c} : adminCall'[d] = adminCall[d]
  BY <1>1, <1>4 DEF AccountsInv, AccountTypes
<1>6. Pending' \subseteq {c}
  BY <1>1, <1>5, ServedAlone DEF Pending
<1>7. StillChecked(c)'
  BY <1>1, <1>2, <1>4, <1>5 DEF StillChecked, Exists, Authenticated, Owned
<1>8. \A d \in AdminCalls \ {c} : StillChecked(d)'
  BY <1>6 DEF StillChecked, Pending
<1>9. OneShopEach' /\ OwnersExist' /\ StaffExist'
  BY <1>1 DEF AccountsInv, OneShopEach, OwnersExist, StaffExist, Exists
<1> QED BY <1>5, <1>6, <1>7, <1>8, <1>9 DEF AccountsInv

\* A change of p's row that keeps the account keeps what hangs on it.
LEMMA RowKept ==
    ASSUME AccountsInv, NEW p \in People, Exists(p), NEW r \in UserRow, user' = [user EXCEPT ![p] = r],
           UNCHANGED <<ownerOf, staff>>
    PROVE  /\ user' \in [People -> UserRow \cup {Nobody}]
           /\ user'[p] = r /\ \A q \in People \ {p} : user'[q] = user[q]
           /\ OneShopEach' /\ OwnersExist' /\ StaffExist'
<1>1. /\ user' \in [People -> UserRow \cup {Nobody}]
      /\ user'[p] = r /\ \A q \in People \ {p} : user'[q] = user[q]
  BY DEF AccountsInv, AccountTypes
<1>2. \A q \in People : Exists(q) => Exists(q)'
  BY <1>1, AccountsAssumption DEF UserRow, Exists
<1> QED BY <1>1, <1>2 DEF AccountsInv, AccountTypes, OneShopEach, OwnersExist, StaffExist

LEMMA CommitStep ==
    ASSUME AccountsInv, NEW c \in AdminCalls, Commit(c) PROVE AccountsInv'
<1> DEFINE k == adminCall[c]
           p == k.target
           another == \E q \in People \ {p} : Authenticated(q, {"admin"})
<1>1. k # NoCall /\ adminCall' = [adminCall EXCEPT ![c] = NoCall] /\ UNCHANGED staff
  BY DEF Commit
<1>2. /\ p \in People /\ Exists(p) /\ user[p] \in UserRow
      /\ k \in Change
      /\ k.what \in {"role", "toggle", "delete", "shop"}
      /\ k.what = "role" => (user[p].role = "admin" /\ k.role # "admin" => another)
      /\ k.what \in {"toggle", "delete"} => another
      /\ k.what = "shop" => Owned(p) = {}
  <2>1. StillChecked(c) /\ k \in Change
    BY DEF AccountsInv, AccountTypes
  <2>2. p \in People /\ Exists(p)
    BY <1>1, <2>1 DEF StillChecked
  <2>3. user[p] \in UserRow
    BY <2>2, UsersAre DEF AccountsInv
  <2> QED BY <1>1, <2>1, <2>2, <2>3 DEF StillChecked
<1>3. NoCall \in Change
  BY DEF NoCall, Change, Roles
<1>4. /\ adminCall' \in [AdminCalls -> Change] /\ adminCall'[c] = NoCall
      /\ \A d \in AdminCalls \ {c} : adminCall'[d] = adminCall[d]
  BY <1>1, <1>3 DEF AccountsInv, AccountTypes
<1>5. Pending' = {} /\ \A d \in AdminCalls : adminCall'[d] = NoCall /\ StillChecked(d)'
  BY <1>1, <1>4 DEF AccountsInv, Pending, StillChecked
<1>6. SUFFICES /\ user' \in [People -> UserRow \cup {Nobody}]
               /\ ownerOf' \in [Shops -> People \cup {Nobody}]
               /\ OneShopEach' /\ OwnersExist' /\ StaffExist'
  BY <1>1, <1>4, <1>5 DEF AccountsInv, AccountTypes
<1>7. ownerOf \in [Shops -> People \cup {Nobody}] /\ user \in [People -> UserRow \cup {Nobody}]
  BY DEF AccountsInv, AccountTypes
<1>8. CASE k.what = "role"
  <2> DEFINE r == [user[p] EXCEPT !.role = k.role]
  <2>1. user' = [user EXCEPT ![p] = r] /\ UNCHANGED ownerOf
    BY <1>2, <1>8 DEF Commit
  <2>2. r \in UserRow /\ r.role = k.role /\ r.active = user[p].active
    BY <1>2 DEF UserRow, Change
  <2> HIDE DEF r
  <2>3. /\ user' \in [People -> UserRow \cup {Nobody}]
        /\ user'[p] = r /\ \A q \in People \ {p} : user'[q] = user[q]
        /\ OneShopEach' /\ OwnersExist' /\ StaffExist'
    BY <1>1, <1>2, <2>1, <2>2, RowKept
  <2> QED BY <1>7, <2>1, <2>3
<1>9. CASE k.what = "toggle"
  <2> DEFINE r == [user[p] EXCEPT !.active = ~k.active]
  <2>1. user' = [user EXCEPT ![p] = r] /\ UNCHANGED ownerOf
    BY <1>2, <1>9 DEF Commit
  <2>2. r \in UserRow
    BY <1>2 DEF UserRow
  <2> HIDE DEF r
  <2>3. /\ user' \in [People -> UserRow \cup {Nobody}]
        /\ user'[p] = r /\ \A q \in People \ {p} : user'[q] = user[q]
        /\ OneShopEach' /\ OwnersExist' /\ StaffExist'
    BY <1>1, <1>2, <2>1, <2>2, RowKept
  <2> QED BY <1>7, <2>1, <2>3
<1>10. CASE k.what = "delete"
  <2>1. /\ UNCHANGED ownerOf
        /\ \/ user' = user
           \/ ~Referred(p) /\ user' = [user EXCEPT ![p] = Nobody]
    BY <1>2, <1>10 DEF Commit
  <2>2. CASE user' = user
    BY <1>1, <1>7, <2>1, <2>2
       DEF AccountsInv, Exists, OneShopEach, OwnersExist, StaffExist
  <2>3. CASE ~Referred(p) /\ user' = [user EXCEPT ![p] = Nobody]
    <3>1. /\ user' \in [People -> UserRow \cup {Nobody}]
          /\ \A q \in People \ {p} : user'[q] = user[q]
      BY <1>7, <2>3
    <3>2. staff[p] = {} /\ \A s \in Shops : ownerOf[s] # p
      BY <2>3 DEF Referred, Owned
    <3>4. OneShopEach' /\ OwnersExist'
      BY <1>7, <2>1, <3>1, <3>2 DEF AccountsInv, OneShopEach, OwnersExist, Exists
    <3>5. StaffExist'
      BY <1>1, <3>1, <3>2 DEF AccountsInv, StaffExist, Exists
    <3> QED BY <1>7, <2>1, <3>1, <3>4, <3>5
  <2> QED BY <2>1, <2>2, <2>3
<1>11. CASE k.what = "shop"
  <2>1. user' = user
    BY <1>11 DEF Commit
  <2>2. PICK s \in Shops : ownerOf[s] = Nobody /\ ownerOf' = [ownerOf EXCEPT ![s] = p]
    BY <1>2, <1>11 DEF Commit
  <2>3. /\ ownerOf' \in [Shops -> People \cup {Nobody}]
        /\ ownerOf'[s] = p /\ \A t \in Shops \ {s} : ownerOf'[t] = ownerOf[t]
    BY <1>2, <1>7, <2>2
  <2>4. \A t \in Shops : ownerOf[t] # p
    BY <1>2, <1>11 DEF Owned
  <2>5. OneShopEach' /\ OwnersExist'
    BY <1>2, <2>1, <2>3, <2>4 DEF AccountsInv, OneShopEach, OwnersExist, Exists
  <2>6. StaffExist'
    BY <1>1, <2>1 DEF AccountsInv, StaffExist, Exists
  <2> QED BY <1>7, <2>1, <2>3, <2>5, <2>6
<1> QED BY <1>2, <1>8, <1>9, <1>10, <1>11

LEMMA NextAccounts ==
    ASSUME AccountsInv, MaxAdminCalls = 1, [AccountsNext]_accountVars PROVE AccountsInv'
<1>1. CASE UNCHANGED accountVars
  BY <1>1 DEF accountVars, AccountsInv, AccountTypes, Exists, OneShopEach, OwnersExist,
              StaffExist, Pending, StillChecked, Authenticated, Owned
<1>2. CASE AccountsNext
  BY <1>2, RegisterStep, CreateSalesStep, CreateDesignerStep, CreateStaffStep,
     SwitchDesignerStep, AskStep, CommitStep
     DEF AccountsNext
<1> QED BY <1>1, <1>2

-----------------------------------------------------------------------------

\* Whoever administers and is not p still does after a change of p.
LEMMA OthersAdminister ==
    ASSUME NEW p \in People, \A q \in People \ {p} : user'[q] = user[q],
           \E q \in People \ {p} : Authenticated(q, {"admin"})
    PROVE  AnAdminRemains'
  BY DEF Authenticated, AnAdminRemains, Exists

\* Only the owner's switch takes the last administrator away.
LEMMA AdminStays ==
    ASSUME AccountsInv, [AccountsNext]_accountVars, AnAdminRemains
    PROVE  \/ AnAdminRemains'
           \/ \E o, p \in People, s \in Shops : SwitchDesigner(o, s, p, FALSE)
<1>1. PICK q \in People : Authenticated(q, {"admin"})
  BY DEF AnAdminRemains
<1>2. /\ Exists(q) /\ user[q] \in UserRow
      /\ user \in [People -> UserRow \cup {Nobody}]
  BY <1>1, UsersAre DEF Authenticated, AccountsInv, AccountTypes
<1>3. ASSUME user'[q] = user[q] PROVE AnAdminRemains'
  BY <1>1, <1>3 DEF Authenticated, AnAdminRemains, Exists
<1>4. ASSUME NEW p \in People, NEW role \in Roles, NewUser(p, role) PROVE AnAdminRemains'
  BY <1>2, <1>3, <1>4 DEF NewUser
<1>5. ASSUME NEW o \in People, NEW p \in People, NEW s \in Shops, NEW active \in BOOLEAN,
             SwitchDesigner(o, s, p, active)
      PROVE  AnAdminRemains' \/ SwitchDesigner(o, s, p, FALSE)
  <2>1. CASE active = FALSE
    BY <1>5, <2>1
  <2>2. CASE active = TRUE
    <3>1. user' = [user EXCEPT ![p] = [user[p] EXCEPT !.active = TRUE]]
      BY <1>5, <2>2 DEF SwitchDesigner
    <3>2. CASE p = q
      <4>1. user[q].active = TRUE
        BY <1>1, <1>2 DEF Authenticated, UserRow
      <4>2. [user[q] EXCEPT !.active = TRUE] = user[q]
        BY <1>2, <4>1 DEF UserRow
      <4> QED BY <1>2, <1>3, <3>1, <3>2, <4>2
    <3>3. CASE p # q
      BY <1>2, <1>3, <3>1, <3>3
    <3> QED BY <3>2, <3>3
  <2> QED BY <2>1, <2>2
<1>6. ASSUME NEW c \in AdminCalls, Commit(c) PROVE AnAdminRemains'
  <2> DEFINE k == adminCall[c]
             p == k.target
             another == \E x \in People \ {p} : Authenticated(x, {"admin"})
  <2>1. /\ k \in Change /\ p \in People /\ Exists(p) /\ user[p] \in UserRow
        /\ k.what \in {"role", "toggle", "delete", "shop"}
        /\ k.what = "role" => (user[p].role = "admin" /\ k.role # "admin" => another)
        /\ k.what \in {"toggle", "delete"} => another
    <3>1. StillChecked(c) /\ k \in Change /\ k # NoCall
      BY <1>6 DEF AccountsInv, AccountTypes, Commit
    <3>2. p \in People /\ Exists(p)
      BY <3>1 DEF StillChecked
    <3>3. user[p] \in UserRow
      BY <3>2, UsersAre DEF AccountsInv
    <3> QED BY <3>1, <3>2, <3>3 DEF StillChecked
  <2>2. \A x \in People \ {p} : user'[x] = user[x]
    BY <1>2, <1>6, <2>1 DEF Commit
  <2>3. CASE another
    BY <2>1, <2>2, <2>3, OthersAdminister
  <2>4. CASE ~another
    <3>1. p = q
      BY <1>1, <2>4
    <3>2. k.what = "shop" \/ (k.what = "role" /\ k.role = "admin")
      BY <1>1, <2>1, <2>4, <3>1 DEF Authenticated
    <3>3. CASE k.what = "shop"
      BY <1>3, <1>6, <3>3 DEF Commit
    <3>4. CASE k.what = "role" /\ k.role = "admin"
      <4>1. user' = [user EXCEPT ![p] = [user[p] EXCEPT !.role = "admin"]]
        BY <1>6, <2>1, <3>4 DEF Commit
      <4>2. user[q].role = "admin"
        BY <1>1 DEF Authenticated
      <4>3. [user[q] EXCEPT !.role = "admin"] = user[q]
        BY <1>2, <4>2 DEF UserRow
      <4>4. user'[q] = user[q]
        BY <1>2, <3>1, <4>1, <4>3
      <4> QED BY <1>3, <4>4
    <3> QED BY <3>2, <3>3, <3>4
  <2> QED BY <2>3, <2>4
<1>7. CASE UNCHANGED accountVars
  BY <1>3, <1>7 DEF accountVars
<1>8. ASSUME NEW p \in People, NEW s \in Shops, NEW o \in People, CreateStaff(o, s, p) PROVE AnAdminRemains'
  BY <1>3, <1>8 DEF CreateStaff
<1>9. ASSUME NEW c \in AdminCalls, NEW a \in People, NEW p \in People, NEW role \in Roles, NEW what,
             Ask(c, a, p, what, role)
      PROVE  AnAdminRemains'
  BY <1>3, <1>9 DEF Ask
<1>10. "owner" \in Roles /\ "sales" \in Roles /\ "designer" \in Roles
  BY DEF Roles
<1>11. CASE \E p \in People, s \in Shops \cup {Nobody} : Register(p, s)
  BY <1>4, <1>10, <1>11 DEF Register
<1>12. CASE \E a, p \in People : CreateSales(a, p)
  BY <1>4, <1>10, <1>12 DEF CreateSales
<1>13. CASE \E o, p \in People, s \in Shops : CreateDesigner(o, s, p)
  BY <1>4, <1>10, <1>13 DEF CreateDesigner
<1> QED BY <1>5, <1>6, <1>7, <1>8, <1>9, <1>11, <1>12, <1>13 DEF AccountsNext

OwnersInCharge ==
    /\ \A s \in Shops : ownerOf[s] # Nobody => Exists(ownerOf[s])
    /\ \A p \in People : Cardinality(Owned(p)) <= 1

LEMMA InvCharge == AccountsInv => OwnersInCharge
<1> SUFFICES ASSUME AccountsInv PROVE OwnersInCharge
  OBVIOUS
<1>1. \A p \in People : Cardinality(Owned(p)) <= 1
  <2> SUFFICES ASSUME NEW p \in People PROVE Cardinality(Owned(p)) <= 1
    OBVIOUS
  <2>1. CASE Owned(p) = {}
    <3>1. Cardinality({}) = 0
      BY FS_EmptySet
    <3> QED BY <2>1, <3>1
  <2>2. CASE Owned(p) # {}
    <3>1. PICK s : Owned(p) = {s}
      BY <2>2, AccountsAssumption DEF AccountsInv, OneShopEach, Owned
    <3>2. Cardinality({s}) = 1
      BY FS_Singleton
    <3> QED BY <3>1, <3>2
  <2> QED BY <2>1, <2>2
<1> QED BY <1>1 DEF AccountsInv, OwnersExist, OwnersInCharge

\* With the requests served one at a time, update_user_role, toggle_user_active
\* and delete_user never take the last administrator away: the only step that
\* does is update_designer's switch, for an account some owner has on the staff.
\* And no shop loses its owner or shares it.
THEOREM SomebodyStays ==
    ASSUME MaxAdminCalls = 1 PROVE AccountsSpec => SomebodyInCharge
<1>1. AccountsInv /\ [AccountsNext]_accountVars => AccountsInv'
  BY NextAccounts
<1>2. AccountsInv /\ [AccountsNext]_accountVars =>
        [AnAdminRemains => \/ AnAdminRemains'
                           \/ \E o, p \in People, s \in Shops : SwitchDesigner(o, s, p, FALSE)
        ]_accountVars
  BY AdminStays
<1> QED BY <1>1, <1>2, InitAccounts, InvCharge, PTL DEF AccountsSpec, SomebodyInCharge, OwnersInCharge

-----------------------------------------------------------------------------
(* The keys of the terminals.                                              *)

KeyRow == [serial : Serials, key : ApiKeys, print : ApiKeys \cup {NoPrint},
        active : BOOLEAN, sold : BOOLEAN]
Looked == [device : Devices, key : ApiKeys]

\* Every key a terminal has was handed out, and to this terminal only unless
\* it was given to another one too.
KeysAreOwn ==
    /\ \A d \in Registered : device[d].key \in issued
    /\ \A d, e \in Registered :
          device[d].key = device[e].key /\ device[d].key \notin shared => d = e

SerialsAreOwn == \A d, e \in Registered : device[d].serial = device[e].serial => d = e

\* A fingerprint is that of the key.
PrintsFit == \A d \in Registered \ crossed : device[d].print \in {NoPrint, device[d].key}

\* What a look-up has found still has the key it was found by.
LookupsFit ==
    \A l \in Lookups : lookup[l] # NoDevice /\ lookup[l].device \in Registered \ crossed =>
        device[lookup[l].device].key = lookup[l].key

TerminalInv ==
    /\ device \in [Devices -> KeyRow \cup {NoDevice}]
    /\ lookup \in [Lookups -> Looked \cup {NoDevice}]
    /\ KeysAreOwn
    /\ SerialsAreOwn
    /\ PrintsFit
    /\ LookupsFit

-----------------------------------------------------------------------------

LEMMA InitTerminal == TerminalInit => TerminalInv
<1> SUFFICES ASSUME TerminalInit PROVE TerminalInv
  OBVIOUS
<1>1. PICK serial \in [Devices -> Serials] :
          /\ \A d, e \in Devices : serial[d] = serial[e] => d = e
          /\ device = [d \in Devices |->
                IF d \in Old
                THEN [serial |-> serial[d], key |-> FirstKey[d], print |-> NoPrint,
                      active |-> TRUE, sold |-> FALSE]
                ELSE NoDevice]
  BY DEF TerminalInit
<1>2. \A d \in Devices : device[d] \in KeyRow \cup {NoDevice}
  BY <1>1, TerminalAssumption DEF KeyRow
<1>3. /\ device \in [Devices -> KeyRow \cup {NoDevice}]
      /\ \A d \in Registered :
            /\ d \in Old /\ device[d].key = FirstKey[d] /\ device[d].print = NoPrint
            /\ d \in Devices /\ device[d].serial = serial[d]
  BY <1>1, <1>2 DEF Registered
<1>4. /\ issued = {FirstKey[d] : d \in Old} /\ lookup = [l \in Lookups |-> NoDevice]
      /\ shared = {k \in ApiKeys : \E d, e \in Old : d # e /\ FirstKey[d] = k /\ FirstKey[e] = k}
  BY DEF TerminalInit
<1>5. KeysAreOwn /\ PrintsFit /\ LookupsFit
  BY <1>3, <1>4, TerminalAssumption DEF KeysAreOwn, PrintsFit, LookupsFit
<1>6. SerialsAreOwn
  BY <1>1, <1>3 DEF SerialsAreOwn
<1>7. lookup \in [Lookups -> Looked \cup {NoDevice}]
  BY <1>4
<1> QED BY <1>3, <1>5, <1>6, <1>7 DEF TerminalInv

\* One row changes: the others stay registered as they were.
LEMMA RowStep ==
    ASSUME TerminalInv, NEW d \in Devices, NEW r \in KeyRow, device' = [device EXCEPT ![d] = r]
    PROVE  /\ device' \in [Devices -> KeyRow \cup {NoDevice}]
           /\ device'[d] = r /\ \A e \in Devices \ {d} : device'[e] = device[e]
           /\ Registered' = Registered \cup {d}
<1>1. device' \in [Devices -> KeyRow \cup {NoDevice}]
      /\ device'[d] = r /\ \A e \in Devices \ {d} : device'[e] = device[e]
  BY DEF TerminalInv
<1>2. r # NoDevice
  BY TerminalAssumption DEF KeyRow
<1> QED BY <1>1, <1>2 DEF Registered

\* No other terminal has the serial.
Alone(d, serial) == \A e \in Registered \ {d} : device[e].serial # serial

\* A row keeps its key, and a print that fits it, and stays.
LEMMA SameKeyStep ==
    ASSUME TerminalInv, NEW d \in Registered, NEW r \in KeyRow, device' = [device EXCEPT ![d] = r],
           r.key = device[d].key, d \notin crossed => r.print \in {NoPrint, r.key},
           Alone(d, r.serial), UNCHANGED <<issued, shared, crossed>>
    PROVE  /\ device' \in [Devices -> KeyRow \cup {NoDevice}]
           /\ KeysAreOwn' /\ SerialsAreOwn' /\ PrintsFit'
           /\ Registered' = Registered
           /\ \A e \in Registered : device'[e].key = device[e].key
<1>1. d \in Devices
  BY DEF Registered
<1>2. /\ device' \in [Devices -> KeyRow \cup {NoDevice}]
      /\ device'[d] = r /\ \A e \in Devices \ {d} : device'[e] = device[e]
      /\ Registered' = Registered /\ Registered \subseteq Devices
  BY <1>1, RowStep DEF Registered
<1>3. \A e \in Registered : device'[e].key = device[e].key
  BY <1>2
<1>4. KeysAreOwn'
  BY <1>2, <1>3 DEF TerminalInv, KeysAreOwn
<1>5. SerialsAreOwn'
  BY <1>2 DEF TerminalInv, SerialsAreOwn, Alone
<1>6. PrintsFit'
  BY <1>2 DEF TerminalInv, PrintsFit
<1> QED BY <1>2, <1>3, <1>4, <1>5, <1>6

\* A row gets a new key with its print: one that no other terminal has, or
\* that counts as shared from now on.
LEMMA NewKeyStep ==
    ASSUME TerminalInv, NEW d \in Devices, NEW r \in KeyRow, device' = [device EXCEPT ![d] = r],
           r.key \notin shared' => \A e \in Registered \ {d} : device[e].key # r.key,
           r.print = r.key, Alone(d, r.serial), issued' = issued \cup {r.key},
           shared \subseteq shared', crossed \subseteq crossed' \cup {d}, UNCHANGED lookup,
           d \notin crossed' => ~LookedUp(d)
    PROVE  TerminalInv'
<1>1. /\ device' \in [Devices -> KeyRow \cup {NoDevice}]
      /\ device'[d] = r /\ \A e \in Devices \ {d} : device'[e] = device[e]
      /\ Registered' = Registered \cup {d} /\ Registered \subseteq Devices
  BY RowStep DEF Registered
<1>2. KeysAreOwn'
  BY <1>1 DEF TerminalInv, KeysAreOwn
<1>3. SerialsAreOwn'
  BY <1>1 DEF TerminalInv, SerialsAreOwn, Alone
<1>4. PrintsFit'
  BY <1>1 DEF TerminalInv, PrintsFit
<1>5. LookupsFit'
  BY <1>1 DEF TerminalInv, LookupsFit, LookedUp
<1> QED BY <1>1, <1>2, <1>3, <1>4, <1>5 DEF TerminalInv

-----------------------------------------------------------------------------

LEMMA FindStep ==
    ASSUME TerminalInv, NEW l \in Lookups, NEW k \in ApiKeys, NEW s \in Serials,
           NEW by \in BOOLEAN, Find(l, k, by, s)
    PROVE  TerminalInv'
<1>1. PICK d \in Live : device[d].key = k /\ lookup' = [lookup EXCEPT ![l] = [device |-> d, key |-> k]]
  BY DEF Find, FoundBySerial, FoundByKey
<1> DEFINE found == [device |-> d, key |-> k]
<1>2. d \in Registered /\ d \in Devices /\ UNCHANGED <<device, issued, shared, crossed>>
  BY <1>1 DEF Live, Registered, Find
<1>3. found \in Looked /\ found.device = d /\ found.key = k
  BY <1>2 DEF Looked
<1> HIDE DEF found
<1>4. lookup' \in [Lookups -> Looked \cup {NoDevice}]
      /\ lookup'[l] = found /\ \A m \in Lookups \ {l} : lookup'[m] = lookup[m]
  BY <1>1, <1>3 DEF TerminalInv, found
<1>5. LookupsFit'
  BY <1>1, <1>2, <1>3, <1>4 DEF TerminalInv, LookupsFit, Registered
<1> QED BY <1>2, <1>4, <1>5 DEF TerminalInv, KeysAreOwn, SerialsAreOwn, PrintsFit, Registered

LEMMA BackfillStep ==
    ASSUME TerminalInv, NEW l \in Lookups, NEW fails \in BOOLEAN, Backfill(l, fails)
    PROVE  TerminalInv'
<1> DEFINE d == lookup[l].device
<1>1. lookup[l] # NoDevice /\ lookup[l] \in Looked /\ UNCHANGED <<issued, shared, crossed>>
      /\ lookup' = [lookup EXCEPT ![l] = NoDevice]
  BY DEF Backfill, TerminalInv
<1>2. d \in Devices /\ lookup[l].key \in ApiKeys
  BY <1>1 DEF Looked
<1>3. lookup' \in [Lookups -> Looked \cup {NoDevice}]
      /\ lookup'[l] = NoDevice /\ \A m \in Lookups \ {l} : lookup'[m] = lookup[m]
  BY <1>1 DEF TerminalInv
<1>4. CASE device' = device
  <2>1. LookupsFit'
    BY <1>1, <1>3, <1>4 DEF TerminalInv, LookupsFit, Registered
  <2> QED BY <1>1, <1>3, <1>4, <2>1 DEF TerminalInv, KeysAreOwn, SerialsAreOwn, PrintsFit, Registered
<1>5. CASE device' # device
  <2> DEFINE r == [device[d] EXCEPT !.print = lookup[l].key]
  <2>1. d \in Registered /\ device' = [device EXCEPT ![d] = r]
    BY <1>5 DEF Backfill
  <2>2. device[d] \in KeyRow
    BY <1>2, <2>1 DEF TerminalInv, Registered
  <2>3. r \in KeyRow /\ r.key = device[d].key /\ r.print = lookup[l].key /\ r.serial = device[d].serial
    BY <1>2, <2>2 DEF KeyRow
  <2> HIDE DEF r, d
  <2>4. /\ d \notin crossed => r.print \in {NoPrint, r.key}
        /\ Alone(d, r.serial)
    BY <1>1, <2>1, <2>3 DEF TerminalInv, LookupsFit, SerialsAreOwn, Alone, d
  <2>5. /\ device' \in [Devices -> KeyRow \cup {NoDevice}]
        /\ KeysAreOwn' /\ SerialsAreOwn' /\ PrintsFit'
        /\ Registered' = Registered
        /\ \A e \in Registered : device'[e].key = device[e].key
    BY <1>1, <2>1, <2>3, <2>4, SameKeyStep
  <2>6. LookupsFit'
    BY <1>1, <1>3, <2>5 DEF TerminalInv, LookupsFit
  <2> QED BY <1>1, <1>3, <2>5, <2>6 DEF TerminalInv
<1> QED BY <1>4, <1>5

LEMMA CreateTerminalStep ==
    ASSUME TerminalInv, NEW d \in Devices, NEW s \in Serials, NEW k \in ApiKeys,
           NEW active \in BOOLEAN, NEW brought \in BOOLEAN,
           CreateTerminal(d, s, k, active, brought)
    PROVE  TerminalInv'
<1> DEFINE r == [serial |-> s, key |-> k, print |-> k, active |-> active, sold |-> FALSE]
<1>1. /\ ~LookedUp(d) /\ Alone(d, s) /\ device' = [device EXCEPT ![d] = r]
      /\ issued' = issued \cup {k} /\ crossed' = crossed \ {d} /\ UNCHANGED lookup
      /\ shared' = shared \cup {j \in {k} : \E e \in Registered : device[e].key = j}
  BY DEF CreateTerminal, SerialFree, Alone
<1>2. r \in KeyRow /\ r.key = k /\ r.print = k /\ r.serial = s
  BY DEF KeyRow
<1>3. k \notin shared' => \A e \in Registered \ {d} : device[e].key # k
  BY <1>1
<1> HIDE DEF r
<1> QED BY <1>1, <1>2, <1>3, NewKeyStep

LEMMA RotateKeyStep ==
    ASSUME TerminalInv, NEW d \in Devices, NEW k \in ApiKeys, RotateKey(d, k)
    PROVE  TerminalInv'
<1> DEFINE r == WithKey(device[d], k)
<1>1. d \in Registered /\ k \notin issued /\ device' = [device EXCEPT ![d] = r]
      /\ issued' = issued \cup {k} /\ UNCHANGED <<lookup, shared>>
      /\ crossed' = IF LookedUp(d) THEN crossed \cup {d} ELSE crossed \ {d}
  BY DEF RotateKey
<1>2. device[d] \in KeyRow
  BY <1>1 DEF TerminalInv, Registered
<1>3. r \in KeyRow /\ r.key = k /\ r.print = k /\ r.serial = device[d].serial
  BY <1>2 DEF KeyRow, WithKey
<1> HIDE DEF r
<1>4. \A e \in Registered \ {d} : device[e].key # k
  BY <1>1 DEF TerminalInv, KeysAreOwn
<1>5. Alone(d, r.serial)
  BY <1>1, <1>3 DEF TerminalInv, SerialsAreOwn, Alone
<1> QED BY <1>1, <1>3, <1>4, <1>5, NewKeyStep

\* update_terminal, a sale, and the end of a terminal that has sales: one of
\* the fields that are neither key nor fingerprint.
LEMMA OtherFieldsStep ==
    ASSUME TerminalInv, NEW d \in Registered, NEW r \in KeyRow, device' = [device EXCEPT ![d] = r],
           r.key = device[d].key, r.print = device[d].print, Alone(d, r.serial),
           UNCHANGED <<issued, lookup, shared, crossed>>
    PROVE  TerminalInv'
<1>1. d \notin crossed => r.print \in {NoPrint, r.key}
  BY DEF TerminalInv, PrintsFit
<1>2. /\ device' \in [Devices -> KeyRow \cup {NoDevice}]
      /\ KeysAreOwn' /\ SerialsAreOwn' /\ PrintsFit'
      /\ Registered' = Registered
      /\ \A e \in Registered : device'[e].key = device[e].key
  BY <1>1, SameKeyStep
<1>3. LookupsFit'
  BY <1>2 DEF TerminalInv, LookupsFit
<1> QED BY <1>2, <1>3 DEF TerminalInv

LEMMA UpdateTerminalStep ==
    ASSUME TerminalInv, NEW d \in Devices, NEW s \in Serials, NEW active \in BOOLEAN,
           UpdateTerminal(d, s, active)
    PROVE  TerminalInv'
<1> DEFINE r == [device[d] EXCEPT !.serial = s, !.active = active]
<1>1. /\ d \in Registered /\ device' = [device EXCEPT ![d] = r]
      /\ UNCHANGED <<issued, lookup, shared, crossed>> /\ Alone(d, s)
  BY DEF UpdateTerminal, SerialFree, Alone
<1>2. device[d] \in KeyRow
  BY <1>1 DEF TerminalInv, Registered
<1>3. r \in KeyRow /\ r.key = device[d].key /\ r.print = device[d].print /\ r.serial = s
  BY <1>2 DEF KeyRow
<1> HIDE DEF r
<1> QED BY <1>1, <1>3, OtherFieldsStep

LEMMA SaleStep ==
    ASSUME TerminalInv, NEW d \in Devices, Sale(d) PROVE TerminalInv'
<1> DEFINE r == [device[d] EXCEPT !.sold = TRUE]
<1>1. /\ d \in Registered /\ device' = [device EXCEPT ![d] = r]
      /\ UNCHANGED <<issued, lookup, shared, crossed>>
  BY DEF Sale, Live
<1>2. device[d] \in KeyRow
  BY <1>1 DEF TerminalInv, Registered
<1>3. r \in KeyRow /\ r.key = device[d].key /\ r.print = device[d].print /\ r.serial = device[d].serial
  BY <1>2 DEF KeyRow
<1> HIDE DEF r
<1>4. Alone(d, r.serial)
  BY <1>1, <1>3 DEF TerminalInv, SerialsAreOwn, Alone
<1> QED BY <1>1, <1>3, <1>4, OtherFieldsStep

LEMMA DeleteTerminalStep ==
    ASSUME TerminalInv, NEW d \in Devices, DeleteTerminal(d) PROVE TerminalInv'
<1>1. d \in Registered /\ UNCHANGED <<issued, lookup, shared, crossed>>
      /\ device' = [device EXCEPT ![d] = IF device[d].sold THEN [device[d] EXCEPT !.active = FALSE]
                                         ELSE NoDevice]
  BY DEF DeleteTerminal
<1>2. device[d] \in KeyRow
  BY <1>1 DEF TerminalInv, Registered
<1> DEFINE off == [device[d] EXCEPT !.active = FALSE]
<1>3. off \in KeyRow /\ off.key = device[d].key /\ off.print = device[d].print
      /\ off.serial = device[d].serial
  BY <1>2 DEF KeyRow
<1>4. CASE device[d].sold
  <2>1. device' = [device EXCEPT ![d] = off]
    BY <1>1, <1>4
  <2> HIDE DEF off
  <2>2. Alone(d, off.serial)
    BY <1>1, <1>3 DEF TerminalInv, SerialsAreOwn, Alone
  <2> QED BY <1>1, <1>3, <2>1, <2>2, OtherFieldsStep
<1>5. CASE ~device[d].sold
  <2>1. device' = [device EXCEPT ![d] = NoDevice]
    BY <1>1, <1>5
  <2>2. /\ device' \in [Devices -> KeyRow \cup {NoDevice}]
        /\ Registered' \subseteq Registered
        /\ \A e \in Registered' : device'[e] = device[e]
    BY <2>1 DEF TerminalInv, Registered
  <2>3. KeysAreOwn' /\ SerialsAreOwn' /\ PrintsFit'
    BY <1>1, <2>2 DEF TerminalInv, KeysAreOwn, SerialsAreOwn, PrintsFit
  <2>4. LookupsFit'
    BY <1>1, <2>2 DEF TerminalInv, LookupsFit
  <2> QED BY <1>1, <2>2, <2>3, <2>4 DEF TerminalInv
<1> QED BY <1>4, <1>5

LEMMA NextTerminal ==
    ASSUME TerminalInv, [TerminalNext]_terminalVars PROVE TerminalInv'
<1>1. CASE UNCHANGED terminalVars
  BY <1>1 DEF terminalVars, TerminalInv, KeysAreOwn, SerialsAreOwn, PrintsFit, LookupsFit, Registered
<1>2. CASE TerminalNext
  BY <1>2, FindStep, BackfillStep, CreateTerminalStep, UpdateTerminalStep, RotateKeyStep,
     DeleteTerminalStep, SaleStep DEF TerminalNext
<1> QED BY <1>1, <1>2

-----------------------------------------------------------------------------

\* Where no fingerprint in question was spoiled, those with the key's
\* fingerprint and the old ones with the key are all that have it.
LEMMA FoundHaveIt ==
    ASSUME TerminalInv, NEW k \in ApiKeys,
           \A d \in Spoiled : k \notin {device[d].key, device[d].print}
    PROVE  /\ \A d \in LiveWith(k) : device[d].print \in {NoPrint, k}
           /\ FoundByKey(k) \subseteq LiveWith(k)
           /\ LiveWith(k) # {} => FoundByKey(k) # {}
<1>1. k # NoPrint /\ \A d \in Live : d \in Registered
  BY TerminalAssumption DEF Live
<1>2. \A d \in Live : d \in Spoiled \/ device[d].print \in {NoPrint, device[d].key}
  BY <1>1 DEF TerminalInv, PrintsFit, Spoiled
<1>3. \A d \in LiveWith(k) : device[d].print \in {NoPrint, k}
  BY <1>2 DEF LiveWith
<1>4. \A d \in Live : device[d].print = k => device[d].key = k
  BY <1>1, <1>2
<1>5. FoundByKey(k) \subseteq LiveWith(k)
  BY DEF FoundByKey, LiveWith
<1>6. ASSUME NEW d \in LiveWith(k) PROVE FoundByKey(k) # {}
  <2>1. CASE \E e \in Live : device[e].print = k
    BY <2>1, <1>4 DEF FoundByKey
  <2>2. CASE ~\E e \in Live : device[e].print = k
    <3>1. d \in Live /\ device[d].key = k /\ device[d].print = NoPrint
      BY <2>2, <1>3 DEF LiveWith
    <3>2. d \in FoundByKey(k)
      BY <2>2, <3>1 DEF FoundByKey
    <3> QED BY <3>2
  <2> QED BY <2>1, <2>2
<1> QED BY <1>3, <1>5, <1>6

\* With keys of their own and fingerprints that fit, the look-ups agree.
LEMMA InvFindsTerminal == TerminalInv => KeyFindsItsTerminal
<1> SUFFICES ASSUME TerminalInv PROVE KeyFindsItsTerminal
  OBVIOUS
<1>1. ASSUME NEW k \in ApiKeys, \A d \in Spoiled : k \notin {device[d].key, device[d].print}
      PROVE  /\ FoundByKey(k) = {} <=> LiveWith(k) = {}
             /\ k \notin shared =>
                   FoundByKey(k) = LiveWith(k) /\ Cardinality(LiveWith(k)) <= 1
  <2>1. FoundByKey(k) \subseteq LiveWith(k) /\ (LiveWith(k) # {} => FoundByKey(k) # {})
    BY <1>1, FoundHaveIt
  <2>2. CASE k \notin shared
    <3>1. \A d, e \in LiveWith(k) : d = e
      BY <2>2 DEF LiveWith, Live, TerminalInv, KeysAreOwn
    <3>2. FoundByKey(k) = LiveWith(k)
      BY <2>1, <3>1
    <3>3. CASE LiveWith(k) = {}
      BY <3>2, <3>3, FS_EmptySet
    <3>4. CASE LiveWith(k) # {}
      <4>1. PICK d : LiveWith(k) = {d}
        BY <3>1, <3>4
      <4> QED BY <2>1, <3>2, <3>4, <4>1, FS_Singleton
    <3> QED BY <3>3, <3>4
  <2> QED BY <2>1, <2>2
<1>2. \A d \in Live : FoundBySerial(device[d].key, device[d].serial) = {d}
  BY DEF FoundBySerial, TerminalInv, SerialsAreOwn, Live
<1> QED BY <1>1, <1>2 DEF KeyFindsItsTerminal

\* With its serial or without, find_terminal finds for a key that no second
\* terminal was given the active terminal it was last given to and no other, and
\* for a shared key one of those that have it; without the serial, unless
\* _backfill_fingerprint wrote over the fingerprint of a key that had just been
\* replaced.
THEOREM KeysFindTerminals == TerminalSpec => []KeyFindsItsTerminal
<1> QED BY InitTerminal, NextTerminal, InvFindsTerminal, PTL DEF TerminalSpec

-----------------------------------------------------------------------------
(* The limit on failed logins.                                             *)

Attempt == [email : Emails, address : Addresses]
Ticks == 0..LastTick

\* The handlers that verify a password for e.
Verifying(e) == {c \in Logins : login[c] # Unset /\ login[c].email = e}
Account(e) == <<e, Everywhere>>

GuardTypes ==
    /\ tick \in Ticks
    /\ failures \in [GuardKeys -> [count : Nat, last : Ticks]]
    /\ login \in [Logins -> {Unset} \cup Attempt]
    /\ guesses \in [Emails -> [Ticks -> Nat]]

\* A guess that still counts is in the account's record.
Recorded(e) ==
    /\ SumFunctionOnSet(guesses[e], Ticks) <= failures[Account(e)].count
    /\ \A t \in Ticks : guesses[e][t] # 0 => t <= failures[Account(e)].last /\ t <= tick /\ t > tick - Lockout

\* Who is let in finds fewer than MaxAttempts failures; from then on a guess
\* that is verified becomes a failure that is recorded.
FewEnough(e) ==
    failures[Account(e)].count + Cardinality(Verifying(e)) <= MaxAttempts - 1 + Cardinality(Logins)

GuardInv == GuardTypes /\ \A e \in Emails : Recorded(e) /\ FewEnough(e)

LEMMA VerifyingFinite ==
    ASSUME NEW e \in Emails
    PROVE  /\ IsFiniteSet(Verifying(e)) /\ Cardinality(Verifying(e)) \in Nat
           /\ Cardinality(Verifying(e)) <= Cardinality(Logins) /\ Cardinality(Logins) \in Nat
<1>1. IsFiniteSet(Logins) /\ Verifying(e) \subseteq Logins
  BY GuardAssumption DEF Verifying
<1> QED BY <1>1, FS_Subset, FS_CardinalityType

LEMMA TicksFinite == IsFiniteSet(Ticks) /\ Ticks \subseteq Nat
<1>1. 0 \in Int /\ LastTick \in Int
  BY GuardAssumption
<1> QED BY <1>1, FS_Interval DEF Ticks

\* What counts of an account's guesses are numbers, and so is their sum.
LEMMA GuessSum ==
    ASSUME GuardTypes, NEW e \in Emails
    PROVE  /\ \A t \in Ticks : guesses[e][t] \in Nat /\ guesses[e][t] \in Int
           /\ SumFunctionOnSet(guesses[e], Ticks) \in Int
<1>1. \A t \in Ticks : guesses[e][t] \in Nat /\ guesses[e][t] \in Int
  <2>1. guesses[e] \in [Ticks -> Nat]
    BY DEF GuardTypes
  <2> QED BY <2>1
<1> QED BY <1>1, TicksFinite, SumType

LEMMA NoGuesses == SumFunctionOnSet(NoGuess, Ticks) = 0 /\ NoGuess \in [Ticks -> Nat]
<1>1. NoGuess \in [Ticks -> Nat] /\ \A t \in Ticks : NoGuess[t] = 0
  BY DEF NoGuess, Ticks
<1> QED BY <1>1, TicksFinite, SumOfZeros

LEMMA GuardInitInv == GuardInit => GuardInv
<1> SUFFICES ASSUME GuardInit PROVE GuardInv
  OBVIOUS
<1>1. GuardTypes
  BY GuardAssumption, NoGuesses DEF GuardInit, GuardTypes, NoFailure, Ticks
<1>2. ASSUME NEW e \in Emails PROVE Recorded(e) /\ FewEnough(e)
  <2>1. Account(e) \in GuardKeys
    BY DEF Account, GuardKeys
  <2>2. failures[Account(e)] = NoFailure /\ guesses[e] = NoGuess
    BY <2>1 DEF GuardInit
  <2>3. Recorded(e)
    BY <2>2, NoGuesses DEF Recorded, NoFailure, NoGuess, Ticks
  <2>4. Verifying(e) = {}
    BY DEF Verifying, GuardInit
  <2> QED BY <2>2, <2>3, <2>4, FS_EmptySet, GuardAssumption, FS_CardinalityType
       DEF FewEnough, NoFailure
<1> QED BY <1>1, <1>2 DEF GuardInv

\* A record that is forgotten: its lock has run out, and with it the time in
\* which its guesses count.
LEMMA ForgottenInTime ==
    ASSUME GuardInv, NEW e \in Emails, RunOut(Account(e))
    PROVE  SumFunctionOnSet(guesses[e], Ticks) = 0 /\ \A t \in Ticks : guesses[e][t] = 0
<1>1. \A t \in Ticks : guesses[e][t] = 0
  <2>1. Account(e) \in GuardKeys
    BY DEF Account, GuardKeys
  <2>2. failures[Account(e)].last \in Nat /\ tick \in Nat /\ Lockout \in Nat
    BY <2>1, TicksFinite, GuardAssumption DEF GuardInv, GuardTypes
  <2>3. Recorded(e)
    BY DEF GuardInv
  <2> QED BY <2>2, <2>3, TicksFinite DEF Recorded, RunOut
<1> QED BY <1>1, TicksFinite, SumOfZeros

LEMMA CheckInv ==
    ASSUME GuardInv, NEW c \in Logins, NEW e \in Emails, NEW a \in Addresses, Check(c, e, a)
    PROVE  GuardInv'
<1> DEFINE at == [email |-> e, address |-> a]
<1>1. at \in Attempt /\ at # Unset /\ at.email = e /\ NoFailure \in [count : Nat, last : Ticks]
  BY GuardAssumption DEF Attempt, NoFailure, Ticks
<1>2. login' = [login EXCEPT ![c] = at] /\ login[c] = Unset /\ UNCHANGED <<tick, guesses>>
  BY DEF Check
<1> HIDE DEF at
<1>3. GuardTypes'
  BY <1>1, <1>2 DEF GuardInv, GuardTypes, Check
<1>4. ASSUME NEW d \in Emails PROVE Recorded(d)' /\ FewEnough(d)'
  <2>1. /\ Account(d) \in GuardKeys /\ Recorded(d) /\ FewEnough(d)
        /\ failures[Account(d)] \in [count : Nat, last : Ticks]
    BY DEF Account, GuardKeys, GuardInv, GuardTypes
  <2>2. Account(d) \in KeysOf(e, a) => d = e
    BY DEF Account, KeysOf
  <2>3. CASE RunOut(Account(d)) /\ Account(d) \in KeysOf(e, a)
    <3>1. failures'[Account(d)] = NoFailure
      BY <2>1, <2>3 DEF Check
    <3>2. Recorded(d)'
      BY <1>2, <2>3, <3>1, ForgottenInTime DEF Recorded, NoFailure
    <3>3. Cardinality(Verifying(d)') \in Nat /\ Cardinality(Verifying(d)') <= Cardinality(Logins)
          /\ Cardinality(Logins) \in Nat
      <4>1. IsFiniteSet(Logins) /\ Verifying(d)' \subseteq Logins
        BY GuardAssumption DEF Verifying
      <4> QED BY <4>1, FS_Subset, FS_CardinalityType
    <3> QED BY <3>1, <3>2, <3>3, GuardAssumption DEF FewEnough, NoFailure
  <2>4. CASE ~(RunOut(Account(d)) /\ Account(d) \in KeysOf(e, a))
    <3>1. failures'[Account(d)] = failures[Account(d)]
      BY <2>1, <2>4 DEF Check
    <3>2. Recorded(d)'
      BY <1>2, <2>1, <3>1 DEF Recorded, Account
    <3>3. CASE d = e
      <4>1. Verifying(d)' = Verifying(d) \cup {c} /\ c \notin Verifying(d)
        BY <1>1, <1>2, <3>3 DEF Verifying, GuardInv, GuardTypes
      <4>2. Cardinality(Verifying(d)') = Cardinality(Verifying(d)) + 1
        BY <4>1, VerifyingFinite, FS_AddElement
      <4>3. Verifying(d) \cup {c} \subseteq Logins /\ IsFiniteSet(Logins)
        BY GuardAssumption DEF Verifying
      <4>4. Cardinality(Verifying(d)') <= Cardinality(Logins)
        BY <4>1, <4>3, FS_Subset
      <4>5. failures[Account(d)].count < MaxAttempts
        <5>1. ~Locked(Account(d)) /\ ~RunOut(Account(d))
          BY <2>4, <3>3 DEF Check, KeysOf, Account
        <5>2. tick \in Int /\ Lockout \in Int /\ MaxAttempts \in Int
              /\ failures[Account(d)].last \in Int /\ failures[Account(d)].count \in Int
          BY <2>1, TicksFinite, GuardAssumption DEF GuardInv, GuardTypes
        <5> QED BY <5>1, <5>2 DEF Locked, RunOut
      <4>6. Cardinality(Logins) \in Nat /\ Cardinality(Verifying(d)') \in Nat
            /\ failures[Account(d)].count \in Nat /\ MaxAttempts \in Nat
        BY <2>1, <4>2, VerifyingFinite, GuardAssumption
      <4> QED BY <3>1, <3>2, <4>4, <4>5, <4>6 DEF FewEnough, Account
    <3>4. CASE d # e
      <4>1. Verifying(d)' = Verifying(d)
        BY <1>1, <1>2, <3>4 DEF Verifying, GuardInv, GuardTypes
      <4> QED BY <2>1, <3>1, <3>2, <4>1 DEF FewEnough, Account
    <3> QED BY <3>3, <3>4
  <2> QED BY <2>3, <2>4
<1> QED BY <1>3, <1>4 DEF GuardInv

LEMMA RefuseInv ==
    ASSUME GuardInv, NEW e \in Emails, NEW a \in Addresses, Refuse(e, a)
    PROVE  GuardInv'
<1>1. UNCHANGED <<tick, login, guesses>> /\ NoFailure \in [count : Nat, last : Ticks]
  BY GuardAssumption DEF Refuse, NoFailure, Ticks
<1>2. GuardTypes'
  BY <1>1 DEF GuardInv, GuardTypes, Refuse
<1>3. ASSUME NEW d \in Emails PROVE Recorded(d)' /\ FewEnough(d)'
  <2>1. /\ Account(d) \in GuardKeys /\ Recorded(d) /\ FewEnough(d)
        /\ failures[Account(d)] \in [count : Nat, last : Ticks]
        /\ failures \in [GuardKeys -> [count : Nat, last : Ticks]]
    BY DEF Account, GuardKeys, GuardInv, GuardTypes
  <2>2. Verifying(d)' = Verifying(d)
    BY <1>1 DEF Verifying
  <2>3. \/ failures'[Account(d)] = failures[Account(d)]
        \/ RunOut(Account(d)) /\ failures'[Account(d)] = NoFailure
    BY <2>1 DEF Refuse, Account
  <2>4. CASE failures'[Account(d)] = failures[Account(d)]
    BY <1>1, <2>1, <2>2, <2>4 DEF Recorded, FewEnough, Account
  <2>5. CASE RunOut(Account(d)) /\ failures'[Account(d)] = NoFailure
    <3>1. Recorded(d)'
      BY <1>1, <2>5, ForgottenInTime DEF Recorded, NoFailure
    <3> QED BY <2>2, <2>5, <3>1, VerifyingFinite, GuardAssumption DEF FewEnough, NoFailure
  <2> QED BY <2>3, <2>4, <2>5
<1> QED BY <1>2, <1>3 DEF GuardInv

\* A handler that answers verifies no longer.
LEMMA OneFewer ==
    ASSUME GuardInv, NEW c \in Logins, login[c] # Unset, login' = [login EXCEPT ![c] = Unset]
    PROVE  /\ login[c] \in Attempt /\ login[c].email \in Emails
           /\ \A e \in Emails :
                 Cardinality(Verifying(e)') = Cardinality(Verifying(e))
                                              - (IF e = login[c].email THEN 1 ELSE 0)
<1>1. login[c] \in Attempt /\ login[c].email \in Emails
  BY DEF GuardInv, GuardTypes, Attempt
<1>2. ASSUME NEW e \in Emails
      PROVE  Cardinality(Verifying(e)') = Cardinality(Verifying(e))
                                          - (IF e = login[c].email THEN 1 ELSE 0)
  <2>1. CASE e = login[c].email
    <3>1. Verifying(e)' = Verifying(e) \ {c} /\ c \in Verifying(e)
      BY <2>1 DEF Verifying, GuardInv, GuardTypes
    <3> QED BY <2>1, <3>1, VerifyingFinite, FS_RemoveElement, ZenonT(60)
  <2>2. CASE e # login[c].email
    <3>1. Verifying(e)' = Verifying(e)
      BY <2>2 DEF Verifying, GuardInv, GuardTypes
    <3> QED BY <2>2, <3>1, VerifyingFinite
  <2> QED BY <2>1, <2>2
<1> QED BY <1>1, <1>2

LEMMA RecordFailureInv ==
    ASSUME GuardInv, NEW c \in Logins, RecordFailure(c)
    PROVE  GuardInv'
<1>1. login[c] # Unset /\ login' = [login EXCEPT ![c] = Unset] /\ tick' = tick
  BY DEF RecordFailure
<1>2. PICK e \in Emails : login[c].email = e /\ login[c] \in Attempt
  BY <1>1, OneFewer
<1> DEFINE k == Account(e)
           before == IF tick - failures[k].last > 2 * Lockout THEN 0 ELSE failures[k].count
<1>3. /\ \A d \in Emails : Account(d) \in GuardKeys
      /\ failures \in [GuardKeys -> [count : Nat, last : Ticks]] /\ tick \in Ticks
      /\ guesses \in [Emails -> [Ticks -> Nat]]
  BY DEF Account, GuardKeys, GuardInv, GuardTypes
<1>4. /\ failures'[k] = [count |-> before + 1, last |-> tick]
      /\ \A d \in Emails : d # e => failures'[Account(d)] = failures[Account(d)]
  <2>1. \A d \in Emails : Account(d) \in KeysOf(e, login[c].address) <=> d = e
    BY DEF Account, KeysOf
  <2> QED BY <1>2, <1>3, <2>1 DEF RecordFailure
<1>5. guesses' = [guesses EXCEPT ![e] = [guesses[e] EXCEPT ![tick] = guesses[e][tick] + 1]]
  <2>1. guesses' = [guesses EXCEPT ![login[c].email][tick] = guesses[login[c].email][tick] + 1]
    BY DEF RecordFailure
  <2> QED BY <1>2, <2>1
<1>6. before \in Nat /\ failures[k].count \in Nat /\ failures[k].last \in Nat /\ tick \in Nat
      /\ before <= failures[k].count
  <2>1. failures[k] \in [count : Nat, last : Ticks]
    BY <1>3
  <2>2. failures[k].count \in Nat /\ failures[k].last \in Nat /\ tick \in Nat
    BY <1>3, <2>1, TicksFinite
  <2> QED BY <2>2
<1>7. GuardTypes'
  <2>1. guesses'[e] \in [Ticks -> Nat]
    BY <1>3, <1>5
  <2>2. \A key \in GuardKeys : failures'[key] \in [count : Nat, last : Ticks]
    BY <1>3 DEF RecordFailure
  <2>3. failures' = [key \in GuardKeys |-> failures'[key]]
    BY DEF RecordFailure
  <2> QED BY <1>1, <1>3, <1>5, <2>1, <2>2, <2>3 DEF GuardInv, GuardTypes
<1>8. Recorded(e)'
  <2>1. SumFunctionOnSet(guesses[e], Ticks) <= before
        /\ \A t \in Ticks : guesses[e][t] # 0 => t <= tick /\ t > tick - Lockout
    <3>1. Recorded(e)
      BY DEF GuardInv
    <3>2. CASE tick - failures[k].last > 2 * Lockout
      <4>1. \A t \in Ticks : guesses[e][t] = 0
        BY <1>6, <3>1, <3>2, TicksFinite, GuardAssumption DEF Recorded
      <4>2. SumFunctionOnSet(guesses[e], Ticks) = 0
        BY <4>1, TicksFinite, SumOfZeros
      <4> QED BY <1>6, <4>1, <4>2
    <3>3. CASE ~(tick - failures[k].last > 2 * Lockout)
      BY <3>1, <3>3 DEF Recorded
    <3> QED BY <3>2, <3>3
  <2>2. SumFunctionOnSet(guesses'[e], Ticks) = SumFunctionOnSet(guesses[e], Ticks) + 1
    <3>1. /\ \A t \in Ticks : guesses[e][t] \in Int /\ guesses'[e][t] \in Int
                              /\ (t # tick => guesses'[e][t] = guesses[e][t])
          /\ guesses'[e][tick] = guesses[e][tick] + 1
      BY <1>3, <1>5
    <3>2. SumFunctionOnSet(guesses'[e], Ticks)
          = SumFunctionOnSet(guesses[e], Ticks) + guesses'[e][tick] - guesses[e][tick]
      BY <1>3, <3>1, TicksFinite, SumChanges, ZenonT(60)
    <3>3. SumFunctionOnSet(guesses[e], Ticks) \in Int
      BY <3>1, TicksFinite, SumType
    <3> QED BY <1>3, <3>1, <3>2, <3>3
  <2>3. \A t \in Ticks : guesses'[e][t] # 0 => t <= tick /\ t > tick - Lockout
    BY <1>3, <1>5, <1>6, <2>1, GuardAssumption
  <2>4. SumFunctionOnSet(guesses[e], Ticks) \in Int
    BY GuessSum DEF GuardInv
  <2>5. failures'[k].count = before + 1 /\ failures'[k].last = tick
    BY <1>4
  <2> HIDE DEF before
  <2>6. SumFunctionOnSet(guesses'[e], Ticks) <= failures'[k].count
    BY <1>6, <2>1, <2>2, <2>4, <2>5
  <2> QED BY <1>1, <2>3, <2>5, <2>6 DEF Recorded, Account
<1>9. FewEnough(e)'
  <2>1. Cardinality(Verifying(e)') = Cardinality(Verifying(e)) - 1
    BY <1>1, <1>2, OneFewer
  <2>2. failures'[k].count = before + 1
    BY <1>4
  <2>3. FewEnough(e)
    BY DEF GuardInv
  <2> HIDE DEF before
  <2> QED BY <1>6, <2>1, <2>2, <2>3, VerifyingFinite, GuardAssumption DEF FewEnough, Account
<1>10. ASSUME NEW d \in Emails, d # e PROVE Recorded(d)' /\ FewEnough(d)'
  <2>1. guesses'[d] = guesses[d] /\ failures'[Account(d)] = failures[Account(d)]
    BY <1>3, <1>4, <1>5, <1>10
  <2>2. Cardinality(Verifying(d)') = Cardinality(Verifying(d))
    <3>1. Cardinality(Verifying(d)') = Cardinality(Verifying(d)) - (IF d = e THEN 1 ELSE 0)
      BY <1>1, <1>2, OneFewer
    <3>2. Cardinality(Verifying(d)) \in Nat
      BY VerifyingFinite
    <3> QED BY <1>10, <3>1, <3>2
  <2> QED BY <1>1, <2>1, <2>2 DEF GuardInv, Recorded, FewEnough, Account
<1> QED BY <1>7, <1>8, <1>9, <1>10 DEF GuardInv

LEMMA RecordSuccessInv ==
    ASSUME GuardInv, NEW c \in Logins, NEW disabled, RecordSuccess(c, disabled)
    PROVE  GuardInv'
<1>1. login[c] # Unset /\ login' = [login EXCEPT ![c] = Unset] /\ tick' = tick
  BY DEF RecordSuccess
<1>2. PICK e \in Emails : login[c].email = e /\ login[c] \in Attempt
  BY <1>1, OneFewer
<1>3. /\ \A d \in Emails : Account(d) \in GuardKeys
      /\ failures \in [GuardKeys -> [count : Nat, last : Ticks]] /\ tick \in Ticks
      /\ guesses \in [Emails -> [Ticks -> Nat]]
      /\ NoFailure \in [count : Nat, last : Ticks] /\ NoGuess \in [Ticks -> Nat]
  BY NoGuesses, GuardAssumption DEF Account, GuardKeys, GuardInv, GuardTypes, NoFailure, Ticks
<1>4. ASSUME NEW d \in Emails
      PROVE  \/ failures'[Account(d)] = failures[Account(d)] /\ guesses'[d] = guesses[d]
             \/ failures'[Account(d)] = NoFailure /\ guesses'[d] = NoGuess
  <2>1. Account(d) \in KeysOf(e, login[c].address) <=> d = e
    BY DEF Account, KeysOf
  <2> QED BY <1>2, <1>3, <2>1 DEF RecordSuccess
<1>5. GuardTypes'
  BY <1>1, <1>2, <1>3 DEF GuardInv, GuardTypes, RecordSuccess
<1>6. ASSUME NEW d \in Emails PROVE Recorded(d)' /\ FewEnough(d)'
  <2>1. /\ Cardinality(Verifying(d)') <= Cardinality(Verifying(d))
        /\ Cardinality(Verifying(d)') \in Int
    <3>1. Cardinality(Verifying(d)') = Cardinality(Verifying(d)) - (IF d = e THEN 1 ELSE 0)
      BY <1>1, <1>2, OneFewer
    <3>2. Cardinality(Verifying(d)) \in Nat
      BY VerifyingFinite
    <3> QED BY <3>1, <3>2
  <2>2. Recorded(d) /\ FewEnough(d) /\ failures[Account(d)].count \in Nat
    BY <1>3 DEF GuardInv
  <2>3. Recorded(d)'
    <3>1. CASE failures'[Account(d)] = failures[Account(d)] /\ guesses'[d] = guesses[d]
      BY <1>1, <2>2, <3>1 DEF Recorded, Account
    <3>2. CASE failures'[Account(d)] = NoFailure /\ guesses'[d] = NoGuess
      <4>1. SumFunctionOnSet(guesses'[d], Ticks) = 0 /\ \A t \in Ticks : guesses'[d][t] = 0
        BY <3>2, NoGuesses DEF NoGuess, Ticks
      <4> QED BY <3>2, <4>1 DEF Recorded, Account, NoFailure
    <3> QED BY <1>4, <3>1, <3>2
  <2>4. failures'[Account(d)].count <= failures[Account(d)].count
        /\ failures'[Account(d)].count \in Nat
    BY <1>4, <2>2 DEF NoFailure
  <2> QED BY <2>1, <2>2, <2>3, <2>4, VerifyingFinite, GuardAssumption DEF FewEnough, Account
<1> QED BY <1>5, <1>6 DEF GuardInv

LEMMA GuardRestartInv == ASSUME GuardInv, Restart PROVE GuardInv'
<1>1. GuardTypes'
  BY NoGuesses, GuardAssumption DEF GuardInv, GuardTypes, Restart, NoFailure, Ticks
<1>2. ASSUME NEW e \in Emails PROVE Recorded(e)' /\ FewEnough(e)'
  <2>1. Account(e) \in GuardKeys
    BY DEF Account, GuardKeys
  <2>2. failures'[Account(e)] = NoFailure /\ guesses'[e] = NoGuess
    BY <2>1 DEF Restart
  <2>3. Recorded(e)'
    BY <2>2, NoGuesses DEF Recorded, Account, NoFailure, NoGuess, Ticks
  <2>4. Verifying(e)' = {}
    BY DEF Verifying, Restart
  <2> QED BY <2>2, <2>3, <2>4, FS_EmptySet, GuardAssumption, FS_CardinalityType
       DEF FewEnough, NoFailure, Account
<1> QED BY <1>1, <1>2 DEF GuardInv

\* What is too long ago counts no more.
LEMMA GuardTickInv == ASSUME GuardInv, Tick PROVE GuardInv'
<1>1. /\ tick \in Ticks /\ guesses \in [Emails -> [Ticks -> Nat]] /\ tick' = tick + 1
      /\ tick' \in Ticks /\ UNCHANGED <<failures, login>>
  BY GuardAssumption DEF GuardInv, GuardTypes, Tick, Ticks
<1>2. \A e \in Emails, t \in Ticks :
         guesses'[e][t] = ( IF t > tick' - Lockout THEN guesses[e][t] ELSE 0)
  BY DEF Tick, Ticks
<1>3. GuardTypes'
  BY <1>1 DEF GuardInv, GuardTypes, Tick, Ticks
<1>4. ASSUME NEW e \in Emails PROVE Recorded(e)' /\ FewEnough(e)'
  <2>1. Recorded(e) /\ FewEnough(e) /\ Account(e) \in GuardKeys
    BY DEF GuardInv, Account, GuardKeys
  <2>2. \A t \in Ticks : /\ guesses'[e][t] \in Int /\ guesses[e][t] \in Int
                         /\ guesses'[e][t] <= guesses[e][t]
                         /\ guesses'[e][t] # 0 => guesses[e][t] # 0 /\ t > tick' - Lockout
    <3>1. \A t \in Ticks : guesses[e][t] \in Nat /\ guesses[e][t] \in Int
      BY GuessSum DEF GuardInv
    <3> QED BY <1>2, <3>1
  <2>3. SumFunctionOnSet(guesses'[e], Ticks) <= SumFunctionOnSet(guesses[e], Ticks)
    BY <2>2, TicksFinite, SumOfSmaller
  <2>4. SumFunctionOnSet(guesses'[e], Ticks) \in Int /\ SumFunctionOnSet(guesses[e], Ticks) \in Int
    BY <2>2, TicksFinite, SumType
  <2>5. failures[Account(e)].count \in Int
    BY <2>1 DEF GuardInv, GuardTypes
  <2>6. Recorded(e)'
    <3>1. \A t \in Ticks : t <= tick => t <= tick'
      BY <1>1, TicksFinite
    <3> QED BY <1>1, <2>1, <2>2, <3>1, <2>3, <2>4, <2>5 DEF Recorded, Account
  <2>7. Verifying(e)' = Verifying(e)
    BY <1>1 DEF Verifying
  <2> QED BY <1>1, <2>1, <2>6, <2>7 DEF FewEnough, Account
<1> QED BY <1>3, <1>4 DEF GuardInv

LEMMA GuardNextInv == ASSUME GuardInv, [GuardNext]_guardVars PROVE GuardInv'
<1>1. CASE UNCHANGED guardVars
  BY <1>1 DEF guardVars, GuardInv, GuardTypes, Recorded, FewEnough, Verifying, Account
<1> QED BY <1>1, CheckInv, RefuseInv, RecordFailureInv, RecordSuccessInv, GuardRestartInv,
        GuardTickInv DEF GuardNext

\* Whatever addresses the clients come from and whatever is being verified at
\* the same time, within the time of a lock an account is tried with at most
\* MaxAttempts wrong passwords and as many more as were under way
\* (check(), record_failure()).
THEOREM GuessingIsLimited == GuardSpec => []GuessesBounded
<1>1. GuardInv => GuessesBounded
  <2> SUFFICES ASSUME GuardInv, NEW e \in Emails
               PROVE  SumFunction(guesses[e]) <= MaxAttempts + Cardinality(Logins) - 1
    BY DEF GuessesBounded
  <2>1. guesses[e] \in [Ticks -> Nat] /\ Account(e) \in GuardKeys
    BY DEF GuardInv, GuardTypes, Account, GuardKeys
  <2>2. SumFunction(guesses[e]) = SumFunctionOnSet(guesses[e], Ticks)
    BY <2>1 DEF SumFunction
  <2>3. SumFunctionOnSet(guesses[e], Ticks) \in Int
    BY GuessSum DEF GuardInv
  <2>4. Recorded(e) /\ FewEnough(e) /\ failures[Account(e)].count \in Int
    BY <2>1 DEF GuardInv, GuardTypes
  <2> QED BY <2>2, <2>3, <2>4, VerifyingFinite, GuardAssumption DEF Recorded, FewEnough
<1>2. GuardInv /\ [GuardNext]_guardVars => GuardInv'
  BY GuardNextInv
<1> QED BY <1>1, <1>2, GuardInitInv, PTL DEF GuardSpec

-----------------------------------------------------------------------------
(* The fees of a shop.                                                     *)

\* The first fees of the plans are left without a type: Max is a choice.
FeesShape ==
    /\ policy \in [{Platform, Shop} -> FeeRow \cup {NotSet}]
    /\ \E S : planFee \in [Plans -> S]
    /\ plan \in Plans \cup {NotSet}
    /\ assignments \in Seq(Assignment)

AtMostOneActive == \A i, j \in Active : i = j

FeesInv == FeesShape /\ AtMostOneActive

-----------------------------------------------------------------------------
(* Assignments.                                                            *)

\* Without one of its elements a sequence has the others, in their order.
LEMMA WithoutOne ==
    ASSUME NEW S, NEW s \in Seq(S), NEW i \in 1..Len(s)
    PROVE  LET t == SubSeq(s, 1, i - 1) \o SubSeq(s, i + 1, Len(s))
           IN  /\ t \in Seq(S)
               /\ Len(t) = Len(s) - 1
               /\ \A j \in 1..Len(t) : t[j] = s[IF j < i THEN j ELSE j + 1]
<1> DEFINE a == SubSeq(s, 1, i - 1)
           b == SubSeq(s, i + 1, Len(s))
           n == Len(s)
<1>1. n \in Nat /\ i \in 1..n /\ \A k \in 1..n : s[k] \in S
  OBVIOUS
<1>2. /\ a \in Seq(S) /\ Len(a) = i - 1 /\ \A j \in 1..(i - 1) : a[j] = s[j]
  <2>1. i - 1 \in Int /\ 1 \in Int /\ \A k \in 1..(i - 1) : s[k] \in S
    BY <1>1
  <2>2. /\ a \in Seq(S) /\ Len(a) = (IF 1 <= i - 1 THEN (i - 1) - 1 + 1 ELSE 0)
        /\ \A j \in 1..((i - 1) - 1 + 1) : a[j] = s[1 + j - 1]
    BY <2>1, SubSeqProperties
  <2> QED BY <1>1, <2>2
<1>3. /\ b \in Seq(S) /\ Len(b) = n - i /\ \A j \in 1..(n - i) : b[j] = s[i + j]
  <2>1. i + 1 \in Int /\ n \in Int /\ \A k \in (i + 1)..n : s[k] \in S
    BY <1>1
  <2>2. /\ b \in Seq(S) /\ Len(b) = (IF i + 1 <= n THEN n - (i + 1) + 1 ELSE 0)
        /\ \A j \in 1..(n - (i + 1) + 1) : b[j] = s[i + 1 + j - 1]
    BY <2>1, SubSeqProperties
  <2> QED BY <1>1, <2>2
<1> HIDE DEF a, b, n
<1>4. /\ a \o b \in Seq(S)
      /\ Len(a \o b) = Len(a) + Len(b)
      /\ \A j \in 1..(Len(a) + Len(b)) : (a \o b)[j] = IF j <= Len(a) THEN a[j] ELSE b[j - Len(a)]
  BY <1>2, <1>3, ConcatProperties
<1>5. ASSUME NEW j \in 1..(n - 1) PROVE (a \o b)[j] = s[IF j < i THEN j ELSE j + 1]
  <2>1. j \in Int /\ j \in 1..(Len(a) + Len(b))
    BY <1>1, <1>2, <1>3
  <2>2. (a \o b)[j] = IF j <= Len(a) THEN a[j] ELSE b[j - Len(a)]
    BY <1>4, <2>1
  <2>3. CASE j < i
    <3>1. j \in 1..(i - 1) /\ j <= Len(a)
      BY <1>1, <1>2, <2>1, <2>3
    <3> QED BY <1>2, <2>2, <2>3, <3>1
  <2>4. CASE ~(j < i)
    <3>1. /\ j - Len(a) \in 1..(n - i) /\ ~(j <= Len(a))
          /\ i + (j - Len(a)) = j + 1
      BY <1>1, <1>2, <2>1, <2>4
    <3> QED BY <1>3, <2>2, <2>4, <3>1
  <2> QED BY <2>3, <2>4
<1>6. a \o b \in Seq(S) /\ Len(a \o b) = n - 1
  BY <1>1, <1>2, <1>3, <1>4
<1> QED BY <1>5, <1>6 DEF a, b, n

LEMMA OpenShopStep ==
    ASSUME FeesInv, NEW m \in Managers \cup {NotSet}, OpenShop(m)
    PROVE  FeesInv' /\ ~opened
<1> DEFINE a == [manager |-> m, rate |-> DefaultCommission, active |-> TRUE]
<1>1. /\ ~opened /\ plan' = StartPlan /\ UNCHANGED <<policy, planFee>>
      /\ assignments' = IF m = NotSet THEN << >> ELSE <<a>>
  BY DEF OpenShop
<1>2. m # NotSet => a \in Assignment
  BY DEF Assignment, DefaultCommission
<1> HIDE DEF a
<1>3. assignments' \in Seq(Assignment) /\ DOMAIN assignments' \subseteq {1}
  BY <1>1, <1>2
<1>4. Active' \subseteq {1}
  BY <1>3 DEF Active
<1> QED BY <1>1, <1>3, <1>4, FeeAssumption DEF FeesInv, FeesShape, AtMostOneActive

LEMMA CreateAssignmentStep ==
    ASSUME FeesInv, NEW m \in Managers, NEW rate \in Commissions, CreateAssignment(m, rate)
    PROVE  FeesInv'
<1> DEFINE a == [manager |-> m, rate |-> rate, active |-> TRUE]
<1>1. Active = {} /\ assignments' = Append(assignments, a) /\ UNCHANGED <<policy, planFee, plan>>
  BY DEF CreateAssignment
<1>2. a \in Assignment /\ assignments \in Seq(Assignment)
  BY FeeAssumption DEF Assignment, FeesInv, FeesShape
<1> HIDE DEF a
<1>3. /\ assignments' \in Seq(Assignment) /\ DOMAIN assignments' = 1..(Len(assignments) + 1)
      /\ \A i \in 1..Len(assignments) : assignments'[i] = assignments[i]
      /\ DOMAIN assignments = 1..Len(assignments) /\ Len(assignments) \in Nat
  BY <1>1, <1>2
<1>4. Active' \subseteq {Len(assignments) + 1}
  BY <1>1, <1>3 DEF Active
<1> QED BY <1>1, <1>3, <1>4 DEF FeesInv, FeesShape, AtMostOneActive

LEMMA UpdateAssignmentStep ==
    ASSUME FeesInv, NEW i \in DOMAIN assignments, NEW rate \in Commissions \cup {NotSet},
           NEW on \in BOOLEAN, UpdateAssignment(i, rate, on)
    PROVE  FeesInv'
<1> DEFINE a == assignments[i]
           b == [a EXCEPT !.rate = IF rate = NotSet THEN @ ELSE rate, !.active = on]
<1>1. /\ assignments' = [assignments EXCEPT ![i] = b] /\ UNCHANGED <<policy, planFee, plan>>
      /\ on /\ ~a.active => Active \subseteq {i}
  BY DEF UpdateAssignment, MayActivate
<1>2. assignments \in Seq(Assignment) /\ a \in Assignment
  BY DEF FeesInv, FeesShape
<1>3. b \in Assignment /\ b.active = on
  BY <1>2, FeeAssumption DEF Assignment
<1> HIDE DEF b
<1>4. /\ assignments' \in Seq(Assignment) /\ DOMAIN assignments' = DOMAIN assignments
      /\ assignments'[i] = b
      /\ \A j \in DOMAIN assignments : j # i => assignments'[j] = assignments[j]
  BY <1>1, <1>2, <1>3
<1>5. CASE on /\ ~a.active
  <2>1. Active' \subseteq {i}
    BY <1>1, <1>4, <1>5 DEF Active
  <2> QED BY <1>1, <1>4, <2>1 DEF FeesInv, FeesShape, AtMostOneActive
<1>6. CASE ~(on /\ ~a.active)
  <2>1. Active' \subseteq Active
    BY <1>3, <1>4, <1>6 DEF Active
  <2> QED BY <1>1, <1>4, <2>1 DEF FeesInv, FeesShape, AtMostOneActive
<1> QED BY <1>5, <1>6

LEMMA DeleteAssignmentStep ==
    ASSUME FeesInv, NEW i \in DOMAIN assignments, DeleteAssignment(i) PROVE FeesInv'
<1>1. /\ assignments' = SubSeq(assignments, 1, i - 1) \o SubSeq(assignments, i + 1, Len(assignments))
      /\ UNCHANGED <<policy, planFee, plan>>
  BY DEF DeleteAssignment, RemoveAt
<1>2. assignments \in Seq(Assignment) /\ i \in 1..Len(assignments)
  BY DEF FeesInv, FeesShape
<1> DEFINE before(j) == IF j < i THEN j ELSE j + 1
<1>3. /\ assignments' \in Seq(Assignment) /\ Len(assignments') = Len(assignments) - 1
      /\ \A j \in 1..Len(assignments') : assignments'[j] = assignments[before(j)]
  BY <1>1, <1>2, WithoutOne
<1>4. \A j \in Active' : j \in Int /\ before(j) \in Active
  BY <1>2, <1>3 DEF Active
<1>5. ASSUME NEW j \in Active', NEW k \in Active' PROVE j = k
  <2>1. before(j) = before(k)
    BY <1>4 DEF FeesInv, AtMostOneActive
  <2> QED BY <1>2, <1>4, <2>1
<1> QED BY <1>1, <1>3, <1>5 DEF FeesInv, FeesShape, AtMostOneActive

-----------------------------------------------------------------------------
(* The other handlers leave the assignments alone.                         *)

LEMMA RateTypes ==
    ASSUME FeesInv
    PROVE  /\ DefaultFee \in Nat /\ DefaultCost \in Nat
           /\ GlobalFee \in Nat /\ GlobalCost \in Nat
           /\ policy[Shop] # NotSet => policy[Shop].fee \in Nat /\ policy[Shop].cost \in Nat
  BY DEF FeesInv, FeesShape, FeeRow, DefaultFee, DefaultCost, GlobalFee, GlobalCost

\* A row for the shop is stored: the next settlement uses it.
LEMMA StoreFeesStep ==
    ASSUME FeesInv, NEW fee \in Nat, NEW cost \in Nat, StoreFees(fee, cost)
    PROVE  FeesInv' /\ Settleable'
<1> DEFINE row == [fee |-> fee, cost |-> cost]
<1>1. /\ Covers(fee, cost, EffectiveCommission) /\ policy' = [policy EXCEPT ![Shop] = row]
      /\ UNCHANGED <<commission, planFee, plan, assignments>>
  BY DEF StoreFees
<1>2. row \in FeeRow /\ row.fee = fee /\ row.cost = cost /\ row # NotSet
  BY FeeAssumption DEF FeeRow
<1> HIDE DEF row
<1>3. policy' \in [{Platform, Shop} -> FeeRow \cup {NotSet}] /\ policy'[Shop] = row
  BY <1>1, <1>2 DEF FeesInv, FeesShape
<1>4. EffectiveFee' = fee /\ EffectiveCost' = cost
  BY <1>2, <1>3 DEF EffectiveFee, EffectiveCost
<1>5. EffectiveCommission' = EffectiveCommission
  BY <1>1 DEF EffectiveCommission, Active
<1> QED BY <1>1, <1>3, <1>4, <1>5 DEF Settleable, FeesInv, FeesShape, AtMostOneActive, Active

\* The change is one the guards let through.
Promised ==
    /\ opened
    /\ \/ policy'[Shop] \notin {policy[Shop], NotSet}
       \/ plan' # plan
       \/ plan # NotSet /\ planFee'[plan] # planFee[plan]
    => Settleable'

LEMMA ShopRatesStep ==
    ASSUME FeesInv,
           \/ \E cost \in Costs : SetFeePolicy(cost)
           \/ \E fee \in Fees \cup {NotSet}, cost \in Costs \cup {NotSet} : OverrideFees(fee, cost)
           \/ ResetFees
    PROVE  FeesInv' /\ Promised
<1>1. ASSUME NEW cost \in Costs, SetFeePolicy(cost) PROVE FeesInv' /\ Promised
  <2>1. Kept("fee", GlobalFee) \in Nat /\ cost \in Nat
    BY RateTypes, FeeAssumption DEF Kept
  <2> QED BY <1>1, <2>1, StoreFeesStep DEF SetFeePolicy, Promised
<1>2. ASSUME NEW fee \in Fees \cup {NotSet}, NEW cost \in Costs \cup {NotSet},
             OverrideFees(fee, cost)
      PROVE  FeesInv' /\ Promised
  <2>1. PICK f, c : StoreFees(f, c) /\ f \in Nat /\ c \in Nat
    <3>1. (IF fee # NotSet THEN fee ELSE Kept("fee", GlobalFee)) \in Nat
      BY RateTypes, FeeAssumption DEF Kept
    <3>2. (IF cost # NotSet THEN cost ELSE Kept("cost", GlobalCost)) \in Nat
      BY RateTypes, FeeAssumption DEF Kept
    <3> QED BY <1>2, <3>1, <3>2 DEF OverrideFees
  <2> QED BY <2>1, StoreFeesStep DEF Promised
<1>3. CASE ResetFees
  <2>1. policy' = [policy EXCEPT ![Shop] = NotSet] /\ UNCHANGED <<planFee, plan, assignments>>
    BY <1>3 DEF ResetFees
  <2>2. policy' \in [{Platform, Shop} -> FeeRow \cup {NotSet}] /\ policy'[Shop] = NotSet
    BY <2>1 DEF FeesInv, FeesShape
  <2> QED BY <2>1, <2>2 DEF FeesInv, FeesShape, AtMostOneActive, Active, Promised
<1> QED BY <1>1, <1>2, <1>3

LEMMA PlatformRatesStep ==
    ASSUME FeesInv, NEW fee \in Fees, NEW cost \in Costs, NEW rate \in Commissions,
           UpdateFeeSettings(fee, cost, rate)
    PROVE  FeesInv' /\ Promised
<1> DEFINE row == [fee |-> fee, cost |-> cost]
<1>1. policy' = [policy EXCEPT ![Platform] = row] /\ UNCHANGED <<planFee, plan, assignments>>
  BY DEF UpdateFeeSettings
<1>2. row \in FeeRow
  BY FeeAssumption DEF FeeRow
<1> HIDE DEF row
<1>3. policy' \in [{Platform, Shop} -> FeeRow \cup {NotSet}] /\ policy'[Shop] = policy[Shop]
  BY <1>1, <1>2, FeeAssumption DEF FeesInv, FeesShape
<1> QED BY <1>1, <1>3 DEF FeesInv, FeesShape, AtMostOneActive, Active, Promised

LEMMA PlanStep ==
    ASSUME FeesInv, NEW p \in Plans, AssignPlan(p) \/ \E fee \in Fees : UpdatePlan(p, fee)
    PROVE  FeesInv' /\ Promised
<1>1. CASE AssignPlan(p)
  BY <1>1 DEF AssignPlan, StillCovers, FeesInv, FeesShape, AtMostOneActive, Active, Promised
<1>2. ASSUME NEW fee \in Fees, UpdatePlan(p, fee) PROVE FeesInv' /\ Promised
  <2>1. planFee' = [planFee EXCEPT ![p] = fee] /\ UNCHANGED <<policy, plan, assignments>>
        /\ (p = plan => Settleable')
    BY <1>2 DEF UpdatePlan, StillCovers
  <2>2. PICK S : planFee \in [Plans -> S]
    BY DEF FeesInv, FeesShape
  <2>3. planFee' \in [Plans -> S \cup {fee}] /\ \A q \in Plans \ {p} : planFee'[q] = planFee[q]
    BY <2>1, <2>2
  <2>4. \E T : planFee' \in [Plans -> T]
    BY <2>3
  <2>5. FeesInv'
    BY <2>1, <2>4 DEF FeesInv, FeesShape, AtMostOneActive, Active
  <2>6. Promised
    BY <2>1, <2>3 DEF FeesInv, FeesShape, Promised
  <2> QED BY <2>5, <2>6
<1> QED BY <1>1, <1>2

\* A step that leaves the shop's row and the plans alone promises nothing.
LEMMA NothingPromised ==
    ASSUME UNCHANGED <<policy, planFee, plan>> PROVE Promised
  BY DEF Promised

LEMMA NextFees ==
    ASSUME FeesInv, [FeesNext]_feeVars PROVE FeesInv' /\ Promised
<1>1. CASE \/ \E cost \in Costs : SetFeePolicy(cost)
           \/ \E fee \in Fees \cup {NotSet}, cost \in Costs \cup {NotSet} : OverrideFees(fee, cost)
           \/ ResetFees
  BY <1>1, ShopRatesStep
<1>2. CASE \E fee \in Fees, cost \in Costs, rate \in Commissions : UpdateFeeSettings(fee, cost, rate)
  BY <1>2, PlatformRatesStep
<1>3. ASSUME NEW m \in Managers,
             ResetCommission(m) \/ \E rate \in Commissions : OverrideCommission(m, rate)
      PROVE  FeesInv' /\ Promised
  <2>1. UNCHANGED <<policy, planFee, plan, assignments>>
    BY <1>3 DEF ResetCommission, OverrideCommission
  <2> QED BY <2>1, NothingPromised DEF FeesInv, FeesShape, AtMostOneActive, Active
<1>4. ASSUME NEW m \in Managers, NEW rate \in Commissions, CreateAssignment(m, rate)
      PROVE  FeesInv' /\ Promised
  BY <1>4, CreateAssignmentStep, NothingPromised DEF CreateAssignment
<1>5. ASSUME NEW i \in DOMAIN assignments, DeleteAssignment(i) PROVE FeesInv' /\ Promised
  BY <1>5, DeleteAssignmentStep, NothingPromised DEF DeleteAssignment
<1>6. ASSUME NEW i \in DOMAIN assignments, NEW rate \in Commissions \cup {NotSet},
             NEW on \in BOOLEAN, UpdateAssignment(i, rate, on)
      PROVE  FeesInv' /\ Promised
  BY <1>6, UpdateAssignmentStep, NothingPromised DEF UpdateAssignment
<1>7. ASSUME NEW p \in Plans, AssignPlan(p) \/ \E fee \in Fees : UpdatePlan(p, fee)
      PROVE  FeesInv' /\ Promised
  BY <1>7, PlanStep
<1>8. ASSUME NEW m \in Managers \cup {NotSet}, OpenShop(m) PROVE FeesInv' /\ Promised
  BY <1>8, OpenShopStep DEF Promised
<1>9. CASE UNCHANGED feeVars
  <2>1. UNCHANGED <<policy, planFee, plan, assignments>>
    BY <1>9 DEF feeVars
  <2> QED BY <2>1, NothingPromised DEF FeesInv, FeesShape, AtMostOneActive, Active
<1> QED BY <1>1, <1>2, <1>3, <1>4, <1>5, <1>6, <1>7, <1>8, <1>9 DEF FeesNext

LEMMA InitFees == FeesInit => FeesInv
<1> SUFFICES ASSUME FeesInit PROVE FeesInv
  OBVIOUS
<1>1. \E S : planFee \in [Plans -> S]
  <2>1. \E x : planFee = [p \in Plans |-> x]
    BY DEF FeesInit
  <2>2. PICK x : planFee = [p \in Plans |-> x]
    BY <2>1
  <2>3. planFee \in [Plans -> {x}]
    BY <2>2
  <2> QED BY <2>3
<1>2. policy \in [{Platform, Shop} -> FeeRow \cup {NotSet}] /\ plan \in Plans \cup {NotSet}
      /\ assignments = << >> /\ DOMAIN assignments = {} /\ assignments \in Seq(Assignment)
  BY DEF FeesInit
<1> QED BY <1>1, <1>2 DEF FeesInv, FeesShape, AtMostOneActive, Active

LEMMA FeesInvariant == FeesSpec => []FeesInv
<1>1. FeesInv /\ [FeesNext]_feeVars => FeesInv'
  BY NextFees
<1> QED BY <1>1, InitFees, PTL DEF FeesSpec

-----------------------------------------------------------------------------
(* Theorems.                                                               *)

\* register, create_sales_assignment, update_sales_assignment and
\* delete_sales_assignment in any order never leave a shop with two active assignments.
THEOREM OneAssignmentActive == FeesSpec => []OneActiveAssignment
<1>1. FeesInv => OneActiveAssignment
  <2> SUFFICES ASSUME AtMostOneActive PROVE Cardinality(Active) <= 1
    BY DEF FeesInv, OneActiveAssignment
  <2>1. CASE Active = {}
    BY <2>1, FS_EmptySet
  <2>2. CASE Active # {}
    <3>1. PICK i : Active = {i}
      BY <2>2 DEF AtMostOneActive
    <3>2. Cardinality({i}) = 1
      BY FS_Singleton
    <3> QED BY <3>1, <3>2
  <2> QED BY <2>1, <2>2
<1> QED BY <1>1, FeesInvariant, PTL

\* set_fee_policy, update_merchant_fee_override, change_merchant_plan and
\* update_plan let through no rate of the shop's own, no other plan and no other
\* fee of its plan with which calculate_settlement would fail.  (Giving up the
\* shop's own rates is not among them: ResetStillSettles does not hold.)
THEOREM FeeChangesSettle == FeesSpec => FeeChangeStillSettles
<1>1. FeesInv /\ [FeesNext]_feeVars => Promised
  BY NextFees
<1>2. FeesSpec => [][Promised]_feeVars
  BY <1>1, FeesInvariant, PTL DEF FeesSpec
<1> QED BY <1>2 DEF FeeChangeStillSettles, Promised

-----------------------------------------------------------------------------
(* The keywords.                                                           *)

WordRow == [text : Texts, kind : AdTypes \cup {AllTypes}, priority : Priorities,
        active : BOOLEAN, status : {"pending", "approved", "rejected"}]
WordContents == Texts \X (AdTypes \cup {AllTypes})
Starting == [open : {TRUE}, does : {"create"}, admin : BOOLEAN, id : {0}, to : WordRow]
Choosing == [open : {TRUE}, does : {"choose"}, admin : {TRUE}, id : Ids,
             shown : WordContents, stale : BOOLEAN]
Loaded == [open : {TRUE}, does : {"update", "judge"}, admin : BOOLEAN, id : Ids,
           shown : WordContents \cup {<< >>}, stale : BOOLEAN, from : WordRow, to : WordRow]

\* What an administrator was shown is what the row says, unless it was told
\* apart since; and so is what its handler has loaded.
ShownFits(k) ==
    k \in Choosing \cup Loaded /\ k.admin /\ ~k.stale =>
        /\ k.id \in Rows => Content(keyword[k.id]) = k.shown
        /\ k \in Loaded => Content(k.from) = k.shown

\* A judgement leaves the content; a change of the content takes the approval
\* away unless it is an administrator's; other changes leave the status.
ChangeFits(k) ==
    /\ k.does = "judge" => k.admin /\ Content(k.to) = Content(k.from)
    /\ k.does = "update" =>
          k.to.status = IF Content(k.to) = Content(k.from) THEN k.from.status
                        ELSE IF k.admin THEN "approved" ELSE "pending"

\* A row that was approved while an owner was changing it, who found it not
\* approved and so does not take that away.
LateFits(k) ==
    /\ ~k.admin /\ Content(k.to) # Content(k.from) /\ k.from.status # "approved"
    /\ k.id \in Rows /\ keyword[k.id].status = "approved"
    => k.id \in unseen

EditFits(k) ==
    /\ k \in Starting /\ k.to.status = "approved" => k.admin
    /\ k \in Choosing \cup Loaded => k.id \in 1..added
    /\ ShownFits(k)
    /\ k \in Loaded => ChangeFits(k) /\ LateFits(k)

KeywordsInv ==
    /\ keyword \in [Ids -> WordRow \cup {NoKeyword}]
    /\ added \in 0..MaxAdded /\ Rows \subseteq 1..added
    /\ edit \in [Edits -> {NoEdit} \cup Starting \cup Choosing \cup Loaded]
    /\ \E S : seen \in [Ids -> S]
    /\ \A e \in Edits : EditFits(edit[e])
    /\ UsedAsApproved

-----------------------------------------------------------------------------

LEMMA NotOpen == NoEdit \notin Starting \cup Choosing \cup Loaded /\ ~NoEdit.open
BY DEF NoEdit, Starting, Choosing, Loaded

LEMMA InitKeywords == KeywordsInit => KeywordsInv
<1> SUFFICES ASSUME KeywordsInit PROVE KeywordsInv
  OBVIOUS
<1>1. edit \in [Edits -> {NoEdit}] /\ \A e \in Edits : edit[e] = NoEdit
  BY DEF KeywordsInit
<1>2. \E S : seen \in [Ids -> S]
  <2>1. seen \in [Ids -> {<< >>}]
    BY DEF KeywordsInit
  <2> QED BY <2>1
<1>3. \A e \in Edits : EditFits(edit[e])
  BY <1>1, NotOpen DEF EditFits, ShownFits
<1>4. keyword \in [Ids -> WordRow \cup {NoKeyword}] /\ Rows = {}
  BY DEF KeywordsInit, NoKeyword, Rows
<1>5. added \in 0..MaxAdded
  BY KeywordsAssumption DEF KeywordsInit
<1> QED BY <1>1, <1>2, <1>3, <1>4, <1>5 DEF KeywordsInv, UsedAsApproved

LEMMA RowsAre ==
    ASSUME KeywordsInv PROVE Rows \subseteq Ids /\ \A i \in Rows : keyword[i] \in WordRow
<1>1. NoKeyword.status = "none"
  BY DEF NoKeyword
<1> QED BY <1>1 DEF KeywordsInv, Rows

LEMMA ContentIs == ASSUME NEW k \in WordRow PROVE Content(k) \in WordContents
BY DEF WordRow, Content, WordContents

\* A request goes on to its next step, and nothing else happens.
LEMMA RequestStep ==
    ASSUME KeywordsInv, NEW e \in Edits, NEW k \in {NoEdit} \cup Starting \cup Choosing \cup Loaded,
           edit' = [edit EXCEPT ![e] = k], UNCHANGED <<keyword, added, seen, unseen>>,
           EditFits(k)
    PROVE  KeywordsInv'
<1>1. /\ edit' \in [Edits -> {NoEdit} \cup Starting \cup Choosing \cup Loaded]
      /\ edit'[e] = k /\ \A f \in Edits \ {e} : edit'[f] = edit[f]
  BY DEF KeywordsInv
<1>2. \A r : EditFits(r)' <=> (EditFits(r))
  BY DEF EditFits, ShownFits, LateFits, ChangeFits, Content, Rows
<1> QED BY <1>1, <1>2 DEF KeywordsInv, UsedAsApproved, Rows, Content

LEMMA LoadNewStep ==
    ASSUME KeywordsInv, NEW e \in Edits, NEW admin \in BOOLEAN, NEW text \in Texts,
           NEW kind \in AdTypes \cup {AllTypes}, NEW p \in Priorities,
           LoadNew(e, admin, text, kind, p)
    PROVE  KeywordsInv'
<1> DEFINE row == [text |-> text, kind |-> kind, priority |-> p, active |-> TRUE,
                   status |-> IF admin THEN "approved" ELSE "pending"]
           k == [open |-> TRUE, does |-> "create", admin |-> admin, id |-> 0, to |-> row]
<1>1. edit' = [edit EXCEPT ![e] = k] /\ UNCHANGED <<keyword, added, seen, unseen>>
  BY DEF LoadNew
<1>2. row \in WordRow /\ (row.status = "approved" => admin)
  BY DEF WordRow
<1> HIDE DEF row
<1>3. k \in Starting /\ k.admin = admin /\ k.to = row /\ k.does = "create"
  BY <1>2 DEF Starting
<1> HIDE DEF k
<1>4. k \notin Choosing \cup Loaded
  BY <1>3 DEF Choosing, Loaded
<1>5. EditFits(k)
  BY <1>2, <1>3, <1>4 DEF EditFits, ShownFits
<1> QED BY <1>1, <1>3, <1>5, RequestStep

LEMMA ShowStep ==
    ASSUME KeywordsInv, NEW e \in Edits, NEW i \in Rows, Show(e, i) PROVE KeywordsInv'
<1> DEFINE c == Content(keyword[i])
           k == [open |-> TRUE, does |-> "choose", admin |-> TRUE, id |-> i,
                 shown |-> c, stale |-> FALSE]
<1>1. edit' = [edit EXCEPT ![e] = k] /\ UNCHANGED <<keyword, added, seen, unseen>>
  BY DEF Show
<1>2. i \in Ids /\ i \in 1..added /\ c \in WordContents
  BY RowsAre, ContentIs DEF KeywordsInv
<1> HIDE DEF c
<1>3. k \in Choosing /\ k.id = i /\ k.shown = c /\ k.does = "choose"
  BY <1>2 DEF Choosing
<1> HIDE DEF k
<1>4. k \notin Starting \cup Loaded
  BY <1>3 DEF Starting, Loaded
<1>5. EditFits(k)
  BY <1>2, <1>3, <1>4 DEF EditFits, ShownFits, c
<1> QED BY <1>1, <1>3, <1>5, RequestStep

LEMMA GoneStep ==
    ASSUME KeywordsInv, NEW e \in Edits, Gone(e) PROVE KeywordsInv'
<1>1. EditFits(NoEdit)
  BY NotOpen DEF EditFits, ShownFits
<1> QED BY <1>1, RequestStep DEF Gone

\* A handler loads row i as it is and what it makes of it.
LEMMA LoadsStep ==
    ASSUME KeywordsInv, NEW e \in Edits, NEW i \in Rows, NEW does \in {"update", "judge"},
           NEW admin \in BOOLEAN, NEW to \in WordRow, Loads(e, i, does, admin, to),
           does = "judge" => admin /\ Content(to) = Content(keyword[i]),
           does = "update" =>
              to.status = IF Content(to) = Content(keyword[i]) THEN keyword[i].status
                          ELSE IF admin THEN "approved" ELSE "pending"
    PROVE  KeywordsInv'
<1> DEFINE old == keyword[i]
           c == IF admin THEN edit[e].shown ELSE << >>
           b == IF admin THEN edit[e].stale ELSE FALSE
           k == [open |-> TRUE, does |-> does, admin |-> admin, id |-> i,
                 shown |-> c, stale |-> b, from |-> old, to |-> to]
<1>1. edit' = [edit EXCEPT ![e] = k] /\ UNCHANGED <<keyword, added, seen, unseen>>
  BY DEF Loads
<1>2. i \in Ids /\ i \in 1..added /\ old \in WordRow
  BY RowsAre DEF KeywordsInv
<1>3. admin => /\ edit[e] \in Choosing /\ edit[e].id = i
               /\ ~edit[e].stale => Content(old) = edit[e].shown
  <2> SUFFICES ASSUME admin
               PROVE  /\ edit[e] \in Choosing /\ edit[e].id = i
                      /\ ~edit[e].stale => Content(old) = edit[e].shown
    OBVIOUS
  <2>1. edit[e].open /\ edit[e].does = "choose" /\ edit[e].id = i
    BY DEF Loads
  <2>2. edit[e] \in Choosing
    BY <2>1, NotOpen DEF KeywordsInv, Starting, Loaded
  <2>3. edit[e].admin /\ EditFits(edit[e])
    BY <2>2 DEF Choosing, KeywordsInv
  <2> QED BY <2>1, <2>2, <2>3 DEF EditFits, ShownFits
<1>4. c \in WordContents \cup {<< >>} /\ b \in BOOLEAN /\ (admin /\ ~b => Content(old) = c)
  BY <1>3 DEF Choosing
<1> HIDE DEF c, b, old
<1>5. /\ k \in Loaded /\ k.id = i /\ k.shown = c /\ k.stale = b /\ k.admin = admin
      /\ k.does = does /\ k.from = old /\ k.to = to
  BY <1>2, <1>4 DEF Loaded
<1> HIDE DEF k
<1>6. k \notin Starting
  BY <1>5 DEF Starting
<1>7. ChangeFits(k)
  BY <1>5 DEF ChangeFits, old
<1>8. LateFits(k)
  BY <1>5 DEF LateFits, old
<1>9. EditFits(k)
  BY <1>2, <1>4, <1>5, <1>6, <1>7, <1>8 DEF EditFits, ShownFits, old
<1> QED BY <1>1, <1>5, <1>9, RequestStep

LEMMA LoadEditStep ==
    ASSUME KeywordsInv, NEW e \in Edits, NEW admin \in BOOLEAN, NEW i \in Rows, NEW text \in Texts,
           NEW kind \in AdTypes \cup {AllTypes}, NEW p \in Priorities, NEW active \in BOOLEAN,
           LoadEdit(e, i, admin, [text |-> text, kind |-> kind, priority |-> p,
                                  active |-> active, status |-> "none"])
    PROVE  KeywordsInv'
<1> DEFINE new == [text |-> text, kind |-> kind, priority |-> p, active |-> active, status |-> "none"]
           old == keyword[i]
           row == Edited(old, admin, new)
<1>1. old \in WordRow
  BY RowsAre
<1>2. row \in WordRow /\ Content(row) = Content(new)
  BY <1>1 DEF WordRow, Edited, Content
<1>3. row.status = IF Content(row) = Content(old) THEN old.status
                   ELSE IF admin THEN "approved" ELSE "pending"
  BY <1>1, <1>2 DEF WordRow, Edited
<1>4. Loads(e, i, "update", admin, row)
  BY DEF LoadEdit
<1> HIDE DEF row
<1> QED BY <1>2, <1>3, <1>4, LoadsStep

LEMMA LoadJudgementStep ==
    ASSUME KeywordsInv, NEW e \in Edits, NEW i \in Rows, NEW status \in {"approved", "rejected"},
           LoadJudgement(e, i, status)
    PROVE  KeywordsInv'
<1> DEFINE row == [keyword[i] EXCEPT !.status = status]
<1>1. keyword[i] \in WordRow
  BY RowsAre
<1>2. row \in WordRow /\ Content(row) = Content(keyword[i])
  BY <1>1 DEF WordRow, Content
<1>3. Loads(e, i, "judge", TRUE, row)
  BY DEF LoadJudgement
<1> HIDE DEF row
<1> QED BY <1>2, <1>3, LoadsStep

-----------------------------------------------------------------------------

LEMMA RemoveStep ==
    ASSUME KeywordsInv, NEW i \in Ids, RemoveKeyword(i) PROVE KeywordsInv'
<1>1. /\ keyword' = [keyword EXCEPT ![i] = NoKeyword] /\ seen' = [seen EXCEPT ![i] = << >>]
      /\ unseen' = unseen \ {i} /\ UNCHANGED <<added, edit>>
  BY DEF RemoveKeyword
<1>2. /\ keyword' \in [Ids -> WordRow \cup {NoKeyword}]
      /\ keyword'[i] = NoKeyword /\ \A j \in Ids \ {i} : keyword'[j] = keyword[j]
  BY <1>1 DEF KeywordsInv
<1>3. Rows' = Rows \ {i} /\ Rows \subseteq Ids
  BY <1>2 DEF Rows, NoKeyword
<1>4. PICK S : seen \in [Ids -> S]
  BY DEF KeywordsInv
<1>5. seen' \in [Ids -> S \cup {<< >>}] /\ \A j \in Ids \ {i} : seen'[j] = seen[j]
  BY <1>1, <1>4
<1>6. \E T : seen' \in [Ids -> T]
  BY <1>5
<1>7. UsedAsApproved'
  BY <1>1, <1>2, <1>3, <1>5 DEF KeywordsInv, UsedAsApproved, Content
<1>8. \A k : EditFits(k) => EditFits(k)'
  BY <1>1, <1>2, <1>3 DEF EditFits, ShownFits, LateFits, ChangeFits, Content
<1> QED BY <1>1, <1>2, <1>3, <1>6, <1>7, <1>8 DEF KeywordsInv

LEMMA CommitNewStep ==
    ASSUME KeywordsInv, NEW e \in Edits, CommitNew(e) PROVE KeywordsInv'
<1> DEFINE to == edit[e].to
           i == added + 1
           x == IF edit[e].admin THEN Content(to) ELSE << >>
<1>1. /\ edit[e].open /\ edit[e].does = "create" /\ added < MaxAdded
      /\ edit' = [edit EXCEPT ![e] = NoEdit] /\ unseen' = unseen
  BY DEF CommitNew
<1>2. edit[e] \in Starting
  BY <1>1, NotOpen DEF KeywordsInv, Choosing, Loaded
<1>3. to \in WordRow /\ (to.status = "approved" => edit[e].admin)
  BY <1>2 DEF Starting, KeywordsInv, EditFits
<1>4. EditFits(NoEdit)
  BY NotOpen DEF EditFits, ShownFits
<1>5. CASE UNCHANGED <<keyword, added, seen>>
  BY <1>1, <1>4, <1>5, RequestStep
<1>6. CASE ~UNCHANGED <<keyword, added, seen>>
  <2>1. added' = i /\ keyword' = [keyword EXCEPT ![i] = to] /\ seen' = [seen EXCEPT ![i] = x]
    BY <1>6 DEF CommitNew
  <2>2. i \in Ids /\ i \in 0..MaxAdded /\ i \notin 1..added /\ 1..added \subseteq 1..i
    BY <1>1, KeywordsAssumption DEF KeywordsInv, Ids
  <2>3. to.status = "approved" => x = Content(to)
    BY <1>3
  <2> HIDE DEF to, i, x
  <2>4. /\ keyword' \in [Ids -> WordRow \cup {NoKeyword}]
        /\ keyword'[i] = to /\ \A j \in Ids \ {i} : keyword'[j] = keyword[j]
    <3>1. keyword \in [Ids -> WordRow \cup {NoKeyword}]
      BY DEF KeywordsInv
    <3> QED BY <1>3, <2>1, <2>2, <3>1
  <2>5. Rows' = Rows \cup {i} /\ Rows' \subseteq 1..i
    <3>1. to.status # "none"
      BY <1>3 DEF WordRow
    <3>2. \A j \in Ids : j \in Rows' <=> j = i \/ j \in Rows
      BY <2>2, <2>4, <3>1 DEF Rows
    <3>3. Rows \subseteq Ids /\ Rows' \subseteq Ids
      BY DEF Rows
    <3>4. Rows \subseteq 1..added
      BY DEF KeywordsInv
    <3>5. i \in 1..i
      BY <2>2, KeywordsAssumption DEF Ids
    <3>6. Rows' = Rows \cup {i}
      BY <2>2, <3>2, <3>3
    <3> QED BY <2>2, <3>4, <3>5, <3>6
  <2>6. PICK S : seen \in [Ids -> S]
    BY DEF KeywordsInv
  <2>7. /\ seen' \in [Ids -> S \cup {x}]
        /\ seen'[i] = x /\ \A j \in Ids \ {i} : seen'[j] = seen[j]
    BY <2>1, <2>2, <2>6
  <2>8. \E T : seen' \in [Ids -> T]
    BY <2>7
  <2>9. UsedAsApproved'
    BY <1>1, <2>3, <2>4, <2>5, <2>7, RowsAre DEF KeywordsInv, UsedAsApproved, Content
  <2>10. /\ edit' \in [Edits -> {NoEdit} \cup Starting \cup Choosing \cup Loaded]
         /\ edit'[e] = NoEdit /\ \A f \in Edits \ {e} : edit'[f] = edit[f]
    BY <1>1 DEF KeywordsInv
  <2>11. ASSUME NEW f \in Edits \ {e} PROVE EditFits(edit[f])'
    <3> DEFINE k == edit[f]
    <3>1. EditFits(k) /\ k' = k
      BY <2>10 DEF KeywordsInv
    <3> HIDE DEF k
    <3>2. k \in Choosing \cup Loaded => k.id \in Ids \ {i} /\ k.id \in 1..i
      BY <2>2, <3>1 DEF EditFits, Choosing, Loaded
    <3> QED BY <1>1, <2>1, <2>4, <2>5, <3>1, <3>2
            DEF EditFits, ShownFits, LateFits, ChangeFits, Content, k
  <2>12. EditFits(edit[e])'
    BY <2>10, NotOpen DEF EditFits, ShownFits
  <2> QED BY <2>1, <2>2, <2>4, <2>5, <2>8, <2>9, <2>10, <2>11, <2>12 DEF KeywordsInv
<1> QED BY <1>5, <1>6

\* The columns that are written, and those that stay.
LEMMA MergedIs ==
    ASSUME NEW i \in Ids, keyword[i] \in WordRow, NEW from \in WordRow, NEW to \in WordRow
    PROVE  /\ Merged(i, from, to) \in WordRow
           /\ Content(to) = Content(from) => Content(Merged(i, from, to)) = Content(keyword[i])
           /\ Content(keyword[i]) = Content(from) => Content(Merged(i, from, to)) = Content(to)
           /\ Merged(i, from, to).status =
                 IF to.status = from.status THEN keyword[i].status ELSE to.status
<1> DEFINE now == Merged(i, from, to)
<1>1. /\ now = [text |-> now.text, kind |-> now.kind, priority |-> now.priority,
                active |-> now.active, status |-> now.status]
      /\ now.text = IF to.text = from.text THEN keyword[i].text ELSE to.text
      /\ now.kind = IF to.kind = from.kind THEN keyword[i].kind ELSE to.kind
      /\ now.priority = IF to.priority = from.priority THEN keyword[i].priority ELSE to.priority
      /\ now.active = IF to.active = from.active THEN keyword[i].active ELSE to.active
      /\ now.status = IF to.status = from.status THEN keyword[i].status ELSE to.status
  BY DEF Merged, WordRow
<1> HIDE DEF now
<1>2. now \in WordRow
  BY <1>1 DEF WordRow
<1> QED BY <1>1, <1>2 DEF now, Content

\* Who is told that the content has changed is as it was but for that.
LEMMA OutdatedFits ==
    ASSUME NEW k \in Choosing \cup Loaded
    PROVE  LET r == [k EXCEPT !.stale = TRUE]
           IN  /\ r \in Choosing \cup Loaded /\ r.stale = TRUE
               /\ r \in Loaded <=> k \in Loaded
               /\ r.admin = k.admin /\ r.id = k.id /\ r.does = k.does
               /\ k \in Loaded => r.from = k.from /\ r.to = k.to
<1> DEFINE r == [k EXCEPT !.stale = TRUE]
<1>1. CASE k \in Choosing
  <2>1. r \in Choosing /\ r.stale = TRUE /\ r.admin = k.admin /\ r.id = k.id /\ r.does = k.does
    BY <1>1 DEF Choosing
  <2>2. k \notin Loaded /\ r \notin Loaded
    BY <1>1, <2>1 DEF Choosing, Loaded
  <2> QED BY <2>1, <2>2
<1>2. CASE k \in Loaded
  <2>1. /\ r \in Loaded /\ r.stale = TRUE /\ r.admin = k.admin /\ r.id = k.id /\ r.does = k.does
        /\ r.from = k.from /\ r.to = k.to
    BY <1>2 DEF Loaded
  <2> QED BY <1>2, <2>1
<1> QED BY <1>1, <1>2

LEMMA CommitEditStep ==
    ASSUME KeywordsInv, NEW e \in Edits, CommitEdit(e) PROVE KeywordsInv'
<1> DEFINE me == edit[e]
           i == edit[e].id
           now == Merged(i, edit[e].from, edit[e].to)
           done == i \in Rows /\ ~Taken(now.text, now.kind, i)
           outdates(k) == /\ done /\ Content(now) # Content(keyword[i])
                          /\ k.open /\ k.does # "create" /\ k.id = i
           blind == edit[e].stale \/ \E f \in Edits \ {e} : Changing(edit[f], i)
           decided == Decides(edit[e]) \/ now.status # "approved"
           x == IF now.status # "approved" THEN << >>
                ELSE IF edit[e].does = "judge" THEN edit[e].shown ELSE Content(edit[e].to)
<1>1. /\ me.open /\ me.does \in {"update", "judge"} /\ added' = added
      /\ edit' = [f \in Edits |-> IF f = e THEN NoEdit
                                  ELSE IF outdates(edit[f]) THEN [edit[f] EXCEPT !.stale = TRUE]
                                  ELSE edit[f]]
      /\ keyword' = IF done THEN [keyword EXCEPT ![i] = now] ELSE keyword
      /\ seen' = IF ~done \/ ~decided THEN seen ELSE [seen EXCEPT ![i] = x]
      /\ unseen' = IF ~done \/ ~decided THEN unseen
                   ELSE IF now.status = "approved" /\ blind THEN unseen \cup {i} ELSE unseen \ {i}
  BY DEF CommitEdit
<1>2. me \in Loaded /\ EditFits(me)
  BY <1>1, NotOpen DEF KeywordsInv, Starting, Choosing
<1>3. i \in Ids /\ me.from \in WordRow /\ me.to \in WordRow
  BY <1>2 DEF Loaded
<1>4. ChangeFits(me) /\ LateFits(me) /\ ShownFits(me)
  BY <1>2 DEF EditFits
<1>5. CASE ~done
  <2>1. edit' = [edit EXCEPT ![e] = NoEdit] /\ UNCHANGED <<keyword, added, seen, unseen>>
    BY <1>1, <1>5 DEF KeywordsInv
  <2>2. EditFits(NoEdit)
    BY NotOpen DEF EditFits, ShownFits
  <2> QED BY <2>1, <2>2, RequestStep
<1>6. CASE done
  <2>1. i \in Rows /\ keyword[i] \in WordRow
    BY <1>6, RowsAre
  <2>2. /\ now \in WordRow
        /\ Content(me.to) = Content(me.from) => Content(now) = Content(keyword[i])
        /\ Content(keyword[i]) = Content(me.from) => Content(now) = Content(me.to)
        /\ now.status = IF me.to.status = me.from.status THEN keyword[i].status ELSE me.to.status
    BY <1>3, <2>1, MergedIs
  <2>3. /\ keyword' = [keyword EXCEPT ![i] = now]
        /\ seen' = IF ~decided THEN seen ELSE [seen EXCEPT ![i] = x]
        /\ unseen' = IF ~decided THEN unseen
                     ELSE IF now.status = "approved" /\ blind THEN unseen \cup {i} ELSE unseen \ {i}
    BY <1>1, <1>6
  \* A row that is approved with no decision was so before.
  <2>4. ~decided => /\ keyword[i].status = "approved" /\ now.status = "approved"
                    /\ i \in unseen \/ Content(now) = Content(keyword[i])
    <3> SUFFICES ASSUME ~decided
                 PROVE  /\ keyword[i].status = "approved" /\ now.status = "approved"
                        /\ i \in unseen \/ Content(now) = Content(keyword[i])
      OBVIOUS
    <3>1. me.does = "update" /\ now.status = "approved"
          /\ (Content(me.to) = Content(me.from) \/ ~me.admin)
      BY <1>1 DEF Decides, Rewrites
    <3> HIDE DEF now, decided, me, i
    <3>2. CASE Content(me.to) = Content(me.from)
      BY <1>4, <2>2, <3>1, <3>2 DEF ChangeFits
    <3>3. CASE Content(me.to) # Content(me.from)
      <4>1. me.to.status = "pending" /\ ~me.admin
        BY <1>4, <3>1, <3>3 DEF ChangeFits
      <4>2. keyword[i].status = "approved" /\ me.from.status = "pending"
        BY <2>2, <3>1, <4>1
      <4>3. me.id = i
        BY DEF me, i
      <4>4. i \in unseen
        BY <1>4, <2>1, <3>3, <4>1, <4>2, <4>3 DEF LateFits
      <4> QED BY <3>1, <4>2, <4>4
    <3> QED BY <3>2, <3>3
  \* A decision that is not blind has been shown what the row says now.
  <2>5. decided /\ now.status = "approved" /\ ~blind => x = Content(now)
    <3> SUFFICES ASSUME decided, now.status = "approved", ~blind PROVE x = Content(now)
      OBVIOUS
    <3>1. Decides(me) /\ ~me.stale
      OBVIOUS
    <3>2. x = IF me.does = "judge" THEN me.shown ELSE Content(me.to)
      OBVIOUS
    <3>3. me.id = i
      OBVIOUS
    <3> HIDE DEF now, x, decided, blind, me, i
    <3>4. me.admin
      BY <1>4, <3>1 DEF Decides, ChangeFits
    <3>5. Content(keyword[i]) = me.shown /\ Content(me.from) = me.shown
      BY <1>2, <1>4, <2>1, <3>1, <3>3, <3>4 DEF ShownFits
    <3>6. CASE me.does = "judge"
      BY <1>4, <2>2, <3>2, <3>5, <3>6 DEF ChangeFits
    <3>7. CASE me.does # "judge"
      BY <2>2, <3>2, <3>5, <3>7
    <3> QED BY <3>6, <3>7
  <2>6. ASSUME NEW f \in Edits \ {e}, edit[f] \in Loaded, LateFits(edit[f]), ~edit[f].admin,
               Content(edit[f].to) # Content(edit[f].from), edit[f].from.status # "approved",
               edit[f].id = i, now.status = "approved"
        PROVE  i \in unseen'
    <3>1. CASE decided
      <4>1. edit[f].open /\ (edit[f].does = "judge" => edit[f].admin)
        BY <2>6 DEF Loaded, KeywordsInv, EditFits, ChangeFits
      <4>2. edit[f].does = "update"
        BY <2>6, <4>1 DEF Loaded
      <4>3. Changing(edit[f], i)
        BY <2>6, <4>1, <4>2 DEF Changing, Rewrites
      <4>4. blind
        BY <4>3
      <4> HIDE DEF now, decided, blind
      <4> QED BY <2>3, <2>6, <3>1, <4>4
    <3>2. CASE ~decided
      <4> HIDE DEF now, decided, blind
      <4> QED BY <2>1, <2>3, <2>4, <2>6, <3>2 DEF LateFits
    <3> QED BY <3>1, <3>2
  <2>7. \A j \in Ids \ {i} : j \in unseen' <=> j \in unseen
    <3> HIDE DEF now, decided, blind
    <3> QED BY <2>3
  <2>8. /\ keyword' \in [Ids -> WordRow \cup {NoKeyword}]
        /\ keyword'[i] = now /\ \A j \in Ids \ {i} : keyword'[j] = keyword[j]
    <3> HIDE DEF now, i
    <3> QED BY <1>3, <2>2, <2>3 DEF KeywordsInv
  <2>9. Rows' = Rows
    <3> HIDE DEF now, i
    <3> QED BY <1>3, <2>1, <2>2, <2>8 DEF Rows, WordRow
  <2>10. \E T : seen' \in [Ids -> T]
    <3>1. PICK S : seen \in [Ids -> S]
      BY DEF KeywordsInv
    <3> HIDE DEF x, decided, i
    <3>2. seen' \in [Ids -> S \cup {x}]
      BY <2>3, <3>1
    <3> QED BY <3>2
  <2>11. UsedAsApproved'
    <3>1. PICK S : seen \in [Ids -> S]
      BY DEF KeywordsInv
    <3> HIDE DEF now, x, decided, blind, i
    <3>2. \A j \in Ids \ {i} : seen'[j] = seen[j]
      BY <2>3, <3>1
    <3>3. decided => seen'[i] = x
      BY <1>3, <2>3, <3>1
    <3>4. ASSUME now.status = "approved", i \notin unseen' PROVE seen'[i] = Content(now)
      <4>1. CASE decided
        BY <2>3, <2>5, <3>3, <3>4, <4>1
      <4>2. CASE ~decided
        <5>1. Content(now) = Content(keyword[i]) /\ keyword[i].status = "approved" /\ i \notin unseen
          BY <2>3, <2>4, <3>4, <4>2
        <5>2. seen[i] = Content(keyword[i])
          BY <2>1, <5>1 DEF KeywordsInv, UsedAsApproved
        <5> QED BY <2>3, <4>2, <5>1, <5>2
      <4> QED BY <4>1, <4>2
    <3>5. \A j \in Rows' : j \in Ids
      BY <2>9, RowsAre
    <3> QED BY <2>7, <2>8, <2>9, <3>2, <3>4, <3>5 DEF KeywordsInv, UsedAsApproved, Content
  <2>12. ASSUME NEW f \in Edits
         PROVE  /\ edit'[f] \in {NoEdit} \cup Starting \cup Choosing \cup Loaded
                /\ EditFits(edit[f])'
    <3>1. CASE f = e
      BY <1>1, <3>1, NotOpen DEF EditFits, ShownFits
    <3>2. CASE f # e /\ edit[f] \in {NoEdit} \cup Starting
      <4>1. edit'[f] = edit[f] /\ edit[f] \notin Choosing \cup Loaded
        BY <1>1, <3>2, NotOpen DEF Starting, Choosing, Loaded
      <4>2. EditFits(edit[f])
        BY DEF KeywordsInv
      <4> QED BY <3>2, <4>1, <4>2 DEF EditFits, ShownFits
    <3>3. CASE f # e /\ edit[f] \in Choosing \cup Loaded
      <4> DEFINE k == edit[f]
                 r == edit'[f]
      <4>1. EditFits(k) /\ k \in Choosing \cup Loaded /\ k.open /\ k.does # "create"
            /\ k.id \in Ids
        BY <3>3 DEF KeywordsInv, Choosing, Loaded
      <4>2. r = IF Content(now) # Content(keyword[i]) /\ k.id = i THEN [k EXCEPT !.stale = TRUE] ELSE k
        BY <1>1, <1>6, <3>3, <4>1
      <4>3. /\ r \in Choosing \cup Loaded
            /\ r \in Loaded <=> k \in Loaded
            /\ r.admin = k.admin /\ r.id = k.id /\ r.does = k.does
            /\ k \in Loaded => r.from = k.from /\ r.to = k.to
            /\ ~r.stale => r = k /\ (k.id = i => Content(now) = Content(keyword[i]))
        <5> HIDE DEF k, r, now, i
        <5>1. CASE Content(now) # Content(keyword[i]) /\ k.id = i
          BY <4>1, <4>2, <5>1, OutdatedFits
        <5>2. CASE ~(Content(now) # Content(keyword[i]) /\ k.id = i)
          BY <4>1, <4>2, <5>2
        <5> QED BY <5>1, <5>2
      <4>4. k \in Loaded /\ LateFits(k) /\ ~k.admin /\ Content(k.to) # Content(k.from)
            /\ k.from.status # "approved" /\ k.id = i /\ now.status = "approved" => i \in unseen'
        BY <2>6, <3>3
      <4>5. r \notin Starting
        BY <4>3 DEF Starting, Choosing, Loaded
      <4>6. \A w : Content(w)' = Content(w)
        BY DEF Content
      <4> HIDE DEF k, r, now, i
      <4>7. keyword'[k.id] = IF k.id = i THEN now ELSE keyword[k.id]
        BY <2>8, <4>1
      <4>8. ~r.stale /\ r.admin => /\ r.id \in Rows' => Content(keyword'[r.id]) = r.shown
                                   /\ r \in Loaded => Content(r.from) = r.shown
        BY <2>1, <2>9, <4>1, <4>3, <4>7 DEF EditFits, ShownFits
      <4>9. r \in Loaded => ChangeFits(r)
        BY <4>1, <4>3 DEF EditFits, ChangeFits
      <4>10. r \in Loaded /\ ~r.admin /\ Content(r.to) # Content(r.from) /\ r.from.status # "approved"
             /\ r.id \in Rows' /\ keyword'[r.id].status = "approved" => r.id \in unseen'
        <5> SUFFICES ASSUME r \in Loaded, ~r.admin, Content(r.to) # Content(r.from),
                            r.from.status # "approved", r.id \in Rows',
                            keyword'[r.id].status = "approved"
                     PROVE  r.id \in unseen'
          OBVIOUS
        <5>1. k \in Loaded /\ LateFits(k) /\ ~k.admin /\ Content(k.to) # Content(k.from)
              /\ k.from.status # "approved" /\ k.id \in Rows
          BY <2>9, <4>1, <4>3 DEF EditFits
        <5>2. CASE k.id = i
          BY <4>3, <4>4, <4>7, <5>1, <5>2
        <5>3. CASE k.id # i
          BY <2>7, <4>1, <4>3, <4>7, <5>1, <5>3 DEF LateFits
        <5> QED BY <5>2, <5>3
      <4>11. r \in Choosing \cup Loaded => r.id \in 1..added'
        BY <1>1, <4>1, <4>3 DEF EditFits
      <4>12. EditFits(edit[f])'
        BY <4>5, <4>6, <4>8, <4>9, <4>10, <4>11
           DEF EditFits, ShownFits, ChangeFits, LateFits, r
      <4> QED BY <4>3, <4>12 DEF r
    <3> QED BY <3>1, <3>2, <3>3 DEF KeywordsInv
  <2>13. edit' \in [Edits -> {NoEdit} \cup Starting \cup Choosing \cup Loaded]
    <3>1. edit' = [f \in Edits |-> edit'[f]]
      BY <1>1
    <3> QED BY <2>12, <3>1
  <2> QED BY <1>1, <2>8, <2>9, <2>10, <2>11, <2>12, <2>13 DEF KeywordsInv
<1> QED BY <1>5, <1>6

LEMMA NextKeywords ==
    ASSUME KeywordsInv, [KeywordsNext]_keywordVars PROVE KeywordsInv'
<1>1. CASE UNCHANGED keywordVars
  BY <1>1 DEF keywordVars, KeywordsInv, EditFits, ShownFits, ChangeFits, LateFits,
              UsedAsApproved, Content, Rows
<1>2. CASE KeywordsNext
  BY <1>2, LoadNewStep, LoadEditStep, LoadJudgementStep, ShowStep, GoneStep, CommitNewStep,
     CommitEditStep, RemoveStep
     DEF KeywordsNext
<1> QED BY <1>1, <1>2

\* Whatever requests overlap, a keyword that is approved is one an
\* administrator wrote or was shown as it is when it decided (update() takes
\* the approval of a changed content away), unless an owner's change of it was
\* under way between what was shown and the decision.
THEOREM ApprovedIsSeen == KeywordsSpec => []UsedAsApproved
<1>1. KeywordsInv /\ [KeywordsNext]_keywordVars => KeywordsInv'
  BY NextKeywords
<1>2. KeywordsInv => UsedAsApproved
  BY DEF KeywordsInv
<1> QED BY <1>1, <1>2, InitKeywords, PTL DEF KeywordsSpec

-----------------------------------------------------------------------------
\* Each usable keyword has one place in the list.
LEMMA EachOnceInList ==
    ASSUME \A i \in Rows : keyword[i].priority \in Nat, Rows \subseteq Nat, IsFiniteSet(Rows), NEW kind
    PROVE  /\ Cardinality(ForKind(kind)) \in Nat
           /\ Usable(kind) \in [1..Cardinality(ForKind(kind)) -> ForKind(kind)]
           /\ \A m, n \in 1..Cardinality(ForKind(kind)) :
                 Usable(kind)[m] = Usable(kind)[n] => m = n
<1> DEFINE S == ForKind(kind)
           before == {p \in S \X S : Sooner(p[1], p[2])}
           below == [x \in S |-> {y \in S : Sooner(y, x)}]
<1>1. S \subseteq Rows
  BY DEF ForKind
<1>2. IsFiniteSet(S) /\ Cardinality(S) \in Nat
  <2> HIDE DEF S
  <2> QED BY <1>1, FS_Subset, FS_CardinalityType
<1>3. \A i \in S : i \in Nat /\ keyword[i].priority \in Nat
  BY <1>1
<1> HIDE DEF S
<1>4. \A n \in 0..(Cardinality(S) - 1) : \E x \in S : Cardinality(below[x]) = n
  <2>1. \A x, y \in S : <<x, y>> \in before <=> Sooner(x, y)
    OBVIOUS
  <2>2. Precede(below, before, S)
    BY DEF Precede
  <2> HIDE DEF before, below
  <2>3. TotalOrder(before, S)
    BY <1>3, <2>1 DEF Sooner, TotalOrder
  <2> HIDE DEF Sooner
  <2> QED BY <1>2, <2>2, <2>3, RankedOnce
<1>5. \A x \in S : Cardinality(below[x]) = Cardinality({y \in S : Sooner(y, x)})
  OBVIOUS
<1> HIDE DEF below
<1>6. \A n \in 1..Cardinality(S) : \E x \in S : Cardinality({y \in S : Sooner(y, x)}) = n - 1
  <2> TAKE n \in 1..Cardinality(S)
  <2>1. n - 1 \in 0..(Cardinality(S) - 1)
    BY <1>2
  <2> QED BY <1>4, <1>5, <2>1
<1>7. Usable(kind) = [n \in 1..Cardinality(S) |->
                         CHOOSE x \in S : Cardinality({y \in S : Sooner(y, x)}) = n - 1]
  BY DEF Usable, S
<1>8. \A n \in 1..Cardinality(S) : /\ Usable(kind)[n] \in S
                                   /\ Cardinality({y \in S : Sooner(y, Usable(kind)[n])}) = n - 1
  BY <1>6, <1>7
<1>9. Usable(kind) \in [1..Cardinality(S) -> S]
  BY <1>7, <1>8
<1> HIDE DEF Usable
<1>10. \A m, n \in 1..Cardinality(S) : Usable(kind)[m] = Usable(kind)[n] => m = n
  <2> SUFFICES ASSUME NEW m \in 1..Cardinality(S), NEW n \in 1..Cardinality(S),
                      Usable(kind)[m] = Usable(kind)[n]
               PROVE  m = n
    OBVIOUS
  <2>1. m - 1 = n - 1
    BY <1>8
  <2> QED BY <1>2, <2>1
<1> QED BY <1>2, <1>9, <1>10 DEF S

\* The days from the first, as many as the list is long, that x is taken.
DaysOf(x, list, first) == {d \in first..(first + Len(list) - 1) : x \in Pick(list, d)}

\* It is taken as often as any other.
LEMMA TakenInTurn ==
    ASSUME NEW n \in Nat, NEW S, NEW list \in [1..n -> S],
           \A x, y \in 1..n : list[x] = list[y] => x = y, NEW i \in 1..n, NEW first \in Nat
    PROVE  Cardinality(DaysOf(list[i], list, first)) = IF PerDispatch < n THEN PerDispatch ELSE n
<1> DEFINE c == IF PerDispatch < n THEN PerDispatch ELSE n
<1>1. n \in Nat \ {0} /\ c \in 1..n /\ Len(list) = n /\ list # << >> /\ i - 1 \in 0..(n - 1)
  BY KeywordsAssumption
<1>2. \A d \in first..(first + n - 1) :
         list[i] \in Pick(list, d) <=> \E k \in 0..(c - 1) : (d + k) % n = i - 1
  <2> TAKE d \in first..(first + n - 1)
  <2>1. Pick(list, d) = {list[((d + k) % n) + 1] : k \in 0..(c - 1)}
    BY <1>1 DEF Pick
  <2> HIDE DEF c
  <2>2. \A k \in 0..(c - 1) : ((d + k) % n) + 1 \in 1..n
    <3> TAKE k \in 0..(c - 1)
    <3>1. d + k \in Int
      BY <1>1
    <3>2. (d + k) % n \in 0..(n - 1)
      BY <1>1, <3>1, Remainder
    <3> QED BY <1>1, <3>2
  <2>3. list[i] \in Pick(list, d) <=> \E k \in 0..(c - 1) : list[i] = list[((d + k) % n) + 1]
    BY <2>1
  <2>4. \A k \in 0..(c - 1) : list[i] = list[((d + k) % n) + 1] <=> (d + k) % n = i - 1
    <3> TAKE k \in 0..(c - 1)
    <3> DEFINE m == (d + k) % n
    <3>1. m + 1 \in 1..n
      BY <2>2
    <3> HIDE DEF m
    <3>2. m \in Int
      <4>1. d + k \in Int
        BY <1>1
      <4> QED BY <1>1, <4>1, Remainder DEF m
    <3>3. list[i] = list[m + 1] <=> m = i - 1
      BY <3>1, <3>2
    <3> QED BY <3>3 DEF m
  <2> QED BY <2>3, <2>4
<1> DEFINE days == DaysOf(list[i], list, first)
           r == i - 1
<1>3. TurnDays(days, n, c, first, r)
  BY <1>1, <1>2 DEF TurnDays, DaysOf
<1>4. r \in 0..(n - 1)
  BY <1>1
<1> HIDE DEF c, r, days
<1>5. Cardinality(days) = c
  BY <1>1, <1>3, <1>4, TurnsOfOne
<1> QED BY <1>5 DEF c, days

\* Whatever priorities the keywords of a shop have, however many a day takes
\* and whatever requests are at work: over as many days as there are usable
\* keywords each is taken equally often (pick_for_date()).
THEOREM KeywordsTakeTurns == KeywordsSpec => []EachTakesItsTurn
<1>1. KeywordsInv => EachTakesItsTurn
  <2> SUFFICES ASSUME KeywordsInv, NEW kind \in AdTypes, NEW first \in 0..MaxKeywords
               PROVE  LET list == Usable(kind)
                          days(i) == {d \in first..(first + Len(list) - 1) : i \in Pick(list, d)}
                      IN  \A i, j \in 1..Len(list) :
                              Cardinality(days(list[i])) = Cardinality(days(list[j]))
    BY DEF EachTakesItsTurn
  <2> DEFINE n == Cardinality(ForKind(kind))
             list == Usable(kind)
             S == ForKind(kind)
  <2>1. /\ IsFiniteSet(Rows) /\ Rows \subseteq Nat
        /\ \A i \in Rows : keyword[i].priority \in Nat
    <3>1. Rows \subseteq Ids /\ \A i \in Rows : keyword[i] \in WordRow
      BY RowsAre
    <3>2. IsFiniteSet(Ids) /\ Ids \subseteq Nat
      <4>1. MaxAdded \in Nat /\ Ids = 1..MaxAdded
        BY KeywordsAssumption DEF Ids
      <4>2. IsFiniteSet(1..MaxAdded)
        BY <4>1, FS_Interval
      <4> QED BY <4>1, <4>2
    <3>3. IsFiniteSet(Rows)
      BY <3>1, <3>2, FS_Subset
    <3> QED BY <3>1, <3>2, <3>3, KeywordsAssumption DEF WordRow
  <2>2. n \in Nat /\ list \in [1..n -> S] /\ \A x, y \in 1..n : list[x] = list[y] => x = y
    BY <2>1, EachOnceInList
  <2>3. first \in Nat
    BY KeywordsAssumption
  <2> HIDE DEF n, list, S
  <2>4. Len(list) = n
    BY <2>2
  <2>5. \A i \in 1..n : Cardinality(DaysOf(list[i], list, first))
                            = IF PerDispatch < n THEN PerDispatch ELSE n
    BY <2>2, <2>3, TakenInTurn
  <2> QED BY <2>4, <2>5 DEF list, DaysOf
<1>2. KeywordsInv /\ [KeywordsNext]_keywordVars => KeywordsInv'
  BY NextKeywords
<1> QED BY <1>1, <1>2, InitKeywords, PTL DEF KeywordsSpec

-----------------------------------------------------------------------------
(* The shares of a shop's sales.                                           *)

SharesFit ==
    /\ rates \in Rates
    /\ share \in [Staff -> 0..100]
    /\ sales \in [Staff \cup {Unattributed} -> [count : Nat, gross : Nat]]
    /\ \A s \in Staff \cup {Unattributed} : sales[s].count = 0 => sales[s].gross = 0

\* What is rounded is off by half a unit at most.
LEMMA RoundedIsNear ==
    ASSUME NEW n \in Int, NEW d \in Nat \ {0}
    PROVE  /\ Rounded(n, d) \in Int
           /\ 2 * (d * Rounded(n, d)) <= 2 * n + d
           /\ 2 * n - d <= 2 * (d * Rounded(n, d))
<1> DEFINE p == (n \div d) % 2
           a == 2 * n + d - 1 + p
           r == Rounded(n, d)
<1>1. n \div d \in Int
  OBVIOUS
<1>2. p \in 0..1
  BY <1>1
<1>3. a \in Int /\ 2 * d \in Nat \ {0}
  BY <1>2
<1>4. r = a \div (2 * d)
  BY DEF Rounded
<1> DEFINE s == a % (2 * d)
<1>5. r \in Int /\ s \in 0..(2 * d - 1) /\ a = r * (2 * d) + s
  <2> DEFINE m == 2 * d
  <2>1. m \in Nat \ {0}
    OBVIOUS
  <2> HIDE DEF m, a
  <2>2. a \div m \in Int /\ a % m \in 0..(m - 1) /\ a = (a \div m) * m + (a % m)
    BY <1>3, <2>1, Division
  <2> QED BY <1>4, <2>2 DEF m
<1>6. r * (2 * d) = 2 * (d * r) /\ d * r \in Int
  BY <1>5
<1> HIDE DEF r, s, p
<1>7. 2 * (d * r) = 2 * n + d - 1 + p - s
  BY <1>2, <1>5, <1>6
<1>8. 2 * (d * r) <= 2 * n + d /\ 2 * n - d <= 2 * (d * r)
  BY <1>2, <1>5, <1>6, <1>7
<1> QED BY <1>5, <1>8 DEF r

\* Nothing is rounded to nothing.
LEMMA NothingStays ==
    ASSUME NEW d \in Nat \ {0}
    PROVE  Rounded(0, d) = 0
<1> DEFINE r == Rounded(0, d)
<1>1. r \in Int /\ 2 * (d * r) <= 2 * 0 + d /\ 2 * 0 - d <= 2 * (d * r)
  BY RoundedIsNear
<1> HIDE DEF r
<1>2. r >= 1 => d * r >= d
  BY <1>1
<1>3. r <= -1 => d * r <= -d
  BY <1>1
<1>4. d * r \in Int
  BY <1>1
<1> QED BY <1>1, <1>2, <1>3, <1>4 DEF r

\* A part in hundredths of an amount is between nothing and the amount.
LEMMA PartIsWithin ==
    ASSUME NEW n \in Int, NEW x \in 0..100
    PROVE  Rounded(n * x, 100) \in (0..n) \cup (n..0)
<1> DEFINE p == n * x
           r == Rounded(p, 100)
<1>1. p \in Int
  OBVIOUS
<1>2. n >= 0 => 0 <= p /\ p <= 100 * n
  <2>1. n >= 0 => (100 - x) * n >= 0 /\ n * x >= 0
    OBVIOUS
  <2>2. 100 * n = n * x + (100 - x) * n
    OBVIOUS
  <2> QED BY <2>1, <2>2
<1>3. n <= 0 => 100 * n <= p /\ p <= 0
  <2> DEFINE m == -n
  <2>1. m >= 0 => (100 - x) * m >= 0 /\ m * x >= 0
    OBVIOUS
  <2>2. 100 * n = n * x - (100 - x) * m /\ n * x = -(m * x)
    OBVIOUS
  <2> QED BY <2>1, <2>2
<1> HIDE DEF p
<1>4. r \in Int /\ 2 * (100 * r) <= 2 * p + 100 /\ 2 * p - 100 <= 2 * (100 * r)
  BY <1>1, RoundedIsNear
<1> HIDE DEF r
<1>5. r \in (0..n) \cup (n..0)
  BY <1>1, <1>2, <1>3, <1>4
<1> QED BY <1>5 DEF r, p

\* Two parts of amounts m apart are rounded to no more than m apart.
LEMMA PartsAreNear ==
    ASSUME NEW a \in Int, NEW b \in Int, NEW m \in Nat, a - b <= m, NEW x \in 0..100
    PROVE  Rounded(a * x, 100) - Rounded(b * x, 100) <= m
<1> DEFINE p == a * x
           q == b * x
           r == Rounded(p, 100)
           s == Rounded(q, 100)
<1>1. p \in Int /\ q \in Int
  OBVIOUS
<1> HIDE DEF p, q
<1>2. r \in Int /\ 2 * (100 * r) <= 2 * p + 100
  BY <1>1, RoundedIsNear
<1>3. s \in Int /\ 2 * q - 100 <= 2 * (100 * s)
  BY <1>1, RoundedIsNear
<1>4. p - q <= m * x /\ m * x <= m * 100 /\ m * x \in Int
  <2>1. a * x - b * x = (a - b) * x
    OBVIOUS
  <2>2. (m - (a - b)) * x >= 0 /\ (m - (a - b)) * x = m * x - (a - b) * x
    OBVIOUS
  <2>3. m * (100 - x) >= 0 /\ m * (100 - x) = m * 100 - m * x
    OBVIOUS
  <2> QED BY <2>1, <2>2, <2>3 DEF p, q
<1>5. ASSUME r - s = m + 1 PROVE FALSE
  <2> HIDE DEF r, s
  <2>1. /\ 200 * r = 2 * p + 100 /\ 200 * s = 2 * q - 100
        /\ m * x = m * 100 /\ p - q = m * x
    BY <1>1, <1>2, <1>3, <1>4, <1>5
  <2>2. CASE m = 0
    <3>1. p = q
      BY <1>1, <2>1, <2>2
    <3>2. r = s
      BY <3>1 DEF r, s
    <3> QED BY <1>2, <1>5, <2>2, <3>2
  <2>3. CASE m # 0
    <3>1. x = 100
      <4>1. m * (100 - x) = 0
        BY <2>1
      <4>2. 100 - x >= 1 => m * (100 - x) >= m
        OBVIOUS
      <4> QED BY <2>3, <4>1, <4>2
    <3>2. q = b * 100
      BY <3>1 DEF q
    <3> QED BY <1>3, <2>1, <3>2
  <2> QED BY <2>2, <2>3
<1> HIDE DEF r, s
<1>6. r - s < m + 2
  BY <1>1, <1>2, <1>3, <1>4
<1> QED BY <1>2, <1>3, <1>5, <1>6 DEF p, q, r, s

-----------------------------------------------------------------------------
(* What is split over some weights.                                        *)

\* a splits total over n weights that come to all: it adds up, every part but
\* the last is off by half a unit at most, and the last by that of the others.
Splits(a, n, total, w, all) ==
    /\ a \in [1..n -> Int] /\ SumFunctionOnSet(a, 1..n) = total
    /\ all = 0 => \A i \in 1..n : a[i] = IF i < n THEN 0 ELSE total
    /\ \A i \in 1..n : LET off == 2 * (a[i] * all - total * w[i])
                           slack == IF i < n THEN 1 ELSE n - 1
                       IN  off <= slack * all /\ -off <= slack * all

LEMMA SplitsFairly ==
    ASSUME NEW n \in Nat \ {0}, NEW w \in [1..n -> Nat], NEW total \in Int, NEW all,
           all = SumFunctionOnSet(w, 1..n), NEW a \in [1..n -> Int],
           all = 0 => \A i \in 1..(n - 1) : a[i] = 0,
           all # 0 => \A i \in 1..(n - 1) : a[i] = Rounded(total * w[i], all),
           a[n] = total - SumFunctionOnSet(a, 1..(n - 1))
    PROVE  Splits(a, n, total, w, all)
<1> DEFINE S == 1..n
           R == 1..(n - 1)
<1>1. IsFiniteSet(S) /\ IsFiniteSet(R) /\ n \in S /\ S \ {n} = R /\ R \subseteq S
  <2>1. n \in Int /\ n - 1 \in Int
    OBVIOUS
  <2>2. IsFiniteSet(1..n) /\ IsFiniteSet(1..(n - 1))
    BY <2>1, FS_Interval
  <2> QED BY <2>2
<1>2. Cardinality(R) = n - 1
  <2> DEFINE m == n - 1
  <2>1. m \in Nat
    OBVIOUS
  <2> HIDE DEF m
  <2>2. Cardinality(1..m) = IF 1 > m THEN 0 ELSE m - 1 + 1
    BY <2>1, FS_Interval
  <2>3. Cardinality(1..m) = m
    BY <2>1, <2>2
  <2> QED BY <2>3 DEF m
<1>3. all \in Nat
  BY <1>1, SumNotNegative
<1>4. \A i \in S : a[i] \in Int /\ w[i] \in Int
  OBVIOUS
<1> HIDE DEF S, R
<1>5. SumFunctionOnSet(a, S) = a[n] + SumFunctionOnSet(a, R) /\ SumFunctionOnSet(a, R) \in Int
  <2>1. \A i \in S : a[i] \in Int
    BY <1>4
  <2>2. \A i \in R : a[i] \in Int
    BY <1>1, <2>1
  <2>3. \A i \in S : SumFunctionOnSet(a, S) = a[i] + SumFunctionOnSet(a, S \ {i})
    BY <1>1, <2>1, SumTakesAny, ZenonT(60)
  <2>4. SumFunctionOnSet(a, R) \in Int
    BY <1>1, <2>2, SumType
  <2> QED BY <1>1, <2>3, <2>4
<1>6. SumFunctionOnSet(w, S) = w[n] + SumFunctionOnSet(w, R) /\ SumFunctionOnSet(w, R) \in Int
  <2>1. \A i \in S : w[i] \in Int
    BY <1>4
  <2>2. \A i \in R : w[i] \in Int
    BY <1>1, <2>1
  <2>3. \A i \in S : SumFunctionOnSet(w, S) = w[i] + SumFunctionOnSet(w, S \ {i})
    BY <1>1, <2>1, SumTakesAny, ZenonT(60)
  <2>4. SumFunctionOnSet(w, R) \in Int
    BY <1>1, <2>2, SumType
  <2> QED BY <1>1, <2>3, <2>4
<1>7. SumFunctionOnSet(a, S) = total
  BY <1>1, <1>4, <1>5 DEF R
<1>8. ASSUME NEW i \in R
      PROVE  /\ 2 * (a[i] * all - total * w[i]) <= all
             /\ -(2 * (a[i] * all - total * w[i])) <= all
  <2>1. a[i] \in Int /\ w[i] \in Nat /\ total * w[i] \in Int
    BY <1>1, <1>8 DEF S
  <2>2. CASE all # 0
    <3> DEFINE p == total * w[i]
               r == Rounded(p, all)
    <3>1. a[i] = r /\ p \in Int
      BY <2>1, <2>2 DEF R
    <3> HIDE DEF p
    <3>2. r \in Int /\ 2 * (all * r) <= 2 * p + all /\ 2 * p - all <= 2 * (all * r)
      BY <1>3, <2>2, <3>1, RoundedIsNear
    <3> HIDE DEF r
    <3>3. a[i] * all = all * r /\ all * r \in Int
      <4>1. all \in Int /\ r \in Int
        BY <1>3, <3>2
      <4> HIDE DEF r
      <4>2. r * all = all * r /\ all * r \in Int
        BY <4>1
      <4> QED BY <3>1, <4>2
    <3> DEFINE t == a[i] * all
    <3>4. t \in Int /\ 2 * t <= 2 * p + all /\ 2 * p - all <= 2 * t
      BY <1>3, <3>1, <3>2, <3>3
    <3> HIDE DEF t
    <3>5. 2 * (t - p) <= all /\ -(2 * (t - p)) <= all
      BY <1>3, <3>1, <3>4
    <3> QED BY <3>5 DEF p, t
  <2>3. CASE all = 0
    <3>1. w[i] = 0
      <4>1. \A j \in S \ {i} : w[j] >= 0
        BY DEF S
      <4>2. IsFiniteSet({i}) /\ {i} \subseteq S
        BY <1>1, FS_Singleton
      <4>3. SumFunctionOnSet(w, {i}) <= SumFunctionOnSet(w, S)
        <5>1. \A j \in S : w[j] \in Int
          BY <1>4
        <5> QED BY <1>1, <4>1, <4>2, <5>1, SumOfFewer
      <4>4. SumFunctionOnSet(w, {i}) = w[i]
        <5>1. w[i] \in Int
          BY <2>1
        <5> QED BY <5>1, SumOfOne
      <4> QED BY <2>1, <2>3, <4>3, <4>4 DEF S
    <3>2. a[i] = 0
      BY <2>3 DEF R
    <3> QED BY <2>3, <3>1, <3>2
  <2> QED BY <2>2, <2>3
<1> DEFINE p == -2 * total
           q == 2 * all
           off == [i \in R |-> p * w[i] + q * a[i]]
           back == [i \in R |-> (-p) * w[i] + (-q) * a[i]]
           A == SumFunctionOnSet(a, R)
           W == SumFunctionOnSet(w, R)
<1>9. /\ p \in Int /\ q \in Int /\ -p \in Int /\ -q \in Int
      /\ \A x \in Int : /\ p * x = -2 * (total * x) /\ q * x = 2 * (x * all)
                        /\ (-p) * x = 2 * (total * x) /\ (-q) * x = -2 * (x * all)
                        /\ total * x \in Int /\ x * all \in Int
  <2>1. p \in Int /\ q \in Int /\ -p \in Int /\ -q \in Int
    BY <1>3
  <2>2. ASSUME NEW x \in Int PROVE p * x = -2 * (total * x) /\ total * x \in Int
    OBVIOUS
  <2>3. ASSUME NEW x \in Int PROVE q * x = 2 * (x * all) /\ x * all \in Int
    BY <1>3
  <2>4. ASSUME NEW x \in Int PROVE (-p) * x = 2 * (total * x)
    OBVIOUS
  <2>5. ASSUME NEW x \in Int PROVE (-q) * x = -2 * (x * all)
    BY <1>3
  <2> QED BY <2>1, <2>2, <2>3, <2>4, <2>5
<1> HIDE DEF p, q
<1>10. ASSUME NEW i \in R
       PROVE  /\ w[i] \in Int /\ a[i] \in Int
              /\ off[i] = 2 * (a[i] * all - total * w[i])
              /\ back[i] = -(2 * (a[i] * all - total * w[i]))
              /\ off[i] \in Int /\ back[i] \in Int
  <2>1. w[i] \in Int /\ a[i] \in Int
    BY <1>1, <1>4
  <2>2. /\ p * w[i] = -2 * (total * w[i]) /\ q * a[i] = 2 * (a[i] * all)
        /\ (-p) * w[i] = 2 * (total * w[i]) /\ (-q) * a[i] = -2 * (a[i] * all)
        /\ total * w[i] \in Int /\ a[i] * all \in Int
    BY <1>9, <2>1, Zenon
  <2> DEFINE u == total * w[i]
             v == a[i] * all
  <2>3. /\ off[i] = -2 * u + 2 * v /\ back[i] = 2 * u + -2 * v /\ u \in Int /\ v \in Int
    BY <2>2
  <2> HIDE DEF u, v
  <2>4. /\ off[i] = 2 * (v - u) /\ back[i] = -(2 * (v - u))
        /\ off[i] \in Int /\ back[i] \in Int
    BY <2>3
  <2> QED BY <2>1, <2>4 DEF u, v
<1> HIDE DEF p, q
<1>11. /\ SumFunctionOnSet(off, R) = p * W + q * A
       /\ SumFunctionOnSet(back, R) = (-p) * W + (-q) * A
  <2>1. Combines(off, w, a, R, p, q)
    BY <1>10 DEF Combines
  <2>2. Combines(back, w, a, R, -p, -q)
    BY <1>10 DEF Combines
  <2> HIDE DEF off, back
  <2>3. SumFunctionOnSet(off, R)
          = p * SumFunctionOnSet(w, R) + q * SumFunctionOnSet(a, R)
    BY <1>1, <1>9, <2>1, SumCombined
  <2> DEFINE pp == -p
             qq == -q
  <2>4. pp \in Int /\ qq \in Int /\ Combines(back, w, a, R, pp, qq)
    BY <1>9, <2>2
  <2> HIDE DEF pp, qq
  <2>5. SumFunctionOnSet(back, R)
          = pp * SumFunctionOnSet(w, R) + qq * SumFunctionOnSet(a, R)
    BY <1>1, <2>2, <2>4, SumCombined
  <2> QED BY <2>3, <2>5 DEF pp, qq, A, W
<1> HIDE DEF off, back
<1>12. A \in Int /\ W \in Int /\ A = total - a[n] /\ W = all - w[n] /\ a[n] \in Int /\ w[n] \in Int
  BY <1>1, <1>3, <1>4, <1>5, <1>6 DEF R, S
<1> HIDE DEF A, W
<1>13. /\ p * W + q * A = -(2 * (a[n] * all - total * w[n]))
       /\ (-p) * W + (-q) * A = 2 * (a[n] * all - total * w[n])
       /\ a[n] * all - total * w[n] \in Int
  <2> DEFINE u == total * w[n]
             v == a[n] * all
             t == total * all
  <2>1. u \in Int /\ v \in Int /\ t \in Int
    BY <1>3, <1>12
  <2>2. total * W = t - u /\ A * all = t - v
    BY <1>3, <1>12, SMTT(30)
  <2>3. /\ p * W = -2 * (total * W) /\ q * A = 2 * (A * all)
        /\ (-p) * W = 2 * (total * W) /\ (-q) * A = -2 * (A * all)
    BY <1>9, <1>12, Zenon
  <2> HIDE DEF u, v, t
  <2>4. /\ p * W + q * A = -(2 * (v - u)) /\ (-p) * W + (-q) * A = 2 * (v - u)
        /\ v - u \in Int
    BY <2>1, <2>2, <2>3
  <2> QED BY <2>4 DEF u, v
<1>14. SumFunctionOnSet(off, R) <= (n - 1) * all /\ SumFunctionOnSet(back, R) <= (n - 1) * all
  <2>1. \A i \in R : off[i] \in Int /\ off[i] <= all
    BY <1>8, <1>10
  <2>2. \A i \in R : back[i] \in Int /\ back[i] <= all
    BY <1>8, <1>10
  <2>3. all \in Int
    BY <1>3
  <2>4. SumFunctionOnSet(off, R) <= Cardinality(R) * all
    BY <1>1, <2>1, <2>3, SumWithin
  <2>5. SumFunctionOnSet(back, R) <= Cardinality(R) * all
    BY <1>1, <2>2, <2>3, SumWithin
  <2> QED BY <1>2, <2>4, <2>5
<1>15. /\ 2 * (a[n] * all - total * w[n]) <= (n - 1) * all
       /\ -(2 * (a[n] * all - total * w[n])) <= (n - 1) * all
  <2> DEFINE o == a[n] * all - total * w[n]
             m == (n - 1) * all
  <2>1. o \in Int /\ m \in Int
    BY <1>3, <1>13
  <2> HIDE DEF o, m
  <2>2. SumFunctionOnSet(off, R) = -(2 * o)
    BY <1>11, <1>13 DEF o
  <2>3. SumFunctionOnSet(back, R) = 2 * o
    BY <1>11, <1>13 DEF o
  <2>4. 2 * o <= m /\ -(2 * o) <= m
    BY <1>14, <2>1, <2>2, <2>3 DEF m
  <2> QED BY <2>4 DEF o, m
<1>16. ASSUME NEW i \in 1..n
       PROVE  LET o == 2 * (a[i] * all - total * w[i])
                  slack == IF i < n THEN 1 ELSE n - 1
              IN  o <= slack * all /\ -o <= slack * all
  <2>1. CASE i = n
    BY <1>15, <2>1
  <2>2. CASE i # n
    <3>1. i \in R /\ i < n
      BY <2>2 DEF R
    <3>2. 1 * all = all
      BY <1>3
    <3> QED BY <1>8, <3>1, <3>2
  <2> QED BY <2>1, <2>2
<1>17. SumFunctionOnSet(a, 1..n) = total
  BY <1>7 DEF S
<1>18. all = 0 => \A i \in 1..n : a[i] = IF i < n THEN 0 ELSE total
  <2> SUFFICES ASSUME all = 0, NEW i \in 1..n PROVE a[i] = IF i < n THEN 0 ELSE total
    OBVIOUS
  <2>1. \A j \in R : a[j] = 0
    BY DEF R
  <2>2. SumFunctionOnSet(a, R) = 0
    BY <1>1, <2>1, SumOfZeros
  <2>3. a[n] = total
    BY <1>12, <2>2 DEF A
  <2> QED BY <2>1, <2>3 DEF R
<1> QED BY <1>16, <1>17, <1>18 DEF Splits

\* _allocate_with_remainder() splits what it is given.
LEMMA AllocateSplits ==
    ASSUME NEW n \in Nat \ {0}, NEW w \in [1..n -> Nat], NEW total \in Int
    PROVE  Splits(AllocateWithRemainder(total, w), n, total, w, SumFunctionOnSet(w, 1..n))
<1> DEFINE all == SumFunctionOnSet(w, 1..n)
           part == [i \in 1..n |-> IF all = 0 THEN 0 ELSE Rounded(total * w[i], all)]
           a == [i \in 1..n |-> IF i < n THEN part[i]
                                ELSE total - SumFunctionOnSet(part, 1..(n - 1))]
<1>1. Len(w) = n /\ Total(w) = all
  BY DEF Total, SumFunction
<1>2. AllocateWithRemainder(total, w) = a
  BY <1>1 DEF AllocateWithRemainder
<1>3. IsFiniteSet(1..n) /\ IsFiniteSet(1..(n - 1))
  <2>1. n \in Int /\ n - 1 \in Int
    OBVIOUS
  <2> QED BY <2>1, FS_Interval
<1>4. all \in Nat
  BY <1>3, SumNotNegative
<1> HIDE DEF all
<1>5. \A i \in 1..n : part[i] \in Int
  <2> SUFFICES ASSUME NEW i \in 1..n, all # 0 PROVE Rounded(total * w[i], all) \in Int
    OBVIOUS
  <2> DEFINE p == total * w[i]
  <2>1. p \in Int
    OBVIOUS
  <2> HIDE DEF p
  <2>2. Rounded(p, all) \in Int
    BY <1>4, <2>1, RoundedIsNear
  <2> QED BY <2>2 DEF p
<1>6. \A i \in 1..(n - 1) : part[i] \in Int /\ part[i] = a[i]
  BY <1>5
<1>7. n \in 1..n /\ a[n] = total - SumFunctionOnSet(part, 1..(n - 1))
  OBVIOUS
<1>8. /\ all = 0 => \A i \in 1..(n - 1) : a[i] = 0
      /\ all # 0 => \A i \in 1..(n - 1) : a[i] = Rounded(total * w[i], all)
  OBVIOUS
<1>9. SumFunctionOnSet(part, 1..(n - 1)) \in Int
  BY <1>3, <1>6, SumType
<1>10. a \in [1..n -> Int]
  BY <1>5, <1>9
<1> HIDE DEF part, a
<1>11. SumFunctionOnSet(part, 1..(n - 1)) = SumFunctionOnSet(a, 1..(n - 1))
  BY <1>3, <1>6, SumOfSame
<1>12. Splits(a, n, total, w, all)
  BY <1>7, <1>8, <1>10, <1>11, SplitsFairly DEF all
<1> QED BY <1>2, <1>12 DEF all

\* What a row is charged is near what is charged for its sales alone.
NearlyCharged(f, o, t, k, g, all, slack) ==
    /\ f \in Int /\ o \in Int /\ t \in Int /\ k \in Int /\ g \in Nat
    /\ all \in Nat \ {0} /\ g <= all /\ slack \in Nat \ {0}
    /\ 2 * (f * all - t * g) <= slack * all
    /\ 2 * (1000 * t) <= 2 * (all * k) + 1000
    /\ 2 * (g * k) - 1000 <= 2 * (1000 * o)

LEMMA ChargeIsNear ==
    ASSUME NEW f, NEW o, NEW t, NEW k, NEW g, NEW all, NEW slack,
           NearlyCharged(f, o, t, k, g, all, slack)
    PROVE  f - o <= slack
<1>0. /\ f \in Int /\ o \in Int /\ t \in Int /\ k \in Int /\ g \in Nat
      /\ all \in Nat \ {0} /\ g <= all /\ slack \in Nat \ {0}
      /\ 2 * (f * all - t * g) <= slack * all
      /\ 2 * (1000 * t) <= 2 * (all * k) + 1000
      /\ 2 * (g * k) - 1000 <= 2 * (1000 * o)
  BY DEF NearlyCharged
<1> DEFINE fa == f * all
           tg == t * g
           oa == o * all
           agk == all * (g * k)
           sa == slack * all
<1>1. fa \in Int /\ tg \in Int /\ oa \in Int /\ agk \in Int /\ sa \in Int /\ sa >= 1
  BY <1>0
<1>2. 2000 * tg <= 2 * agk + 1000 * g
  <2> DEFINE d == 2 * (all * k) + 1000 - 2 * (1000 * t)
  <2>1. d \in Nat
    BY <1>0
  <2>2. d * g >= 0
    BY <1>0, <2>1
  <2>3. d * g = 2 * ((all * k) * g) + 1000 * g - 2000 * (t * g)
    BY <1>0
  <2>4. (all * k) * g = all * (g * k)
    BY <1>0
  <2> QED BY <1>0, <2>2, <2>3, <2>4
<1>3. 2 * agk - 1000 * all <= 2000 * oa
  <2> DEFINE d == 2 * (1000 * o) - 2 * (g * k) + 1000
  <2>1. d \in Nat
    BY <1>0
  <2>2. d * all >= 0
    BY <1>0, <2>1
  <2>3. d * all = 2000 * (o * all) - 2 * (all * (g * k)) + 1000 * all
    BY <1>0
  <2> QED BY <1>0, <2>2, <2>3
<1>4. 2 * (fa - tg) <= sa
  BY <1>0
<1>5. f - o >= slack + 1 => fa - oa >= sa + all
  <2> SUFFICES ASSUME f - o >= slack + 1 PROVE fa - oa >= sa + all
    BY <1>0
  <2> DEFINE d == f - o - slack - 1
  <2>1. d \in Nat
    BY <1>0
  <2>2. d * all >= 0
    BY <1>0, <2>1
  <2>3. d * all = f * all - o * all - slack * all - all
    BY <1>0
  <2> QED BY <1>0, <2>2, <2>3
<1> HIDE DEF fa, tg, oa, agk, sa
<1>6. ~(f - o >= slack + 1)
  BY <1>0, <1>1, <1>2, <1>3, <1>4, <1>5
<1> QED BY <1>0, <1>6

\* The fees of an amount of sales; the platform loses a won at most.
LEMMA FeesAre ==
    ASSUME rates \in Rates, NEW g \in Nat
    PROVE  LET d == FeeDistribution(g)
           IN  /\ d.fee \in Int /\ d.cost \in Int /\ d.commission \in Int /\ d.net \in Int
               /\ d.net = g - d.fee /\ d.profit >= -1
               /\ d.fee = Rounded(g * rates.fee * 11, 1000)
<1> DEFINE a == g * rates.fee * 11
           b == g * rates.cost * 11
           c == g * rates.commission
           x == Rounded(a, 1000)
           y == Rounded(b, 1000)
           z == Rounded(c, 100)
<1>1. /\ rates.fee \in Nat /\ rates.cost \in Nat /\ rates.commission \in Nat
      /\ rates.commission <= rates.fee - rates.cost
  BY SharesAssumption
<1>2. a \in Int /\ b \in Int /\ c \in Int
  BY <1>1
<1>3. a - b >= 11 * c /\ c >= 0
  <2> DEFINE e == rates.fee - rates.cost - rates.commission
  <2>1. e \in Nat
    BY <1>1
  <2>2. g * e >= 0 /\ g * rates.commission >= 0
    BY <1>1, <2>1
  <2>3. g * e = g * rates.fee - g * rates.cost - g * rates.commission
    BY <1>1
  <2>4. a = 11 * (g * rates.fee) /\ b = 11 * (g * rates.cost)
    BY <1>1
  <2>5. g * rates.fee \in Int /\ g * rates.cost \in Int /\ g * rates.commission \in Int
    BY <1>1
  <2> QED BY <2>2, <2>3, <2>4, <2>5
<1> HIDE DEF a, b, c
<1>4. x \in Int /\ 2 * a - 1000 <= 2 * (1000 * x)
  BY <1>2, RoundedIsNear
<1>5. y \in Int /\ 2 * (1000 * y) <= 2 * b + 1000
  BY <1>2, RoundedIsNear
<1>6. z \in Int /\ 2 * (100 * z) <= 2 * c + 100
  BY <1>2, RoundedIsNear
<1>7. FeeDistribution(g) = [fee |-> x, cost |-> y, commission |-> z,
                            profit |-> x - y - z, net |-> g - x]
  BY DEF FeeDistribution, a, b, c
<1> HIDE DEF x, y, z
<1>8. x - y - z >= -1
  BY <1>2, <1>3, <1>4, <1>5, <1>6
<1>9. x = Rounded(g * rates.fee * 11, 1000)
  BY DEF x, a
<1> QED BY <1>4, <1>5, <1>6, <1>7, <1>8, <1>9

-----------------------------------------------------------------------------
(* Each unit with sales has one row.                                       *)

Parties == Staff \cup {Unattributed}
Selling == {s \in Parties : sales[s].count > 0}

\* list names every member of S, once.
Names(list, S) ==
    /\ list \in [1..Len(list) -> S] /\ Len(list) \in Nat
    /\ \A i, j \in 1..Len(list) : list[i] = list[j] => i = j
    /\ {list[i] : i \in 1..Len(list)} = S

RankedSellers ==
    [n \in 1..Cardinality(Sellers) |->
        CHOOSE s \in Sellers : Cardinality({u \in Sellers : Better(u, s)}) = n - 1]

LEMMA SellersAreRanked == SharesFit => Names(RankedSellers, Sellers)
<1> SUFFICES ASSUME SharesFit PROVE Names(RankedSellers, Sellers)
  OBVIOUS
<1> DEFINE S == Sellers
           m == Cardinality(S)
           L == RankedSellers
           before == {p \in S \X S : Better(p[1], p[2])}
           below == [x \in S |-> {y \in S : Better(y, x)}]
<1>1. S \subseteq Staff /\ \A s \in S : s \in Nat /\ sales[s].gross \in Nat
  BY SharesAssumption DEF Sellers, SharesFit
<1>2. IsFiniteSet(S) /\ m \in Nat
  <2> HIDE DEF S
  <2> QED BY <1>1, SharesAssumption, FS_Subset, FS_CardinalityType
<1>3. L = [n \in 1..m |-> CHOOSE x \in S : Cardinality({y \in S : Better(y, x)}) = n - 1]
  BY DEF RankedSellers
<1> HIDE DEF S, L
<1>4. \A n \in 0..(Cardinality(S) - 1) : \E x \in S : Cardinality(below[x]) = n
  <2>1. \A x, y \in S : <<x, y>> \in before <=> Better(x, y)
    OBVIOUS
  <2>2. Precede(below, before, S)
    BY DEF Precede
  <2> HIDE DEF before, below
  <2>3. TotalOrder(before, S)
    BY <1>1, <2>1 DEF Better, TotalOrder
  <2> HIDE DEF Better
  <2> QED BY <1>2, <2>2, <2>3, RankedOnce
<1>5. \A x \in S : Cardinality(below[x]) = Cardinality({y \in S : Better(y, x)})
  OBVIOUS
<1> HIDE DEF below
<1>6. \A n \in 1..m : \E x \in S : Cardinality({y \in S : Better(y, x)}) = n - 1
  <2> TAKE n \in 1..m
  <2>1. n - 1 \in 0..(m - 1)
    BY <1>2
  <2> QED BY <1>4, <1>5, <2>1
<1>7. \A n \in 1..m : L[n] \in S /\ Cardinality({y \in S : Better(y, L[n])}) = n - 1
  BY <1>3, <1>6
<1>8. L \in [1..m -> S] /\ Len(L) = m
  <2> HIDE DEF m
  <2>1. L \in [1..m -> S]
    BY <1>3, <1>7
  <2> QED BY <1>2, <2>1
<1>9. \A i, j \in 1..m : L[i] = L[j] => i = j
  <2> SUFFICES ASSUME NEW i \in 1..m, NEW j \in 1..m, L[i] = L[j] PROVE i = j
    OBVIOUS
  <2>1. i - 1 = j - 1
    BY <1>7
  <2> QED BY <1>2, <2>1
<1>10. {L[i] : i \in 1..m} = S
  <2>1. L \in Injection(1..m, S)
    BY <1>8, <1>9 DEF Injection, IsInjective
  <2>2. IsFiniteSet(1..m) /\ Cardinality(1..m) = m
    BY <1>2, FS_Interval
  <2>3. L \in Surjection(1..m, S)
    BY <1>2, <2>1, <2>2, FS_Injection
  <2> QED BY <1>8, <2>3 DEF Surjection
<1> QED BY <1>2, <1>8, <1>9, <1>10 DEF Names, S, L

LEMMA UnitsAreNamed == SharesFit => Names(Units, Selling)
<1> SUFFICES ASSUME SharesFit PROVE Names(Units, Selling)
  OBVIOUS
<1> DEFINE L == RankedSellers
           m == Len(L)
           R == IF sales[Unattributed].count > 0 THEN <<Unattributed>> ELSE << >>
           k == IF sales[Unattributed].count > 0 THEN 1 ELSE 0
<1>1. Names(L, Sellers)
  BY SellersAreRanked
<1>2. Units = L \o R
  BY DEF Units, RankedSellers
<1>3. Sellers \subseteq Parties /\ Unattributed \in Parties /\ Unattributed \notin Sellers
  BY SharesAssumption DEF Parties, Sellers
<1>4. Selling = Sellers \cup (IF sales[Unattributed].count > 0 THEN {Unattributed} ELSE {})
  BY DEF Selling, Sellers, Parties
<1> HIDE DEF L
<1>5. m \in Nat /\ L \in [1..m -> Sellers] /\ L \in [1..m -> Parties]
  BY <1>1, <1>3 DEF Names
<1>6. L \in Seq(Parties) /\ R \in Seq(Parties) /\ Len(R) = k
  BY <1>3, <1>5
<1> HIDE DEF R
<1>7. /\ Units \in Seq(Parties) /\ Len(Units) = m + k
      /\ \A i \in 1..(m + k) : Units[i] = IF i <= m THEN L[i] ELSE R[i - m]
  <2>1. /\ L \o R \in Seq(Parties) /\ Len(L \o R) = Len(L) + Len(R)
        /\ \A i \in 1..(Len(L) + Len(R)) :
              (L \o R)[i] = IF i <= Len(L) THEN L[i] ELSE R[i - Len(L)]
    BY <1>6, ConcatProperties
  <2> QED BY <1>2, <1>6, <2>1
<1>8. ASSUME NEW i \in 1..(m + k), i > m
      PROVE  i = m + 1 /\ k = 1 /\ Units[i] = Unattributed
  <2>1. i = m + 1 /\ k = 1
    BY <1>5, <1>8
  <2>2. i - m = 1
    BY <1>5, <2>1
  <2>3. R[1] = Unattributed
    BY <2>1 DEF R
  <2>4. Units[i] = R[i - m]
    BY <1>5, <1>7, <1>8
  <2> QED BY <2>1, <2>2, <2>3, <2>4
<1>9. \A i \in 1..m : i \in 1..(m + k) /\ Units[i] = L[i] /\ L[i] \in Sellers
  BY <1>5, <1>7
<1>10. k = 1 => m + 1 \in 1..(m + k) /\ Units[m + 1] = Unattributed
  BY <1>5, <1>8
<1>11. m + k \in Nat
  BY <1>5
<1>12. \A i \in 1..(m + k) : i \in 1..m \/ (i > m /\ k = 1 /\ i = m + 1)
  BY <1>5, <1>8
<1>13. /\ k = 1 => Selling = Sellers \cup {Unattributed}
       /\ k = 0 => Selling = Sellers
       /\ k \in {0, 1}
  BY <1>4
<1> HIDE DEF k, m
<1>14. \A i \in 1..(m + k) : Units[i] \in Selling
  BY <1>8, <1>9, <1>12, <1>13
<1>15. \A i, j \in 1..(m + k) : Units[i] = Units[j] => i = j
  <2> SUFFICES ASSUME NEW i \in 1..(m + k), NEW j \in 1..(m + k), Units[i] = Units[j] PROVE i = j
    OBVIOUS
  <2>1. CASE i \in 1..m /\ j \in 1..m
    <3>1. L[i] = L[j]
      BY <1>9, <2>1
    <3> QED BY <1>1, <2>1, <3>1 DEF Names, m
  <2>2. CASE i \in 1..m /\ j \notin 1..m
    BY <1>3, <1>8, <1>9, <1>12, <2>2
  <2>3. CASE i \notin 1..m /\ j \in 1..m
    BY <1>3, <1>8, <1>9, <1>12, <2>3
  <2>4. CASE i \notin 1..m /\ j \notin 1..m
    BY <1>12, <2>4
  <2> QED BY <2>1, <2>2, <2>3, <2>4
<1>16. \A s \in Selling : \E i \in 1..(m + k) : Units[i] = s
  <2> SUFFICES ASSUME NEW s \in Selling PROVE \E i \in 1..(m + k) : Units[i] = s
    OBVIOUS
  <2>1. CASE s \in Sellers
    <3>1. PICK i \in 1..m : L[i] = s
      BY <1>1, <2>1 DEF Names, m
    <3> QED BY <1>9, <3>1
  <2>2. CASE s \notin Sellers
    <3>1. k = 1 /\ s = Unattributed
      BY <1>13, <2>2
    <3> QED BY <1>10, <3>1
  <2> QED BY <2>1, <2>2
<1>17. Units \in [1..(m + k) -> Selling]
  <2>1. Units \in [1..Len(Units) -> Parties]
    BY <1>7
  <2> QED BY <1>7, <1>14, <2>1
<1>18. {Units[i] : i \in 1..(m + k)} = Selling
  BY <1>14, <1>16
<1>19. Len(Units) = m + k
  BY <1>7
<1> HIDE DEF Units
<1> QED BY <1>11, <1>15, <1>17, <1>18, <1>19 DEF Names

-----------------------------------------------------------------------------
(* The rows of the breakdown.                                              *)

Grosses == [i \in DOMAIN Units |-> sales[Units[i]].gross]
Whole == SumFunctionOnSet(Grosses, DOMAIN Units)
Charges == {"fee", "cost", "commission"}
Charged(c) == AllocateWithRemainder(FeeDistribution(Whole)[c], Grosses)
NetOf(i) == Grosses[i] - Charged("fee")[i]
PartOf(i) == IF Units[i] = Unattributed THEN 0
             ELSE Rounded(NetOf(i) * share[Units[i]], 100)

LEMMA UnitsFit ==
    ASSUME SharesFit, NEW n, n = Len(Units)
    PROVE  /\ n \in Nat /\ DOMAIN Units = 1..n /\ IsFiniteSet(1..n)
           /\ \A i \in 1..n : Units[i] \in Parties /\ sales[Units[i]].gross \in Nat
           /\ Grosses \in [1..n -> Nat] /\ Whole \in Nat
           /\ Whole = SumFunctionOnSet(Grosses, 1..n) /\ Total(Grosses) = Whole
<1>1. n \in Nat /\ Units \in [1..n -> Selling]
  BY UnitsAreNamed DEF Names
<1>2. DOMAIN Units = 1..n /\ IsFiniteSet(1..n)
  BY <1>1, FS_Interval
<1>3. \A i \in 1..n : Units[i] \in Parties /\ sales[Units[i]].gross \in Nat
  BY <1>1 DEF Selling, Parties, SharesFit
<1>4. Grosses \in [1..n -> Nat] /\ DOMAIN Grosses = DOMAIN Units
  BY <1>2, <1>3 DEF Grosses
<1>5. Whole = SumFunctionOnSet(Grosses, 1..n) /\ Total(Grosses) = Whole
  BY <1>2, <1>4 DEF Whole, Total, SumFunction
<1>6. Whole \in Nat
  BY <1>2, <1>4, <1>5, SumNotNegative
<1> QED BY <1>1, <1>2, <1>3, <1>4, <1>5, <1>6

LEMMA ChargesAreSplit ==
    ASSUME SharesFit, NEW n \in Nat \ {0}, n = Len(Units), NEW c \in Charges
    PROVE  Splits(Charged(c), n, FeeDistribution(Whole)[c], Grosses, Whole)
<1>1. Grosses \in [1..n -> Nat] /\ Whole \in Nat /\ Whole = SumFunctionOnSet(Grosses, 1..n)
  BY UnitsFit
<1>2. rates \in Rates
  BY DEF SharesFit
<1>3. FeeDistribution(Whole)[c] \in Int
  <2>1. c = "fee" \/ c = "cost" \/ c = "commission"
    BY DEF Charges
  <2> QED BY <1>1, <1>2, <2>1, FeesAre
<1> QED BY <1>1, <1>3, AllocateSplits DEF Charged

\* What is left of the sales adds up to what is left of the whole.
LEMMA NetsAddUp ==
    ASSUME SharesFit, NEW n \in Nat \ {0}, n = Len(Units),
           NEW raw, \A i \in 1..n : raw[i] = NetOf(i)
    PROVE  SumFunctionOnSet(raw, 1..n) = FeeDistribution(Whole).net
<1> DEFINE fee == Charged("fee")
           t == FeeDistribution(Whole).fee
<1>1. /\ Grosses \in [1..n -> Nat] /\ Whole \in Nat /\ IsFiniteSet(1..n)
      /\ Whole = SumFunctionOnSet(Grosses, 1..n)
  BY UnitsFit
<1>2. fee \in [1..n -> Int] /\ SumFunctionOnSet(fee, 1..n) = t
  <2>1. "fee" \in Charges
    BY DEF Charges
  <2>2. Splits(Charged("fee"), n, FeeDistribution(Whole)["fee"], Grosses, Whole)
    BY <2>1, ChargesAreSplit
  <2> QED BY <2>2 DEF Splits
<1>3. Combines(raw, Grosses, fee, 1..n, 1, -1)
  <2> SUFFICES ASSUME NEW i \in 1..n
               PROVE  /\ Grosses[i] \in Int /\ fee[i] \in Int
                      /\ raw[i] = 1 * Grosses[i] + (-1) * fee[i]
    BY DEF Combines
  <2>1. Grosses[i] \in Int /\ fee[i] \in Int
    BY <1>1, <1>2
  <2>2. raw[i] = Grosses[i] - fee[i]
    BY DEF NetOf
  <2> HIDE DEF fee
  <2> QED BY <2>1, <2>2
<1>4. t \in Int /\ FeeDistribution(Whole).net = Whole - t
  <2>1. rates \in Rates
    BY DEF SharesFit
  <2> QED BY <1>1, <2>1, FeesAre
<1> HIDE DEF fee, t
<1> DEFINE one == 1
           less == -1
<1>5. one \in Int /\ less \in Int /\ Combines(raw, Grosses, fee, 1..n, one, less)
  BY <1>3
<1> HIDE DEF one, less
<1>6. SumFunctionOnSet(raw, 1..n)
        = one * SumFunctionOnSet(Grosses, 1..n) + less * SumFunctionOnSet(fee, 1..n)
  BY <1>1, <1>5, SumCombined
<1>7. SumFunctionOnSet(raw, 1..n) = one * Whole + less * t
  BY <1>1, <1>2, <1>6
<1>8. one * Whole + less * t = Whole - t
  BY <1>1, <1>4 DEF one, less
<1> QED BY <1>4, <1>7, <1>8

LEMMA BreakdownRows ==
    ASSUME SharesFit, NEW n \in Nat \ {0}, n = Len(Units)
    PROVE  Distribution =
               [i \in 1..n |->
                   [unit |-> Units[i], gross |-> Grosses[i], fee |-> Charged("fee")[i],
                    cost |-> Charged("cost")[i], commission |-> Charged("commission")[i],
                    net |-> NetOf(i), designer |-> PartOf(i), owner |-> NetOf(i) - PartOf(i)]]
<1> DEFINE totals == FeeDistribution(Total(Grosses))
           charged == [c \in {"fee", "cost", "commission"} |->
                          AllocateWithRemainder(totals[c], Grosses)]
           raw == [i \in DOMAIN Units |-> Grosses[i] - charged["fee"][i]]
           net == [i \in DOMAIN Units |->
                      IF i < Len(Units) THEN raw[i] ELSE raw[i] + totals.net - Total(raw)]
           designer(i) == IF Units[i] = Unattributed THEN 0
                          ELSE Rounded(net[i] * share[Units[i]], 100)
<1>1. Distribution =
        [i \in DOMAIN Units |->
            [unit |-> Units[i], gross |-> Grosses[i], fee |-> charged["fee"][i],
             cost |-> charged["cost"][i], commission |-> charged["commission"][i],
             net |-> net[i], designer |-> designer(i), owner |-> net[i] - designer(i)]]
  BY DEF Distribution, Grosses
<1>2. DOMAIN Units = 1..n /\ Total(Grosses) = Whole /\ IsFiniteSet(1..n)
  BY UnitsFit
<1>3. \A c \in {"fee", "cost", "commission"} : charged[c] = Charged(c)
  BY <1>2 DEF Charged
<1> HIDE DEF charged
<1>4. \A i \in 1..n : raw[i] = NetOf(i)
  BY <1>2, <1>3 DEF NetOf
<1>5. Total(raw) = totals.net
  <2>1. Total(raw) = SumFunctionOnSet(raw, 1..n)
    BY <1>2 DEF Total, SumFunction
  <2> HIDE DEF raw
  <2> QED BY <1>2, <1>4, <2>1, NetsAddUp
<1>6. \A i \in 1..n : NetOf(i) \in Int
  <2>1. "fee" \in Charges
    BY DEF Charges
  <2>2. Splits(Charged("fee"), n, FeeDistribution(Whole)["fee"], Grosses, Whole)
    BY <2>1, ChargesAreSplit
  <2>3. Charged("fee") \in [1..n -> Int] /\ Grosses \in [1..n -> Nat]
    BY <2>2, UnitsFit DEF Splits
  <2> HIDE DEF Charged, Grosses
  <2> QED BY <2>3 DEF NetOf
<1>7. totals.net \in Int
  <2>1. rates \in Rates /\ Whole \in Nat
    BY UnitsFit DEF SharesFit
  <2> QED BY <1>2, <2>1, FeesAre
<1>8. \A i \in 1..n : net[i] = NetOf(i)
  <2> TAKE i \in 1..n
  <2>1. net[i] = IF i < Len(Units) THEN raw[i] ELSE raw[i] + totals.net - Total(raw)
    BY <1>2
  <2>2. raw[i] = NetOf(i) /\ NetOf(i) \in Int
    BY <1>4, <1>6
  <2> HIDE DEF net, raw, totals
  <2> QED BY <1>5, <1>7, <2>1, <2>2
<1> HIDE DEF net
<1>9. \A i \in 1..n : designer(i) = PartOf(i)
  BY <1>8 DEF PartOf
<1> HIDE DEF designer, totals, raw
<1> QED BY <1>1, <1>2, <1>3, <1>8, <1>9

-----------------------------------------------------------------------------
(* What the rows add up to.                                                *)

\* What a unit's staff gets of its net amount.
LEMMA PartsFit ==
    ASSUME SharesFit, NEW n \in Nat \ {0}, n = Len(Units), NEW i \in 1..n
    PROVE  /\ NetOf(i) \in Int /\ PartOf(i) \in Int
           /\ PartOf(i) \in (0..NetOf(i)) \cup (NetOf(i)..0)
<1>1. NetOf(i) \in Int
  <2>1. "fee" \in Charges
    BY DEF Charges
  <2>2. Splits(Charged("fee"), n, FeeDistribution(Whole)["fee"], Grosses, Whole)
    BY <2>1, ChargesAreSplit
  <2>3. Charged("fee") \in [1..n -> Int] /\ Grosses \in [1..n -> Nat]
    BY <2>2, UnitsFit DEF Splits
  <2> HIDE DEF Charged, Grosses
  <2> QED BY <2>3 DEF NetOf
<1> DEFINE m == NetOf(i)
<1> HIDE DEF m
<1>2. m \in Int
  BY <1>1 DEF m
<1>3. CASE Units[i] = Unattributed
  <2>1. PartOf(i) = 0
    BY <1>3 DEF PartOf
  <2>2. 0 \in (0..m) \cup (m..0)
    BY <1>2
  <2> QED BY <1>2, <2>1, <2>2 DEF m
<1>4. CASE Units[i] # Unattributed
  <2> DEFINE x == share[Units[i]]
  <2>1. x \in 0..100
    <3>1. Units[i] \in Parties
      BY UnitsFit
    <3> QED BY <1>4, <3>1 DEF Parties, SharesFit
  <2> HIDE DEF x
  <2>2. PartOf(i) = Rounded(m * x, 100)
    BY <1>4 DEF PartOf, x, m
  <2>3. Rounded(m * x, 100) \in (0..m) \cup (m..0)
    BY <1>2, <2>1, PartIsWithin
  <2>4. PartOf(i) \in Int
    BY <1>2, <2>2, <2>3
  <2> QED BY <1>2, <2>2, <2>3, <2>4 DEF m
<1> QED BY <1>3, <1>4

LEMMA SharesAddUp == SharesFit => DistributionAddsUp
<1> SUFFICES ASSUME SharesFit PROVE DistributionAddsUp
  OBVIOUS
<1> DEFINE rows == Distribution
           n == Len(Units)
           column(f) == Total([i \in DOMAIN rows |-> rows[i][f]])
           totals == FeeDistribution(column("gross"))
           slack(i) == IF i < Len(rows) THEN 1 ELSE Len(rows) - 1
           off(i) == 2 * (rows[i].fee * column("gross") - totals.fee * rows[i].gross)
<1>1. SUFFICES ASSUME rows # << >>
               PROVE  /\ \A f \in {"fee", "cost", "commission", "net"} : column(f) = totals[f]
                      /\ column("designer") + column("owner") = totals.net
                      /\ \A i \in DOMAIN rows :
                            /\ rows[i].designer \in (0..rows[i].net) \cup (rows[i].net..0)
                            /\ off(i) <= slack(i) * column("gross")
                            /\ -off(i) <= slack(i) * column("gross")
                      /\ totals.profit >= -1
  BY DEF DistributionAddsUp
<1>2. n \in Nat \ {0}
  <2>1. n \in Nat /\ DOMAIN Units = 1..n
    BY UnitsFit
  <2>2. n = 0 => rows = << >>
    <3> SUFFICES ASSUME n = 0 PROVE rows = << >>
      OBVIOUS
    <3>1. DOMAIN Units = {}
      BY <2>1
    <3>2. DOMAIN rows = {}
      BY <3>1 DEF Distribution
    <3>3. rows = [i \in {} |-> rows[i]]
      BY <3>1 DEF Distribution
    <3> QED BY <3>3
  <2> QED BY <1>1, <2>1, <2>2
<1>3. /\ DOMAIN rows = 1..n /\ Len(rows) = n
      /\ \A i \in 1..n :
            rows[i] = [unit |-> Units[i], gross |-> Grosses[i], fee |-> Charged("fee")[i],
                       cost |-> Charged("cost")[i], commission |-> Charged("commission")[i],
                       net |-> NetOf(i), designer |-> PartOf(i), owner |-> NetOf(i) - PartOf(i)]
  BY <1>2, BreakdownRows
<1> HIDE DEF rows, n
<1>4. /\ Grosses \in [1..n -> Nat] /\ Whole \in Nat /\ IsFiniteSet(1..n)
      /\ Whole = SumFunctionOnSet(Grosses, 1..n)
  BY UnitsFit DEF n
<1>5. \A c \in Charges : Splits(Charged(c), n, FeeDistribution(Whole)[c], Grosses, Whole)
  BY <1>2, ChargesAreSplit DEF n
<1>6. ASSUME NEW f, NEW g, \A i \in 1..n : rows[i][f] \in Int /\ rows[i][f] = g[i]
      PROVE  column(f) = SumFunctionOnSet(g, 1..n)
  <2> DEFINE h == [i \in DOMAIN rows |-> rows[i][f]]
  <2>1. DOMAIN h = 1..n /\ \A i \in 1..n : h[i] \in Int /\ h[i] = g[i]
    BY <1>3, <1>6
  <2>2. column(f) = SumFunctionOnSet(h, DOMAIN h)
    BY DEF Total, SumFunction
  <2> HIDE DEF h, column
  <2>3. SumFunctionOnSet(h, 1..n) = SumFunctionOnSet(g, 1..n)
    BY <1>4, <2>1, SumOfSame, ZenonT(60)
  <2>4. column(f) = SumFunctionOnSet(h, 1..n)
    BY <2>1, <2>2
  <2> QED BY <2>3, <2>4
<1>7. column("gross") = Whole
  <2>1. \A i \in 1..n : rows[i]["gross"] \in Int /\ rows[i]["gross"] = Grosses[i]
    BY <1>3, <1>4
  <2> HIDE DEF column
  <2> QED BY <1>4, <1>6, <2>1
<1>8. ASSUME NEW c \in Charges
      PROVE  /\ Charged(c) \in [1..n -> Int]
             /\ \A i \in 1..n : rows[i][c] = Charged(c)[i]
             /\ column(c) = totals[c]
  <2>1. Charged(c) \in [1..n -> Int] /\ SumFunctionOnSet(Charged(c), 1..n) = FeeDistribution(Whole)[c]
    BY <1>5 DEF Splits
  <2>2. \A i \in 1..n : rows[i][c] = Charged(c)[i]
    <3>1. c = "fee" \/ c = "cost" \/ c = "commission"
      BY DEF Charges
    <3> HIDE DEF Charged
    <3> QED BY <1>3, <3>1
  <2>3. \A i \in 1..n : rows[i][c] \in Int /\ rows[i][c] = Charged(c)[i]
    BY <2>1, <2>2
  <2> HIDE DEF column
  <2>4. column(c) = SumFunctionOnSet(Charged(c), 1..n)
    BY <1>6, <2>3
  <2> QED BY <1>7, <2>1, <2>2, <2>4
<1> HIDE DEF column
<1>9. \A i \in 1..n : /\ rows[i].net = NetOf(i) /\ NetOf(i) \in Int
                      /\ rows[i].designer = PartOf(i) /\ PartOf(i) \in Int
                      /\ rows[i].owner = NetOf(i) - PartOf(i)
                      /\ PartOf(i) \in (0..NetOf(i)) \cup (NetOf(i)..0)
  <2> TAKE i \in 1..n
  <2>1. /\ NetOf(i) \in Int /\ PartOf(i) \in Int
        /\ PartOf(i) \in (0..NetOf(i)) \cup (NetOf(i)..0)
    BY <1>2, PartsFit DEF n
  <2> HIDE DEF NetOf, PartOf
  <2> QED BY <1>3, <2>1
<1>10. column("net") = totals.net
  <2> DEFINE raw == [i \in 1..n |-> NetOf(i)]
  <2>1. \A i \in 1..n : raw[i] = NetOf(i)
    OBVIOUS
  <2>2. \A i \in 1..n : rows[i]["net"] \in Int /\ rows[i]["net"] = raw[i]
    BY <1>9
  <2> HIDE DEF raw
  <2>3. SumFunctionOnSet(raw, 1..n) = FeeDistribution(Whole).net
    BY <1>2, <2>1, NetsAddUp DEF n
  <2> QED BY <1>6, <1>7, <2>2, <2>3
<1>11. column("designer") + column("owner") = totals.net
  <2> DEFINE d == [i \in 1..n |-> PartOf(i)]
             o == [i \in 1..n |-> NetOf(i) - PartOf(i)]
             m == [i \in 1..n |-> NetOf(i)]
             one == 1
  <2>1. \A i \in 1..n : /\ rows[i]["designer"] \in Int /\ rows[i]["designer"] = d[i]
                        /\ rows[i]["owner"] \in Int /\ rows[i]["owner"] = o[i]
                        /\ m[i] \in Int /\ rows[i]["net"] = m[i] /\ rows[i]["net"] \in Int
                        /\ d[i] \in Int /\ o[i] \in Int
                        /\ m[i] = 1 * d[i] + 1 * o[i]
    BY <1>9
  <2> HIDE DEF d, o, m
  <2>2. column("designer") = SumFunctionOnSet(d, 1..n) /\ column("owner") = SumFunctionOnSet(o, 1..n)
    BY <1>6, <2>1
  <2>3. column("net") = SumFunctionOnSet(m, 1..n)
    BY <1>6, <2>1
  <2>4. one \in Int /\ Combines(m, d, o, 1..n, one, one)
    BY <2>1 DEF Combines
  <2>5. one * SumFunctionOnSet(d, 1..n) = SumFunctionOnSet(d, 1..n)
        /\ one * SumFunctionOnSet(o, 1..n) = SumFunctionOnSet(o, 1..n)
    <3>1. SumFunctionOnSet(d, 1..n) \in Int /\ SumFunctionOnSet(o, 1..n) \in Int
      BY <1>4, <2>1, SumType
    <3> QED BY <3>1
  <2> HIDE DEF one
  <2>6. SumFunctionOnSet(m, 1..n)
          = one * SumFunctionOnSet(d, 1..n) + one * SumFunctionOnSet(o, 1..n)
    BY <1>4, <2>4, SumCombined
  <2> QED BY <1>10, <2>2, <2>3, <2>5, <2>6
<1>12. totals.profit >= -1
  <2>1. rates \in Rates
    BY DEF SharesFit
  <2> QED BY <1>4, <1>7, <2>1, FeesAre
<1>13. ASSUME NEW i \in 1..n
       PROVE  off(i) <= slack(i) * column("gross") /\ -off(i) <= slack(i) * column("gross")
  <2>1. "fee" \in Charges
    BY DEF Charges
  <2>2. Splits(Charged("fee"), n, FeeDistribution(Whole)["fee"], Grosses, Whole)
    BY <1>5, <2>1
  <2>3. rows[i].fee = Charged("fee")[i] /\ rows[i].gross = Grosses[i]
    BY <1>3
  <2>4. off(i) = 2 * (Charged("fee")[i] * Whole - FeeDistribution(Whole)["fee"] * Grosses[i])
    BY <1>7, <2>3
  <2>5. slack(i) = IF i < n THEN 1 ELSE n - 1
    BY <1>3
  <2> HIDE DEF off, slack, totals
  <2> QED BY <1>7, <2>2, <2>4, <2>5 DEF Splits
<1>14. \A f \in {"fee", "cost", "commission", "net"} : column(f) = totals[f]
  <2>1. \A f \in {"fee", "cost", "commission"} : column(f) = totals[f]
    BY <1>8 DEF Charges
  <2> QED BY <1>10, <2>1
<1>15. \A i \in 1..n : rows[i].designer \in (0..rows[i].net) \cup (rows[i].net..0)
  BY <1>9
<1> QED BY <1>3, <1>11, <1>12, <1>13, <1>14, <1>15

-----------------------------------------------------------------------------
(* What others are shown.                                                  *)

\* Who is not in the breakdown has sold nothing.
LEMMA WholeIsAll ==
    SharesFit => SumFunction([s \in DOMAIN sales |-> sales[s].gross]) = Whole
<1> SUFFICES ASSUME SharesFit
             PROVE  SumFunction([s \in DOMAIN sales |-> sales[s].gross]) = Whole
  OBVIOUS
<1> DEFINE n == Len(Units)
           f == [s \in DOMAIN sales |-> sales[s].gross]
           Idle == Parties \ Selling
<1>1. DOMAIN f = Parties /\ \A s \in Parties : f[s] = sales[s].gross /\ f[s] \in Nat
  BY DEF SharesFit, Parties
<1>2. \A s \in Idle : f[s] = 0
  BY <1>1 DEF Selling, SharesFit, Parties
<1>3. IsFiniteSet(Parties) /\ IsFiniteSet(Selling) /\ IsFiniteSet(Idle)
  <2>1. IsFiniteSet(Parties)
    BY SharesAssumption, FS_AddElement DEF Parties
  <2>2. Selling \subseteq Parties /\ Idle \subseteq Parties
    BY DEF Selling
  <2> QED BY <2>1, <2>2, FS_Subset
<1>4. Selling \cap Idle = {} /\ Selling \cup Idle = Parties
  BY DEF Selling
<1>5. SumFunction(f) = SumFunctionOnSet(f, Parties)
  BY <1>1 DEF SumFunction
<1> HIDE DEF f, Idle
<1>6. SumFunctionOnSet(f, Parties) = SumFunctionOnSet(f, Selling) + SumFunctionOnSet(f, Idle)
  <2>1. \A s \in Selling \cup Idle : f[s] \in Int
    BY <1>1, <1>4
  <2>2. SumFunctionOnSet(f, Selling \cup Idle) = SumFunctionOnSet(f, Selling) + SumFunctionOnSet(f, Idle)
    BY <1>3, <1>4, <2>1, SumOfBoth
  <2> QED BY <1>4, <2>2
<1>7. SumFunctionOnSet(f, Idle) = 0
  BY <1>2, <1>3, SumOfZeros
<1>8. SumFunctionOnSet(f, Selling) \in Int
  <2>1. \A s \in Selling : f[s] \in Int
    BY <1>1, <1>4
  <2> QED BY <1>3, <2>1, SumType
<1>9. SumFunctionOnSet(f, Selling) = Whole
  <2>1. /\ n \in Nat /\ Units \in [1..n -> Selling]
        /\ \A i, j \in 1..n : Units[i] = Units[j] => i = j
        /\ {Units[i] : i \in 1..n} = Selling
    BY UnitsAreNamed DEF Names
  <2>2. IsFiniteSet(1..n) /\ DOMAIN Units = 1..n /\ Whole = SumFunctionOnSet(Grosses, 1..n)
    BY UnitsFit
  <2>3. \A i \in 1..n : f[Units[i]] \in Int /\ Grosses[i] = f[Units[i]]
    <3> TAKE i \in 1..n
    <3>1. Units[i] \in Selling /\ Units[i] \in Parties
      BY <2>1 DEF Selling
    <3>2. Grosses[i] = sales[Units[i]].gross
      BY <2>2 DEF Grosses
    <3> QED BY <1>1, <3>1, <3>2
  <2> HIDE DEF n
  <2>4. \A s \in Selling : \E i \in 1..n : Units[i] = s
    BY <2>1
  <2>5. SumFunctionOnSet(Grosses, 1..n) = SumFunctionOnSet(f, Selling)
    BY <2>1, <2>2, <2>3, <2>4, SumRenamed
  <2> QED BY <2>2, <2>5
<1> QED BY <1>5, <1>6, <1>7, <1>8, <1>9 DEF f

\* The sales of one are no more than those of all.
LEMMA RowIsWithin ==
    ASSUME NEW n \in Nat, NEW w \in [1..n -> Nat], NEW i \in 1..n
    PROVE  w[i] <= SumFunctionOnSet(w, 1..n)
<1>1. IsFiniteSet(1..n)
  BY FS_Interval
<1> DEFINE S == 1..n
<1>2. \A j \in S : w[j] \in Int /\ w[j] >= 0
  OBVIOUS
<1>3. i \in S /\ {i} \subseteq S /\ IsFiniteSet(S) /\ w[i] \in Int
  BY <1>1
<1> HIDE DEF S
<1>4. SumFunctionOnSet(w, {i}) <= SumFunctionOnSet(w, S)
  <2>1. \A j \in S : w[j] \in Int
    BY <1>2
  <2>2. \A j \in S \ {i} : w[j] >= 0
    BY <1>2
  <2> QED BY <1>3, <2>1, <2>2, SumOfFewer
<1>5. SumFunctionOnSet(w, {i}) = w[i]
  BY <1>3, SumOfOne
<1> QED BY <1>4, <1>5 DEF S

\* A row is charged about what its sales alone would be charged.
LEMMA OwnChargeIsNear ==
    ASSUME SharesFit, NEW n \in Nat \ {0}, n = Len(Units), NEW i \in 1..n
    PROVE  LET own == Rounded(Grosses[i] * rates.fee * 11, 1000)
               slack == IF i < n THEN 1 ELSE n - 1
           IN  /\ own \in Int /\ Charged("fee")[i] \in Int /\ Grosses[i] \in Nat
               /\ Charged("fee")[i] - own <= slack /\ own - Charged("fee")[i] <= slack
<1> DEFINE k == rates.fee * 11
           g == Grosses[i]
           own == Rounded(g * rates.fee * 11, 1000)
           f == Charged("fee")[i]
           t == FeeDistribution(Whole)["fee"]
           slack == IF i < n THEN 1 ELSE n - 1
           all == Whole
<1>1. k \in Nat
  BY SharesAssumption DEF SharesFit
<1>2. /\ g \in Nat /\ all \in Nat /\ g <= all /\ all = SumFunctionOnSet(Grosses, 1..n)
      /\ Grosses \in [1..n -> Nat] /\ IsFiniteSet(1..n)
  <2>1. /\ Grosses \in [1..n -> Nat] /\ all \in Nat /\ all = SumFunctionOnSet(Grosses, 1..n)
        /\ IsFiniteSet(1..n)
    BY UnitsFit
  <2>2. Grosses[i] <= SumFunctionOnSet(Grosses, 1..n)
    <3> HIDE DEF Grosses, Whole, all
    <3> QED BY <2>1, RowIsWithin
  <2> HIDE DEF Grosses, Whole
  <2> QED BY <2>1, <2>2
<1>3. Splits(Charged("fee"), n, t, Grosses, all)
  <2>1. "fee" \in Charges
    BY DEF Charges
  <2> QED BY <2>1, ChargesAreSplit
<1> HIDE DEF k, g, all
<1>4. t \in Int /\ t = Rounded(all * k, 1000)
  <2>1. rates \in Rates /\ rates.fee \in Nat
    BY SharesAssumption DEF SharesFit
  <2>2. t \in Int /\ t = Rounded(all * rates.fee * 11, 1000)
    BY <1>2, <2>1, FeesAre DEF all
  <2>3. all * rates.fee * 11 = all * k
    BY <1>2, <2>1 DEF k
  <2> QED BY <2>2, <2>3
<1>5. own = Rounded(g * k, 1000)
  <2>1. rates.fee \in Nat
    BY SharesAssumption DEF SharesFit
  <2>2. g * rates.fee * 11 = g * k
    BY <1>2, <2>1 DEF k
  <2> QED BY <2>2
<1> HIDE DEF t, own
<1> DEFINE ak == all * k
           gk == g * k
<1>6. ak \in Int /\ gk \in Int
  BY <1>1, <1>2
<1> HIDE DEF ak, gk
<1>7. own \in Int /\ 2 * (1000 * own) <= 2 * gk + 1000 /\ 2 * gk - 1000 <= 2 * (1000 * own)
  <2>1. own = Rounded(gk, 1000)
    BY <1>5 DEF gk
  <2> QED BY <1>6, <2>1, RoundedIsNear
<1>8. 2 * (1000 * t) <= 2 * ak + 1000 /\ 2 * ak - 1000 <= 2 * (1000 * t)
  <2>1. t = Rounded(ak, 1000)
    BY <1>4 DEF ak
  <2> QED BY <1>6, <2>1, RoundedIsNear
<1>9. /\ f \in Int
      /\ all = 0 => f = IF i < n THEN 0 ELSE t
      /\ SumFunctionOnSet(Charged("fee"), 1..n) = t
      /\ 2 * (f * all - t * g) <= slack * all /\ -(2 * (f * all - t * g)) <= slack * all
  BY <1>3 DEF Splits, g
<1>10. slack \in Nat /\ (n # 1 => slack # 0)
  OBVIOUS
<1> HIDE DEF f, slack
<1>11. CASE all # 0 /\ n # 1
  <2>1. f - own <= slack
    <3> DEFINE s == slack
    <3>1. 2 * (1000 * t) <= 2 * (all * k) + 1000 /\ 2 * (g * k) - 1000 <= 2 * (1000 * own)
      BY <1>7, <1>8 DEF ak, gk
    <3>2. s \in Nat \ {0}
      BY <1>10, <1>11
    <3> HIDE DEF s
    <3>3. NearlyCharged(f, own, t, k, g, all, slack)
      BY <1>1, <1>2, <1>4, <1>7, <1>9, <1>11, <3>1, <3>2 DEF NearlyCharged, s
    <3> QED BY <3>3, ChargeIsNear
  <2>2. own - f <= slack
    <3> DEFINE nf == -f
               no == -own
               nt == -t
               nk == -k
    <3>1. nf \in Int /\ no \in Int /\ nt \in Int /\ nk \in Int
      BY <1>1, <1>4, <1>7, <1>9
    <3>2. nf * all - nt * g = -(f * all - t * g)
      BY <1>2, <1>4, <1>9
    <3>3. all * nk = -ak /\ g * nk = -gk
      BY <1>1, <1>2 DEF ak, gk
    <3>4. f * all - t * g \in Int
      BY <1>2, <1>4, <1>9
    <3>5. 2 * (1000 * nt) <= 2 * (all * nk) + 1000
      <4>1. 2 * (1000 * nt) = -(2 * (1000 * t))
        BY <1>4
      <4> HIDE DEF nt, nk
      <4> QED BY <1>4, <1>6, <1>8, <3>3, <4>1
    <3>6. 2 * (g * nk) - 1000 <= 2 * (1000 * no)
      <4>1. 2 * (1000 * no) = -(2 * (1000 * own))
        BY <1>7
      <4> HIDE DEF no, nk
      <4> QED BY <1>6, <1>7, <3>3, <4>1
    <3>7. slack \in Nat \ {0}
      BY <1>10, <1>11
    <3>8. 2 * (nf * all - nt * g) <= slack * all
      <4> DEFINE d == f * all - t * g
      <4>1. 2 * (-d) = -(2 * d)
        BY <3>4
      <4> HIDE DEF d, nf, nt
      <4>2. nf * all - nt * g = -d
        BY <3>2 DEF d
      <4>3. -(2 * d) <= slack * all
        BY <1>9 DEF d
      <4> QED BY <4>1, <4>2, <4>3
    <3> HIDE DEF nf, no, nt, nk
    <3>9. NearlyCharged(nf, no, nt, nk, g, all, slack)
      BY <1>2, <1>11, <3>1, <3>5, <3>6, <3>7, <3>8 DEF NearlyCharged
    <3>10. nf - no <= slack
      BY <3>9, ChargeIsNear
    <3> QED BY <1>7, <1>9, <3>10 DEF nf, no
  <2> QED BY <1>2, <1>7, <1>9, <2>1, <2>2 DEF own, g, f, slack
<1>12. CASE all = 0
  <2>1. g = 0
    BY <1>2, <1>12
  <2>2. gk = 0 /\ ak = 0
    BY <1>1, <1>12, <2>1 DEF gk, ak
  <2>3. own = 0 /\ t = 0
    BY <1>4, <1>5, <2>2, NothingStays DEF gk, ak
  <2>4. f = 0
    BY <1>9, <1>12, <2>3
  <2> QED BY <1>2, <1>10, <2>3, <2>4 DEF own, g, f, slack
<1>13. CASE n = 1
  <2> DEFINE fee == Charged("fee")
  <2>1. i = 1
    BY <1>13
  <2>2. 1..n = {1}
    BY <1>13
  <2>3. fee \in [1..n -> Int] /\ fee[1] \in Int /\ Grosses[1] \in Int
    BY <1>2, <1>3, <2>2 DEF Splits
  <2> HIDE DEF fee
  <2>4. SumFunctionOnSet(fee, {1}) = fee[1] /\ SumFunctionOnSet(Grosses, {1}) = Grosses[1]
    BY <2>3, SumOfOne
  <2>5. f = t /\ g = all
    BY <1>2, <1>9, <2>1, <2>2, <2>4 DEF fee, f, g
  <2>6. own = t
    BY <1>4, <1>5, <2>5
  <2>7. f - own = 0 /\ own - f = 0
    BY <1>4, <2>5, <2>6
  <2> QED BY <1>2, <1>7, <1>9, <1>10, <2>7 DEF own, g, f, slack
<1> QED BY <1>11, <1>12, <1>13

LEMMA SharesAreSeen == SharesFit => ViewsAgree
<1> SUFFICES ASSUME SharesFit PROVE ViewsAgree
  OBVIOUS
<1> DEFINE rows == Distribution
           n == Len(Units)
           slack(i) == IF i < Len(rows) THEN 1 ELSE Len(rows) - 1
           far(x, y, i) == x - y > slack(i) \/ y - x > slack(i)
<1>1. SUFFICES /\ DealerView = Total([i \in DOMAIN rows |-> rows[i].net])
               /\ \A i \in DOMAIN rows : rows[i].unit # Unattributed =>
                     LET own == DesignerView(rows[i].unit)
                     IN  /\ ~far(own.net, rows[i].net, i)
                         /\ ~far(own.designer, rows[i].designer, i)
  BY DEF ViewsAgree
<1>2. n \in Nat /\ DOMAIN Units = 1..n /\ IsFiniteSet(1..n) /\ Whole \in Nat
  BY UnitsFit
<1>3. rates \in Rates
  BY DEF SharesFit
<1>4. DOMAIN rows = 1..n /\ Len(rows) = n
  <2>1. DOMAIN rows = 1..n
    BY <1>2 DEF Distribution
  <2> HIDE DEF rows, n
  <2> QED BY <1>2, <2>1
<1>5. n # 0 => \A i \in 1..n : /\ rows[i].unit = Units[i] /\ rows[i].net = NetOf(i)
                               /\ rows[i].designer = PartOf(i)
  <2> SUFFICES ASSUME n # 0, NEW i \in 1..n
               PROVE  /\ rows[i].unit = Units[i] /\ rows[i].net = NetOf(i)
                      /\ rows[i].designer = PartOf(i)
    OBVIOUS
  <2>1. rows = [j \in 1..n |->
                   [unit |-> Units[j], gross |-> Grosses[j], fee |-> Charged("fee")[j],
                    cost |-> Charged("cost")[j], commission |-> Charged("commission")[j],
                    net |-> NetOf(j), designer |-> PartOf(j), owner |-> NetOf(j) - PartOf(j)]]
    BY <1>2, BreakdownRows
  <2> HIDE DEF rows, n
  <2> QED BY <2>1
<1>6. DealerView = Whole - Rounded(Whole * rates.fee * 11, 1000)
  BY WholeIsAll DEF DealerView
<1>7. DealerView = FeeDistribution(Whole).net /\ (Whole = 0 => DealerView = 0)
  <2>1. /\ FeeDistribution(Whole).net = Whole - FeeDistribution(Whole).fee
        /\ FeeDistribution(Whole).fee = Rounded(Whole * rates.fee * 11, 1000)
    BY <1>2, <1>3, FeesAre
  <2>2. Whole = 0 => DealerView = 0
    <3> SUFFICES ASSUME Whole = 0 PROVE DealerView = 0
      OBVIOUS
    <3>1. rates.fee \in Nat
      BY <1>3, SharesAssumption
    <3>2. Whole * rates.fee * 11 = 0
      BY <3>1
    <3>3. Rounded(0, 1000) = 0
      BY NothingStays
    <3> QED BY <1>6, <3>2, <3>3
  <2> QED BY <1>6, <2>1, <2>2
<1>8. DealerView = Total([i \in DOMAIN rows |-> rows[i].net])
  <2> DEFINE h == [i \in DOMAIN rows |-> rows[i].net]
  <2>1. DOMAIN h = 1..n /\ \A i \in 1..n : h[i] = rows[i].net
    BY <1>4
  <2>2. Total(h) = SumFunctionOnSet(h, 1..n)
    BY <2>1 DEF Total, SumFunction
  <2> HIDE DEF h
  <2>3. CASE n # 0
    <3>1. \A i \in 1..n : h[i] = NetOf(i)
      BY <1>5, <2>1, <2>3
    <3>2. SumFunctionOnSet(h, 1..n) = FeeDistribution(Whole).net
      BY <1>2, <2>3, <3>1, NetsAddUp
    <3> QED BY <1>7, <2>2, <3>2 DEF h
  <2>4. CASE n = 0
    <3>1. 1..n = {}
      BY <2>4
    <3>2. SumFunctionOnSet(h, 1..n) = 0
      BY <3>1, SumOfNone
    <3>3. Whole = SumFunctionOnSet(Grosses, 1..n)
      BY UnitsFit
    <3>4. Whole = 0
      BY <3>1, <3>3, SumOfNone
    <3> QED BY <1>7, <2>2, <3>2, <3>4 DEF h
  <2> QED BY <2>3, <2>4
<1>9. ASSUME NEW i \in 1..n, Units[i] # Unattributed
      PROVE  LET own == DesignerView(Units[i])
             IN  ~far(own.net, NetOf(i), i) /\ ~far(own.designer, PartOf(i), i)
  <2> DEFINE g == Grosses[i]
             f == Charged("fee")[i]
             own == Rounded(g * rates.fee * 11, 1000)
             x == share[Units[i]]
             m == IF i < n THEN 1 ELSE n - 1
  <2>1. n \in Nat \ {0} /\ m \in Nat /\ slack(i) = m
    BY <1>2, <1>4
  <2>2. own \in Int /\ f \in Int /\ g \in Nat /\ f - own <= m /\ own - f <= m
    BY <2>1, OwnChargeIsNear
  <2>3. x \in 0..100
    <3>1. Units[i] \in Parties
      BY <1>2, UnitsFit
    <3> QED BY <1>9, <3>1 DEF Parties, SharesFit
  <2>4. Grosses[i] = sales[Units[i]].gross
    BY <1>2 DEF Grosses
  <2>5. FeeDistribution(g).net = g - own
    BY <1>3, <2>2, FeesAre
  <2>6. DesignerView(Units[i]) = [net |-> g - own, designer |-> Rounded((g - own) * x, 100)]
    BY <2>4, <2>5 DEF DesignerView
  <2>7. NetOf(i) = g - f /\ PartOf(i) = Rounded((g - f) * x, 100)
    BY <1>9 DEF NetOf, PartOf
  <2> HIDE DEF g, f, own, x, m, slack
  <2> DEFINE a == g - own
             b == g - f
  <2>8. a \in Int /\ b \in Int /\ a - b <= m /\ b - a <= m
    BY <2>1, <2>2
  <2> HIDE DEF a, b
  <2> DEFINE p == a * x
             q == b * x
  <2>9. Rounded(p, 100) - Rounded(q, 100) <= m /\ Rounded(q, 100) - Rounded(p, 100) <= m
    BY <2>1, <2>3, <2>8, PartsAreNear, ZenonT(60)
  <2>10. Rounded(p, 100) \in Int /\ Rounded(q, 100) \in Int
    <3>1. p \in Int /\ q \in Int
      BY <2>3, <2>8
    <3> HIDE DEF p, q
    <3>2. 100 \in Nat \ {0}
      OBVIOUS
    <3>3. Rounded(p, 100) \in Int
      BY <3>1, <3>2, RoundedIsNear
    <3>4. Rounded(q, 100) \in Int
      BY <3>1, <3>2, RoundedIsNear
    <3> QED BY <3>3, <3>4
  <2> DEFINE r == Rounded(p, 100)
             s == Rounded(q, 100)
  <2>11. r \in Int /\ s \in Int /\ r - s <= m /\ s - r <= m
    BY <2>9, <2>10
  <2>12. /\ DesignerView(Units[i]).net = a /\ DesignerView(Units[i]).designer = r
         /\ NetOf(i) = b /\ PartOf(i) = s
    BY <2>6, <2>7 DEF a, b
  <2> HIDE DEF r, s, NetOf, PartOf, DesignerView
  <2> QED BY <2>1, <2>8, <2>11, <2>12
<1> QED BY <1>2, <1>4, <1>5, <1>8, <1>9

-----------------------------------------------------------------------------
(* Every state fits.                                                       *)

LEMMA InitShares == SharesInit => SharesFit
  BY DEF SharesInit, SharesFit

\* A share is kept between nothing and all.
LEMMA ShareIsKept == ASSUME NEW x \in Int PROVE Max({0, Min({100, x})}) \in 0..100
<1> DEFINE m == Min({100, x})
<1>1. m \in {100, x} /\ m <= 100
  <2>1. \E y \in {100, x} : \A z \in {100, x} : y <= z
    <3>1. CASE x <= 100
      BY <3>1
    <3>2. CASE ~(x <= 100)
      BY <3>2
    <3> QED BY <3>1, <3>2
  <2> QED BY <2>1 DEF Min
<1> HIDE DEF m
<1>2. \E y \in {0, m} : \A z \in {0, m} : y >= z
  <2>1. m \in Int
    BY <1>1
  <2>2. CASE m >= 0
    BY <2>1, <2>2
  <2>3. CASE ~(m >= 0)
    BY <2>1, <2>3
  <2> QED BY <2>2, <2>3
<1>3. Max({0, m}) \in {0, m} /\ Max({0, m}) >= 0
  BY <1>2 DEF Max
<1> QED BY <1>1, <1>3 DEF m

LEMMA NextShares == SharesFit /\ [SharesNext]_shareVars => SharesFit'
<1> SUFFICES ASSUME SharesFit, [SharesNext]_shareVars PROVE SharesFit'
  OBVIOUS
<1>1. CASE UNCHANGED shareVars
  BY <1>1 DEF shareVars, SharesFit
<1>2. ASSUME NEW s \in Staff \cup {Unattributed}, NEW a \in SaleAmounts, Sell(s, a)
      PROVE  SharesFit'
  <2> DEFINE r == [count |-> sales[s].count + 1, gross |-> sales[s].gross + a]
  <2>1. sales[s].count \in Nat /\ sales[s].gross \in Nat /\ a \in Nat
    BY SharesAssumption DEF SharesFit
  <2>2. r \in [count : Nat, gross : Nat] /\ r.count # 0
    BY <2>1
  <2>3. sales' = [sales EXCEPT ![s] = r] /\ rates' = rates /\ share' = share
    BY <1>2 DEF Sell
  <2> HIDE DEF r
  <2> QED BY <2>2, <2>3 DEF SharesFit
<1>3. ASSUME NEW s \in Staff, NEW x \in ShareRates, UpdateShare(s, x)
      PROVE  SharesFit'
  <2> DEFINE y == Max({0, Min({100, x})})
  <2>1. y \in 0..100
    BY SharesAssumption, ShareIsKept
  <2>2. share' = [share EXCEPT ![s] = y] /\ rates' = rates /\ sales' = sales
    BY <1>3 DEF UpdateShare
  <2> HIDE DEF y
  <2> QED BY <2>1, <2>2 DEF SharesFit
<1> QED BY <1>1, <1>2, <1>3 DEF SharesNext

\* The settlement a shop gets is the sum of its rows, to the won, and every
\* row is as fair as rounding allows: for any staff, any sales, any shares and
\* any rates that leave the platform its commission.
THEOREM DistributionIsExact == SharesSpec => []DistributionAddsUp
<1>1. SharesFit => DistributionAddsUp
  BY SharesAddUp
<1> QED BY <1>1, InitShares, NextShares, PTL DEF SharesSpec

\* What the dealer and the staff are shown is the shop's own breakdown.
THEOREM ViewsShowTheBreakdown == SharesSpec => []ViewsAgree
<1>1. SharesFit => ViewsAgree
  BY SharesAreSeen
<1> QED BY <1>1, InitShares, NextShares, PTL DEF SharesSpec
=============================================================================
