------------------------------ MODULE Accounts ------------------------------
(***************************************************************************)
(* Who may do what: users, their roles, the shops they own and the staff   *)
(* accounts owners make (app/api/auth_routes.py, app/auth/dependencies.py, *)
(* the user and merchant handlers of app/api/admin/merchant_routes.py,     *)
(* app/api/owner/staff_routes.py).                                         *)
(*                                                                         *)
(* A user is known by the email, which is unique.  The administrator's     *)
(* handlers that check before they write are two steps.                    *)
(***************************************************************************)
EXTENDS Integers, FiniteSets

CONSTANTS
    People,         \* emails
    Root,           \* the administrator the seed made
    Shops,
    AdminCalls,     \* concurrent handlers
    MaxAdminCalls,  \* how many of them at a time
    Nobody

Roles == {"admin", "sales", "owner", "designer"}

ASSUME AccountsAssumption ==
    /\ Root \in People /\ Nobody \notin People \cup Shops
    /\ Nobody \notin [role : Roles, active : BOOLEAN]
    /\ IsFiniteSet(AdminCalls) /\ MaxAdminCalls \in Nat

VARIABLES
    user,           \* user[p]: [role, active] or Nobody
    ownerOf,        \* merchants.owner_user_id
    staff,          \* staff[p]: the shops on whose staff p is
    adminCall       \* a handler between its checks and its commit

accountVars == <<user, ownerOf, staff, adminCall>>

Exists(p) == user[p] # Nobody
Owned(p) == {s \in Shops : ownerOf[s] = p}

\* get_current_user(), require_roles(): the row is read for every request, so
\* a token says no more than who asks.
Authenticated(p, roles) == Exists(p) /\ user[p].active /\ user[p].role \in roles

NoCall == [what |-> "nothing", target |-> Nobody, role |-> "owner", active |-> FALSE]

\* The server takes one request more.
Pending == {c \in AdminCalls : adminCall[c] # NoCall}
Served == Cardinality(Pending) < MaxAdminCalls

AccountsInit ==
    /\ user = [p \in People |->
                  IF p = Root THEN [role |-> "admin", active |-> TRUE] ELSE Nobody]
    /\ ownerOf = [s \in Shops |-> Nobody]
    /\ staff = [p \in People |-> {}]
    /\ adminCall = [c \in AdminCalls |-> NoCall]

-----------------------------------------------------------------------------
(* Accounts come into being.                                               *)

NewUser(p, role) ==
    /\ Served /\ ~Exists(p)
    /\ user' = [user EXCEPT ![p] = [role |-> role, active |-> TRUE]]

\* register(): owners only, with a shop if they name it.
Register(p, s) ==
    /\ NewUser(p, "owner")
    /\ s # Nobody => ownerOf[s] = Nobody
    /\ ownerOf' = IF s = Nobody THEN ownerOf ELSE [ownerOf EXCEPT ![s] = p]
    /\ UNCHANGED <<staff, adminCall>>

\* create_sales_user()
CreateSales(a, p) ==
    /\ Authenticated(a, {"admin"})
    /\ NewUser(p, "sales")
    /\ UNCHANGED <<ownerOf, staff, adminCall>>

\* An owner's form is about a shop of theirs.
OwnersForm(o, s) == Served /\ Authenticated(o, {"admin", "owner"}) /\ s \in Owned(o)

\* create_designer(): the account and its place in the owner's shop.
CreateDesigner(o, s, p) ==
    /\ OwnersForm(o, s)
    /\ NewUser(p, "designer")
    /\ staff' = [staff EXCEPT ![p] = {s}]
    /\ UNCHANGED <<ownerOf, adminCall>>

\* create_staff(): a place for whichever user the form names, an
\* administrator or another shop's owner included.
CreateStaff(o, s, p) ==
    /\ OwnersForm(o, s) /\ Exists(p)
    /\ staff' = [staff EXCEPT ![p] = @ \cup {s}]
    /\ UNCHANGED <<user, ownerOf, adminCall>>

\* update_designer() switches the account of whoever has the place with it.
\* (update_staff() switches the place only, which nothing here goes by.)
SwitchDesigner(o, s, p, active) ==
    /\ OwnersForm(o, s) /\ s \in staff[p]
    /\ user' = [user EXCEPT ![p].active = active]
    /\ UNCHANGED <<ownerOf, staff, adminCall>>

-----------------------------------------------------------------------------
(* The administrator's handlers: checks ...                                *)

\* Wrong: whoever administers may do anything to anybody.
MayChangeAnyone(a, p) == Exists(p)

\* Nobody changes or removes the own account.
MayChange(a, p) == Exists(p) /\ p # a

\* update_user_role() also counts the administrators that would be left.
MaySetRole(a, p, role) ==
    /\ MayChange(a, p) \/ (Exists(p) /\ user[p].role = role)
    /\ (user[p].role = "admin" /\ role # "admin") =>
           \E q \in People \ {p} : Authenticated(q, {"admin"})

\* Wrong: a second shop for the same owner.
MayOwnMore(p) == Exists(p) /\ user[p].role = "owner"

\* create_merchant()
MayOwn(p) == Exists(p) /\ user[p].role = "owner" /\ Owned(p) = {}

Ask(c, a, p, what, role) ==
    /\ adminCall[c] = NoCall
    /\ Served /\ Authenticated(a, {"admin"})
    /\ CASE what = "role" -> MaySetRole(a, p, role)
         [] what \in {"toggle", "delete"} -> MayChange(a, p)
         [] what = "shop" -> MayOwn(p)
    /\ adminCall' = [adminCall EXCEPT ![c] =
          [what |-> what, target |-> p, role |-> role, active |-> what = "toggle" /\ user[p].active]]
    /\ UNCHANGED <<user, ownerOf, staff>>

\* ... and commits.  A row that others refer to is not deleted.
Referred(p) == Owned(p) # {} \/ staff[p] # {}

Commit(c) ==
    LET call == adminCall[c]
        p == call.target
        gone == ~Exists(p)
    IN  /\ call # NoCall
        /\ adminCall' = [adminCall EXCEPT ![c] = NoCall]
        /\ CASE call.what = "role" ->
                  user' = IF gone THEN user ELSE [user EXCEPT ![p].role = call.role]
             [] call.what = "toggle" ->
                  user' = IF gone THEN user ELSE [user EXCEPT ![p].active = ~call.active]
             [] call.what = "delete" ->
                  user' = IF Referred(p) THEN user ELSE [user EXCEPT ![p] = Nobody]
             [] OTHER -> UNCHANGED user
        /\ IF call.what = "shop" /\ ~gone
           THEN \E s \in Shops : ownerOf[s] = Nobody /\ ownerOf' = [ownerOf EXCEPT ![s] = p]
           ELSE UNCHANGED ownerOf
        /\ UNCHANGED staff

AccountsNext ==
    \/ \E p \in People, s \in Shops \cup {Nobody} : Register(p, s)
    \/ \E a, p \in People : CreateSales(a, p)
    \/ \E o, p \in People, s \in Shops :
          \/ CreateDesigner(o, s, p) \/ CreateStaff(o, s, p)
          \/ \E active \in BOOLEAN : SwitchDesigner(o, s, p, active)
    \/ \E c \in AdminCalls, a, p \in People, role \in Roles :
          \/ Ask(c, a, p, "role", role)
          \/ \E what \in {"toggle", "delete", "shop"} : role = "owner" /\ Ask(c, a, p, what, role)
    \/ \E c \in AdminCalls : Commit(c)

AccountsSpec == AccountsInit /\ [][AccountsNext]_accountVars

-----------------------------------------------------------------------------

\* An administrator who can act: losing the last one cannot be undone
\* (update_user_role's docstring).
AnAdminRemains == \E p \in People : Authenticated(p, {"admin"})

\* Administrators never lock each other out, served one after the other: not by
\* what they do to roles, switches and accounts, whatever owners do in between
\* (the docstring again).  The last one goes in one way only, which the
\* docstring does not think of: an owner has put the account on the staff of a
\* shop, and switches it off there.  Every shop has an account behind it, which
\* has no other shop: the owner's pages look for one only (create_merchant).
SomebodyInCharge ==
    /\ [][AnAdminRemains => \/ AnAdminRemains'
                            \/ \E o, p \in People, s \in Shops : SwitchDesigner(o, s, p, FALSE)
         ]_accountVars
    /\ [](/\ \A s \in Shops : ownerOf[s] # Nobody => Exists(ownerOf[s])
          /\ \A p \in People : Cardinality(Owned(p)) <= 1)
=============================================================================
