----------------------------- MODULE LoginGuard -----------------------------
(***************************************************************************)
(* The limit on failed logins (app/services/login_guard.py) and the login  *)
(* it guards (app/api/auth_routes.py): the check comes before the password *)
(* is verified, the record after it, and other logins in between.  The     *)
(* records live in the one process there is.  Time is counted in ticks.    *)
(***************************************************************************)
EXTENDS Integers, FiniteSets, Functions

CONSTANTS
    Emails, Addresses,  \* of accounts, of clients
    Logins,             \* concurrent handlers
    MaxAttempts, Lockout,   \* the settings, in failures and ticks
    LastTick,           \* bound on time
    Unset

ASSUME GuardAssumption ==
    /\ MaxAttempts \in Nat \ {0} /\ Lockout \in Nat \ {0} /\ LastTick \in Nat
    /\ IsFiniteSet(Logins)
    /\ Unset \notin Addresses \cup [email : Emails, address : Addresses]

VARIABLES
    tick,
    failures,       \* [key -> [count, last]]
    login,          \* login[c]: a handler that has passed the check
    guesses         \* per email and tick: passwords found wrong since one was right,
                    \* within the time of a lock

guardVars == <<tick, failures, login, guesses>>

Everywhere == Unset
GuardKeys == Emails \X (Addresses \cup {Everywhere})

\* Wrong: by where it comes from only.
AddressKey(e, a) == {<<e, a>>}

\* _keys(): the account, and the account from that address.
KeysOf(e, a) == {<<e, Everywhere>>, <<e, a>>}

NoFailure == [count |-> 0, last |-> 0]
NoGuess == [t \in 0..LastTick |-> 0]

GuardInit ==
    /\ tick = 0
    /\ failures = [k \in GuardKeys |-> NoFailure]
    /\ login = [c \in Logins |-> Unset]
    /\ guesses = [e \in Emails |-> NoGuess]

Locked(k) == failures[k].count >= MaxAttempts /\ tick - failures[k].last < Lockout
RunOut(k) == failures[k].count >= MaxAttempts /\ tick - failures[k].last >= Lockout

\* check(): a lock that has run out is forgotten.
Check(c, e, a) ==
    /\ login[c] = Unset
    /\ \A k \in KeysOf(e, a) : ~Locked(k)
    /\ failures' = [k \in GuardKeys |-> IF k \in KeysOf(e, a) /\ RunOut(k) THEN NoFailure ELSE failures[k]]
    /\ login' = [login EXCEPT ![c] = [email |-> e, address |-> a]]
    /\ UNCHANGED <<tick, guesses>>

\* A locked account answers 429; the lock that has run out on one key is
\* forgotten even if the other still holds.
Refuse(e, a) ==
    /\ \E k \in KeysOf(e, a) : Locked(k)
    /\ failures' = IF ~Locked(<<e, Everywhere>>) /\ RunOut(<<e, Everywhere>>)
                   THEN [failures EXCEPT ![<<e, Everywhere>>] = NoFailure] ELSE failures
    /\ UNCHANGED <<tick, login, guesses>>

\* record_failure(): old records do not count; _prune() drops some of those.
RecordFailure(c) ==
    LET at == login[c]
        old(k) == tick - failures[k].last > 2 * Lockout
    IN  /\ at # Unset
        /\ failures' = [k \in GuardKeys |->
              IF k \in KeysOf(at.email, at.address)
              THEN [count |-> (IF old(k) THEN 0 ELSE failures[k].count) + 1, last |-> tick]
              ELSE failures[k]]
        /\ guesses' = [guesses EXCEPT ![at.email][tick] = @ + 1]
        /\ login' = [login EXCEPT ![c] = Unset]
        /\ UNCHANGED tick

\* record_success(); a disabled account's password is right and not recorded.
RecordSuccess(c, disabled) ==
    LET at == login[c]
    IN  /\ at # Unset
        /\ IF disabled THEN UNCHANGED <<failures, guesses>>
           ELSE /\ failures' = [k \in GuardKeys |-> IF k \in KeysOf(at.email, at.address)
                                               THEN NoFailure ELSE failures[k]]
                /\ guesses' = [guesses EXCEPT ![at.email] = NoGuess]
        /\ login' = [login EXCEPT ![c] = Unset]
        /\ UNCHANGED tick

Restart ==
    /\ failures' = [k \in GuardKeys |-> NoFailure]
    /\ login' = [c \in Logins |-> Unset]
    /\ guesses' = [e \in Emails |-> NoGuess]
    /\ UNCHANGED tick

Tick ==
    /\ tick < LastTick
    /\ tick' = tick + 1
    /\ guesses' = [e \in Emails |-> [t \in 0..LastTick |->
                                  IF t > tick' - Lockout THEN guesses[e][t] ELSE 0]]
    /\ UNCHANGED <<failures, login>>

GuardNext ==
    \/ \E e \in Emails, a \in Addresses : Refuse(e, a) \/ \E c \in Logins : Check(c, e, a)
    \/ \E c \in Logins : RecordFailure(c) \/ \E disabled \in BOOLEAN : RecordSuccess(c, disabled)
    \/ Restart
    \/ Tick

GuardSpec == GuardInit /\ [][GuardNext]_guardVars

-----------------------------------------------------------------------------

\* Within any time of the length of a lock, at most MaxAttempts wrong passwords
\* are tried for an account, from however many addresses, and as many more as
\* were being verified when the lock fell (the module docstring).
GuessesBounded ==
    \A e \in Emails :
        SumFunction(guesses[e]) <= MaxAttempts + Cardinality(Logins) - 1
=============================================================================
