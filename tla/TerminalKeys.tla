---------------------------- MODULE TerminalKeys ----------------------------
(***************************************************************************)
(* The keys payment terminals authenticate with (app/services/             *)
(* terminal_auth.py) and the handlers that keep the terminals              *)
(* (app/api/admin/merchant_routes.py).                                     *)
(*                                                                         *)
(* A terminal stores its key's slow hash and, to be found by, its          *)
(* fingerprint; rows older than the fingerprint have none until their key  *)
(* is first seen.  Hash and fingerprint are modelled as the key they are   *)
(* made of; the secret in the fingerprint does not change.                 *)
(***************************************************************************)
EXTENDS Integers, FiniteSets

CONSTANTS
    Devices,        \* rows of terminal_devices
    Old,            \* those from before the fingerprint
    Serials,
    ApiKeys,
    FirstKey,       \* the key each of the old ones has
    Lookups,        \* concurrent requests of terminals
    NoDevice, NoPrint

ASSUME TerminalAssumption ==
    /\ Old \subseteq Devices /\ NoPrint \notin ApiKeys
    /\ NoDevice \notin [serial : Serials, key : ApiKeys, print : ApiKeys \cup {NoPrint},
                        active : BOOLEAN, sold : BOOLEAN]
    /\ NoDevice \notin [device : Devices, key : ApiKeys]
    /\ FirstKey \in [Old -> ApiKeys]

VARIABLES
    device,         \* device[d]: [serial, key, print, active, sold] or NoDevice
    issued,         \* keys that have been handed out
    lookup,         \* a lookup between finding a row and filling in its print
    shared,         \* keys given to a terminal while another one had them
    crossed         \* terminals whose key was replaced during a lookup of them

terminalVars == <<device, issued, lookup, shared, crossed>>

Registered == {d \in Devices : device[d] # NoDevice}
Live == {d \in Registered : device[d].active}
LookedUp(d) == \E l \in Lookups : lookup[l] # NoDevice /\ lookup[l].device = d

TerminalInit ==
    /\ \E serial \in [Devices -> Serials] :
          /\ \A d, e \in Devices : serial[d] = serial[e] => d = e
          /\ device = [d \in Devices |->
                IF d \in Old
                THEN [serial |-> serial[d], key |-> FirstKey[d], print |-> NoPrint,
                      active |-> TRUE, sold |-> FALSE]
                ELSE NoDevice]
    /\ issued = {FirstKey[d] : d \in Old}
    /\ lookup = [l \in Lookups |-> NoDevice]
    /\ shared = {k \in ApiKeys : \E d, e \in Old : d # e /\ FirstKey[d] = k /\ FirstKey[e] = k}
    /\ crossed = {}

-----------------------------------------------------------------------------

\* find_terminal(): those it may return, each of which it has verified.  With a
\* serial, that one; without, the first with the key's fingerprint, whichever
\* that is, and if it does not verify one of those that have no fingerprint.
FoundBySerial(k, s) == {d \in Live : device[d].serial = s /\ device[d].key = k}
FoundByKey(k) ==
    LET printed == {d \in Live : device[d].print = k}
        old == {d \in Live : device[d].print = NoPrint /\ device[d].key = k}
    IN  {d \in printed : device[d].key = k}
            \cup {d \in old : printed = {} \/ \E e \in printed : device[e].key # k}

Find(l, k, bySerial, s) ==
    LET found == IF bySerial THEN FoundBySerial(k, s) ELSE FoundByKey(k)
    IN  /\ lookup[l] = NoDevice
        /\ \E d \in found :
              /\ device[d].print = NoPrint
              /\ lookup' = [lookup EXCEPT ![l] = [device |-> d, key |-> k]]
        /\ UNCHANGED <<device, issued, shared, crossed>>

\* _backfill_fingerprint(): of the row it found it writes the fingerprint and
\* nothing else; a commit that fails, of a row that is gone too, is let be.
Backfill(l, fails) ==
    LET d == lookup[l].device
    IN  /\ lookup[l] # NoDevice
        /\ device' = IF fails \/ d \notin Registered THEN device
                     ELSE [device EXCEPT ![d].print = lookup[l].key]
        /\ lookup' = [lookup EXCEPT ![l] = NoDevice]
        /\ UNCHANGED <<issued, shared, crossed>>

-----------------------------------------------------------------------------

SerialFree(s, d) == \A e \in Registered \ {d} : device[e].serial # s

\* create_terminal(): a generated key, or one the administrator brings along,
\* which may be another terminal's.  The id of a deleted row is not used again:
\* d stands for a new row once no lookup remembers the one before.
CreateTerminal(d, s, k, active, brought) ==
    /\ d \notin Registered /\ ~LookedUp(d) /\ SerialFree(s, d)
    /\ ~brought => k \notin issued
    /\ device' = [device EXCEPT ![d] =
          [serial |-> s, key |-> k, print |-> k, active |-> active, sold |-> FALSE]]
    /\ issued' = issued \cup {k}
    /\ shared' = shared \cup {j \in {k} : \E e \in Registered : device[e].key = j}
    /\ crossed' = crossed \ {d}
    /\ UNCHANGED lookup

\* update_terminal()
UpdateTerminal(d, s, active) ==
    /\ d \in Registered /\ SerialFree(s, d)
    /\ device' = [device EXCEPT ![d] = [@ EXCEPT !.serial = s, !.active = active]]
    /\ UNCHANGED <<issued, lookup, shared, crossed>>

\* Wrong: the fingerprint of the key before.
HashOnly(row, k) == [row EXCEPT !.key = k]

\* apply_api_key(): hash and fingerprint together.
WithKey(row, k) == [row EXCEPT !.key = k, !.print = k]

\* rotate_terminal_key()
RotateKey(d, k) ==
    /\ d \in Registered /\ k \notin issued
    /\ device' = [device EXCEPT ![d] = WithKey(@, k)]
    /\ issued' = issued \cup {k}
    /\ crossed' = IF LookedUp(d) THEN crossed \cup {d} ELSE crossed \ {d}
    /\ UNCHANGED <<lookup, shared>>

\* delete_terminal(): a terminal with transactions is switched off instead.
DeleteTerminal(d) ==
    /\ d \in Registered
    /\ device' = [device EXCEPT ![d] = IF @.sold THEN [@ EXCEPT !.active = FALSE] ELSE NoDevice]
    /\ UNCHANGED <<issued, lookup, shared, crossed>>

Sale(d) ==
    /\ d \in Live /\ ~device[d].sold
    /\ device' = [device EXCEPT ![d].sold = TRUE]
    /\ UNCHANGED <<issued, lookup, shared, crossed>>

TerminalNext ==
    \/ \E l \in Lookups, k \in ApiKeys, s \in Serials, by \in BOOLEAN : Find(l, k, by, s)
    \/ \E l \in Lookups, fails \in BOOLEAN : Backfill(l, fails)
    \/ \E d \in Devices, s \in Serials, active \in BOOLEAN :
          \/ \E k \in ApiKeys, brought \in BOOLEAN : CreateTerminal(d, s, k, active, brought)
          \/ UpdateTerminal(d, s, active)
    \/ \E d \in Devices, k \in ApiKeys : RotateKey(d, k)
    \/ \E d \in Devices : DeleteTerminal(d) \/ Sale(d)

TerminalSpec == TerminalInit /\ [][TerminalNext]_terminalVars

-----------------------------------------------------------------------------

LiveWith(k) == {d \in Live : device[d].key = k}

\* What _backfill_fingerprint wrote over the fingerprint of a newer key.
Spoiled == {d \in crossed \cap Live : device[d].print # device[d].key}

\* A key that the server made, or that no other terminal had when it was brought
\* along, finds the active terminal it was last given to and nothing else,
\* with the serial or without: one that was replaced, or belongs to a terminal
\* switched off, finds none (rotate_terminal_key's docstring).  A key that two
\* terminals were given finds one of them.  Without the serial this is so
\* unless an old row's key was replaced during a lookup of it, until it is
\* replaced once more: such a terminal is found by its serial only.
KeyFindsItsTerminal ==
    /\ \A k \in ApiKeys : (\A d \in Spoiled : k \notin {device[d].key, device[d].print}) =>
          /\ FoundByKey(k) = {} <=> LiveWith(k) = {}
          /\ k \notin shared => FoundByKey(k) = LiveWith(k) /\ Cardinality(LiveWith(k)) <= 1
    /\ \A d \in Live : FoundBySerial(device[d].key, device[d].serial) = {d}
=============================================================================
