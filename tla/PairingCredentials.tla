--------------------------- MODULE PairingCredentials ---------------------------
(* The credentials that phones pair with (PairingCredentials in
   src/ale-gui/src/remote_server.rs): a code that expires, and the addresses of the
   desktop, of which one is shown.  The page of the desktop changes them, the
   connections of the server read them; both take their lock for each access. *)
EXTENDS Naturals, Sequences, SequencesExt

CONSTANTS
    Networks,   \* the lists of addresses that the system may report
    NoHost,     \* the empty host
    Ttl,        \* the life of a code
    MaxCodes    \* bound: codes in one behaviour

ASSUME CredentialsAssumption == Ttl \in Nat /\ MaxCodes \in Nat

VARIABLES
    now,         \* the clock
    code,        \* each new code is the next number
    expires,
    addresses,   \* in the order of rank_pairing_addresses
    host,        \* the address that is shown
    manual       \* the one the user chose, or NoHost

credentials == <<code, expires, addresses, host, manual>>

First(list) == IF list = << >> THEN NoHost ELSE Head(list)
ExpiryOf(list) == IF list = << >> THEN now ELSE now + Ttl

\* start: the first address, and a new code.
CredentialsInit ==
    /\ now = 0 /\ code = 1
    /\ addresses \in Networks
    /\ host = First(addresses)
    /\ manual = NoHost
    /\ expires = ExpiryOf(addresses)

\* The user's choice is kept while the network has it.
Kept(list) == IF Contains(list, manual) THEN manual ELSE NoHost

\* replace_addresses: refresh_pairing_network makes a new code for the network as
\* it is found.
ReplaceAddresses(list) ==
    /\ code < MaxCodes
    /\ code' = code + 1
    /\ addresses' = list
    /\ manual' = Kept(list)
    /\ host' = IF Kept(list) # NoHost THEN Kept(list) ELSE First(list)
    /\ expires' = ExpiryOf(list)

\* select_address
SelectAddress(chosen) ==
    /\ Contains(addresses, chosen)
    /\ host' = chosen /\ manual' = chosen
    /\ UNCHANGED <<code, expires, addresses>>

Expired == expires <= now
=================================================================================
