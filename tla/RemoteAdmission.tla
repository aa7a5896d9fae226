---------------------------- MODULE RemoteAdmission ----------------------------
(* How a connection becomes a session of the remote server, and what the server
   lets each address do (start, handle_connection up to its ClientHello,
   PairingLimiter and ClientRequestLimiter in src/ale-gui/src/remote_server.rs).
   The code may be replaced and may expire between any two steps. *)
EXTENDS PairingCredentials, FiniteSets, Functions

CONSTANTS
    Connection,       \* MAX_CONNECTIONS of them
    Address,          \* the addresses that phones come from
    Window,           \* the minute of both limiters
    MaxFailures,      \* MAX_PAIRING_FAILURES_PER_MINUTE
    MaxRequests,      \* MAX_REQUESTS_PER_MINUTE
    MaxTracked,       \* the addresses each limiter keeps
    MaxTime           \* bound: the clock

ASSUME AdmissionAssumption ==
    /\ {Window, MaxFailures, MaxRequests, MaxTracked} \subseteq Nat \ {0}
    /\ MaxTime \in Nat /\ IsFiniteSet(Connection) /\ Address # {}

VARIABLES
    connection,   \* "free", "upgrade", "handshake", "hello", "checked", "open"
    peer,         \* the address each connection comes from
    used,         \* the code its handshake was answered with
    sessions,     \* UiHub's sessions: what the desktop shows as connected
    overtaken,    \* the connections whose code was replaced or expired while their
                  \* ClientHello was still to come (history)
    failures,     \* PairingLimiter: the times of failures of an address
    rates,        \* ClientRequestLimiter: the times of requests
    failed,       \* the failures of an address, since it last paired (history)
    granted       \* the requests of an address that were let through (history)

admissionVars == <<now, credentials, connection, peer, used, sessions, overtaken,
                   failures, rates, failed, granted>>
connections == <<connection, peer, used, sessions, overtaken>>
limiters == <<failures, rates>>
history == <<failed, granted>>

AdmissionInit ==
    /\ CredentialsInit
    /\ connection = [c \in Connection |-> "free"]
    /\ peer = [c \in Connection |-> CHOOSE a \in Address : TRUE]
    /\ used = [c \in Connection |-> 0]
    /\ sessions = {} /\ overtaken = {}
    /\ failures = << >> /\ rates = << >>
    /\ failed = [a \in Address |-> << >>]
    /\ granted = [a \in Address |-> << >>]

------------------------------------------------------------------------------
(* The limiters: per address, the times within the window. *)

\* purge: the oldest times go, up to the first that is within the window.
Recent(times, at) ==
    LET old == {i \in DOMAIN times : \A j \in 1..i : at - times[j] >= Window}
    IN SubSeq(times, Cardinality(old) + 1, Len(times))

\* Mutant: a window that begins with the first of the times.
PurgedWhole(table) ==
    [a \in {b \in DOMAIN table : table[b] # << >> /\ now - Head(table[b]) < Window} |-> table[a]]

\* allow of both: the times that are too old go, and the addresses without any.
Purged(table) ==
    [a \in {b \in DOMAIN table : Recent(table[b], now) # << >>} |-> Recent(table[a], now)]

TimesOf(table, a) == IF a \in DOMAIN table THEN table[a] ELSE << >>
With(table, a, times) == [b \in DOMAIN table \union {a} |-> IF b = a THEN times ELSE table[b]]

\* A new address is refused while the table is full.
Tracks(table, a) == a \in DOMAIN table \/ Cardinality(DOMAIN table) < MaxTracked

\* PairingLimiter::allow makes an entry for the address it answers.
PairingAllowed(a) == Tracks(Purged(failures), a) /\ Len(TimesOf(Purged(failures), a)) < MaxFailures
AfterPairingAllow(a) ==
    IF Tracks(Purged(failures), a)
    THEN With(Purged(failures), a, TimesOf(Purged(failures), a)) ELSE Purged(failures)

RecordFailure(a) ==
    /\ failures' = With(failures, a, Append(TimesOf(failures, a), now))
    /\ failed' = [failed EXCEPT ![a] = Append(@, now)]

RecordSuccess(a) ==
    /\ failures' = [b \in DOMAIN failures \ {a} |-> failures[b]]
    /\ failed' = [failed EXCEPT ![a] = << >>]

\* ClientRequestLimiter::allow
RequestAllowed(a) == Tracks(Purged(rates), a) /\ Len(TimesOf(Purged(rates), a)) < MaxRequests

------------------------------------------------------------------------------
(* The life of a connection. *)

\* The connection ends; SessionGuard takes its session away.
Closed(c) ==
    /\ connection' = [connection EXCEPT ![c] = "free"]
    /\ used' = [used EXCEPT ![c] = 0]
    /\ sessions' = sessions \ {c}
    /\ overtaken' = overtaken \ {c}

Reaches(c, stage) == connection' = [connection EXCEPT ![c] = stage]

\* The accept loop: the limiter is asked first, then a slot is taken.
Accept(a) ==
    /\ failures' = AfterPairingAllow(a)
    /\ IF PairingAllowed(a)
       THEN \/ \E c \in Connection : /\ connection[c] = "free"
                                     /\ Reaches(c, "upgrade")
                                     /\ peer' = [peer EXCEPT ![c] = a]
            \/ /\ \A c \in Connection : connection[c] # "free"
               /\ UNCHANGED <<connection, peer>>
       ELSE UNCHANGED <<connection, peer>>
    /\ UNCHANGED <<now, credentials, used, sessions, overtaken, rates, history>>

\* Each stage before the code is known may fail: an error, a timeout, a message
\* that is not a handshake.
FailEarly(c) ==
    /\ connection[c] \in {"upgrade", "handshake"}
    /\ RecordFailure(peer[c])
    /\ Closed(c)
    /\ UNCHANGED <<now, credentials, peer, rates, granted>>

Upgrade(c) ==
    /\ connection[c] = "upgrade"
    /\ Reaches(c, "handshake")
    /\ UNCHANGED <<now, credentials, peer, used, sessions, overtaken, limiters, history>>

\* The phone's handshake, with the code it was given: an expired code is refused
\* without a record, a wrong one is a failure, the right one is answered.
Handshake(c, tried) ==
    /\ connection[c] = "handshake"
    /\ IF Expired THEN Closed(c) /\ UNCHANGED <<failures, failed>>
       ELSE IF tried # code THEN RecordFailure(peer[c]) /\ Closed(c)
       ELSE /\ RecordSuccess(peer[c])
            /\ Reaches(c, "hello")
            /\ used' = [used EXCEPT ![c] = code]
            /\ UNCHANGED <<sessions, overtaken>>
    /\ UNCHANGED <<now, credentials, peer, rates, granted>>

\* What a ClientHello finds, under the lock of the credentials.
Answered(c, refused) ==
    /\ connection[c] = "hello"
    /\ IF refused THEN Closed(c)
       ELSE Reaches(c, "checked") /\ UNCHANGED <<used, sessions, overtaken>>
    /\ UNCHANGED <<now, credentials, peer, limiters, history>>

\* Mutant: the time of the code is looked at in the handshake only.
HelloAnyTime(c) == Answered(c, used[c] # code)

\* ClientHello looks at the credentials again ...
Hello(c) == Answered(c, Expired \/ used[c] # code)

\* ... and, when it has given them back, the hub gets the session.
Join(c) ==
    /\ connection[c] = "checked"
    /\ Reaches(c, "open")
    /\ sessions' = sessions \union {c}
    /\ UNCHANGED <<now, credentials, peer, used, overtaken, limiters, history>>

\* Another message, another version, or the end of the connection.
Leave(c) ==
    /\ connection[c] \in {"hello", "open"}
    /\ Closed(c)
    /\ UNCHANGED <<now, credentials, peer, limiters, history>>

\* A command or a recording begins, if the address may; else it is RATE_LIMITED.
Ask(c) ==
    /\ connection[c] = "open"
    /\ IF RequestAllowed(peer[c])
       THEN /\ rates' = With(Purged(rates), peer[c], Append(TimesOf(Purged(rates), peer[c]), now))
            /\ granted' = [granted EXCEPT ![peer[c]] = Append(@, now)]
       ELSE rates' = Purged(rates) /\ UNCHANGED granted
    /\ UNCHANGED <<now, credentials, connections, failures, failed>>

------------------------------------------------------------------------------

\* The connections that have yet to say ClientHello.
Pairing == {c \in Connection : connection[c] = "hello"}

\* A new code is never an old one: the chance of one in a million is left out.
Rotate ==
    /\ \E list \in Networks : ReplaceAddresses(list)
    /\ overtaken' = overtaken \union Pairing
    /\ UNCHANGED <<now, connection, peer, used, sessions, limiters, history>>

\* The history may forget its oldest times as they leave the window.
Tick ==
    /\ now < MaxTime
    /\ now' = now + 1
    /\ overtaken' = IF expires <= now' THEN overtaken \union Pairing ELSE overtaken
    /\ failed' = [a \in Address |-> Recent(failed[a], now')]
    /\ granted' = [a \in Address |-> Recent(granted[a], now')]
    /\ UNCHANGED <<credentials, connection, peer, used, sessions, limiters>>

ConnectionStep(c) ==
    \/ FailEarly(c) \/ Upgrade(c) \/ Hello(c) \/ Join(c) \/ Leave(c) \/ Ask(c)
    \/ \E tried \in {code - 1, code} : Handshake(c, tried)

AdmissionNext ==
    \/ \E a \in Address : Accept(a)
    \/ \E c \in Connection : ConnectionStep(c)
    \/ Rotate \/ Tick

------------------------------------------------------------------------------
(* Properties. *)

InWindow(times) == {i \in DOMAIN times : now - times[i] < Window}

\* Whatever the order in which the connections of an address fail, pair and ask:
\* no minute sees more requests of an address let through than the limit, and none
\* sees more failures since the address last paired than the limit and the
\* connections that were let in before it was reached; and the tables are bounded.
LimitsHold ==
    /\ \A a \in Address :
          /\ Cardinality(InWindow(granted[a])) <= MaxRequests
          /\ Cardinality(InWindow(failed[a])) <= MaxFailures - 1 + Cardinality(Connection)
    /\ Cardinality(DOMAIN rates) <= MaxTracked
    /\ Cardinality(DOMAIN failures) <= MaxTracked + Cardinality(Connection)

\* A connection whose code is replaced or expires after the handshake and before its
\* ClientHello has been looked at never becomes a session, whatever comes between:
\* the only code that is not the current one any more and still pairs was looked at
\* when it was, its session then being on the way to the hub (PAIRING_EXPIRED).
OvertakenNeverPairs == sessions \intersect overtaken = {}
=================================================================================
