------------------------------ MODULE Identity ------------------------------
(* The one account, its browser sessions and its paired devices.  A request   *)
(* takes the time when it arrives, hashes a password or a code, and reaches   *)
(* the store later, one statement after the other.                            *)
EXTENDS Naturals

CONSTANTS
    Visitors,      \* requests that can be under way at once
    MaxTime,       \* the clock
    MaxVisits,     \* requests in all
    FailureLimit,  \* failures that lock a name and source out, 5 in the code
    Window,        \* within which they count, 15 minutes
    LockTime,      \* for how long, 5 minutes
    IdleTime, AbsoluteTime,   \* of a session, 30 minutes and 7 days
    CodeTime       \* of a pairing code, 10 minutes

ASSUME IdentityAssumption ==
    /\ FailureLimit \in Nat \ {0} /\ {MaxTime, MaxVisits} \subseteq Nat
    /\ {Window, LockTime, IdleTime, AbsoluteTime, CodeTime} \subseteq Nat

VARIABLES
    time,
    account,     \* whether the account was made
    visits,      \* by visitor: the request under way
    visited,     \* requests so far, which also number what they make
    throttle,    \* the rows that count failures of one source, of passwords and of pairing codes
    sessions,    \* by number: when they end, and whether they were revoked
    codes,       \* pairing codes by number
    devices      \* enrolled devices by number

identityVars == <<time, account, visits, visited, throttle, sessions, codes, devices>>

Numbers == 0 .. MaxVisits
Rows == {"password", "code"}
Absent == [is |-> "absent"]
NoVisit == [at |-> "none"]
NoThrottle == [count |-> 0, start |-> 0, retry |-> 0]

NewSession(now) == [is |-> "open", idle |-> now + IdleTime, absolute |-> now + AbsoluteTime]

\* Before the account is made, or with somebody logged in.
IdentityInit ==
    /\ time = 0
    /\ account \in BOOLEAN
    /\ visits = [v \in Visitors |-> NoVisit]
    /\ visited = 0
    /\ throttle = [r \in Rows |-> NoThrottle]
    /\ sessions = [n \in Numbers |-> IF account /\ n = 0 THEN NewSession(0) ELSE Absent]
    /\ codes = [n \in Numbers |-> Absent]
    /\ devices = [n \in Numbers |-> Absent]

TimePasses ==
    /\ time < MaxTime
    /\ time' = time + 1
    /\ UNCHANGED <<account, visits, visited, throttle, sessions, codes, devices>>

Visit(v, state) == visits' = [visits EXCEPT ![v] = state]

\* A request arrives.
Begins(v, state) ==
    /\ visits[v] = NoVisit /\ visited < MaxVisits
    /\ visited' = visited + 1
    /\ Visit(v, state)
    /\ UNCHANGED <<time, account, throttle, sessions, codes, devices>>

Access == {"administrator", "media-read-only"}

-----------------------------------------------------------------------------
(* The account. *)

\* There was none when the request looked, and its secret is right.
AskBootstrap(v) == ~account /\ Begins(v, [at |-> "bootstrap", now |-> time, number |-> visited + 1])

\* The account is a singleton: the second insert is refused.
InsertAccount(v) ==
    /\ visits[v].at = "bootstrap"
    /\ account' = TRUE
    /\ Visit(v, NoVisit)
    /\ UNCHANGED <<time, visited, throttle, sessions, codes, devices>>

-----------------------------------------------------------------------------
(* Names, passwords and codes that do not fit are counted. *)

\* A request during a lock is refused before its password is looked at.
Locked(row) == throttle[row].retry > time

\* A login, or an enrollment with the password, whose password turns out right or wrong.
AskPassword(v) ==
    /\ account /\ ~Locked("password")
    /\ \E right \in BOOLEAN, for \in {"session"} \cup Access :
        Begins(v, [at |-> IF right THEN "clear" ELSE "fail", row |-> "password", for |-> for,
                   code |-> 0, now |-> time, number |-> visited + 1])

\* A failure that comes later than the window of the row opens a new one.
InWindow(row, now) == now <= throttle[row].start + Window

RecordFailure(v) ==
    /\ visits[v].at = "fail"
    /\ LET row == visits[v].row
           now == visits[v].now
       IN  throttle' = [throttle EXCEPT ![row] =
                IF @ = NoThrottle THEN [count |-> 1, start |-> now, retry |-> 0]
                ELSE IF InWindow(row, now) THEN [@ EXCEPT !.count = @ + 1]
                ELSE [@ EXCEPT !.count = 1, !.start = now]]
    /\ Visit(v, [visits[v] EXCEPT !.at = "count"])
    /\ UNCHANGED <<time, account, visited, sessions, codes, devices>>

\* The count is read again, by itself.
CountFailures(v) ==
    /\ visits[v].at = "count"
    /\ Visit(v, IF throttle[visits[v].row].count >= FailureLimit
                THEN [visits[v] EXCEPT !.at = "lock"] ELSE NoVisit)
    /\ UNCHANGED <<time, account, visited, throttle, sessions, codes, devices>>

\* The row may be gone.
LockOut(v) ==
    /\ visits[v].at = "lock"
    /\ throttle' = [throttle EXCEPT ![visits[v].row] =
            IF @ = NoThrottle THEN @ ELSE [@ EXCEPT !.retry = visits[v].now + LockTime]]
    /\ Visit(v, NoVisit)
    /\ UNCHANGED <<time, account, visited, sessions, codes, devices>>

ClearThrottle(v) ==
    /\ visits[v].at = "clear"
    /\ throttle' = [throttle EXCEPT ![visits[v].row] = NoThrottle]
    /\ Visit(v, [visits[v] EXCEPT !.at = IF visits[v].for = "session" THEN "session" ELSE "enroll"])
    /\ UNCHANGED <<time, account, visited, sessions, codes, devices>>

-----------------------------------------------------------------------------
(* Sessions. *)

InsertSession(v) ==
    /\ visits[v].at = "session"
    /\ sessions' = [sessions EXCEPT ![visits[v].number] = NewSession(visits[v].now)]
    /\ Visit(v, NoVisit)
    /\ UNCHANGED <<time, account, visited, throttle, codes, devices>>

Serves(n) == sessions[n].is = "open" /\ sessions[n].idle > time /\ sessions[n].absolute > time

\* A request of a session that serves puts its end off, never past the absolute one.
SlideSession(n) ==
    /\ Serves(n)
    /\ sessions' = [sessions EXCEPT ![n].idle =
            IF time + IdleTime < sessions[n].absolute THEN time + IdleTime ELSE sessions[n].absolute]
    /\ UNCHANGED <<time, account, visits, visited, throttle, codes, devices>>

RevokeSession(n) ==
    /\ Serves(n)
    /\ sessions' = [sessions EXCEPT ![n].is = "revoked"]
    /\ UNCHANGED <<time, account, visits, visited, throttle, codes, devices>>

-----------------------------------------------------------------------------
(* Devices. *)

\* A session asks for a code, for a kind of access; used codes stay, expired ones go.
IssueCode(v) ==
    /\ visits[v] = NoVisit /\ visited < MaxVisits
    /\ \E n \in Numbers : Serves(n)
    /\ visited' = visited + 1
    /\ \E access \in Access :
        codes' = [n \in Numbers |->
            IF n = visited + 1 THEN [is |-> "code", expires |-> time + CodeTime, access |-> access, used |-> FALSE]
            ELSE IF codes[n] # Absent /\ codes[n].expires < time THEN Absent ELSE codes[n]]
    /\ UNCHANGED <<time, account, visits, throttle, sessions, devices>>

\* Somebody types a code in, one that exists or one that does not.
AskEnrollment(v) ==
    /\ ~Locked("code")
    /\ \E n \in {0} \cup {m \in Numbers : codes[m] # Absent}, for \in Access :
        Begins(v, [at |-> "consume", row |-> "code", for |-> for, code |-> n, now |-> time,
                   number |-> visited + 1])

\* (Mutant: a code serves again until it expires.)
Redeemable(c, now, for) ==
    codes[c].expires > now /\ (codes[c].access = "administrator" \/ for = "media-read-only")

\* Not used, not expired, and for no more access than it was issued for.
Consumable(c, now, for) ==
    ~codes[c].used /\ codes[c].expires > now /\ (codes[c].access = "administrator" \/ for = "media-read-only")

ConsumeCode(v) ==
    /\ visits[v].at = "consume"
    /\ LET c == visits[v].code IN
        IF c # 0 /\ codes[c] # Absent /\ Consumable(c, visits[v].now, visits[v].for)
        THEN /\ codes' = [codes EXCEPT ![c].used = TRUE]
             /\ Visit(v, [visits[v] EXCEPT !.at = "clear"])
        ELSE Visit(v, [visits[v] EXCEPT !.at = "fail"]) /\ UNCHANGED codes
    /\ UNCHANGED <<time, account, visited, throttle, sessions, devices>>

\* The device's name is looked at only now: a wrong one costs the code.
InsertDevice(v) ==
    /\ visits[v].at = "enroll"
    /\ \/ devices' = [devices EXCEPT ![visits[v].number] =
                [is |-> "enrolled", access |-> visits[v].for, code |-> visits[v].code,
                 token |-> visits[v].number]]
       \/ UNCHANGED devices
    /\ Visit(v, NoVisit)
    /\ UNCHANGED <<time, account, visited, throttle, sessions, codes>>

\* A device that was let in asks for a new token, and gets it if it is still enrolled by then.
AskRotation(v) ==
    \E n \in Numbers :
        /\ devices[n].is = "enrolled"
        /\ Begins(v, [at |-> "rotate", device |-> n, now |-> time, number |-> visited + 1])

RotateToken(v) ==
    /\ visits[v].at = "rotate"
    /\ LET n == visits[v].device IN
        devices' = IF devices[n].is = "enrolled" THEN [devices EXCEPT ![n].token = visits[v].number]
                   ELSE devices
    /\ Visit(v, NoVisit)
    /\ UNCHANGED <<time, account, visited, throttle, sessions, codes>>

\* By the administrator, or by the device itself.
RevokeDevice(n) ==
    /\ devices[n].is = "enrolled"
    /\ devices' = [devices EXCEPT ![n].is = "revoked"]
    /\ UNCHANGED <<time, account, visits, visited, throttle, sessions, codes>>

IdentityNext ==
    \/ TimePasses
    \/ \E v \in Visitors :
        \/ AskBootstrap(v) \/ InsertAccount(v)
        \/ AskPassword(v) \/ RecordFailure(v) \/ CountFailures(v) \/ LockOut(v) \/ ClearThrottle(v)
        \/ InsertSession(v) \/ IssueCode(v) \/ AskEnrollment(v) \/ ConsumeCode(v) \/ InsertDevice(v)
        \/ AskRotation(v) \/ RotateToken(v)
    \/ \E n \in Numbers : SlideSession(n) \/ RevokeSession(n) \/ RevokeDevice(n)

IdentitySpec == IdentityInit /\ [][IdentityNext]_identityVars

-----------------------------------------------------------------------------
(* Properties. *)

\* Whoever comes at the same time: a code lets in one device, with no more access than it was
\* issued for.
OneDevicePerCode ==
    \A d, e \in Numbers :
        (devices[d] # Absent /\ devices[d].code # 0) =>
            /\ codes[devices[d].code] # Absent =>
                    (codes[devices[d].code].access = "administrator" \/ devices[d].access = "media-read-only")
            /\ (devices[e] # Absent /\ devices[e].code = devices[d].code) => d = e
=============================================================================
