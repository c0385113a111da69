------------------------------- MODULE SignIn -------------------------------
(***************************************************************************)
(* Signing in to the box (jarvis/users.go, serve_index.go, serve_sudo.go,  *)
(* totp.go, sessions.go): the root user's password, the count of recent    *)
(* failures that limits the rate of tries, the second factor (TOTP), the   *)
(* short sessions between the steps, and the pages that switch the second  *)
(* factor on and off.                                                      *)
(*                                                                         *)
(* The pages are served concurrently.  One request is a sequence of reads  *)
(* and writes of the user's row, each atomic, with others in between; the  *)
(* row is kept when the process stops, the requests are not.  A code is    *)
(* the secret it was computed from, a session the time it still is good    *)
(* for.                                                                    *)
(***************************************************************************)
EXTENDS Integers, FiniteSets

CONSTANTS
    Req,            \* requests that are served at once
    Password, Secret,
    Limit,          \* failures that stop further tries (5 in the code)
    Window,         \* how long a failure counts (3 minutes)
    TokenTTL,       \* between password and code (3 minutes)
    SudoTTL,        \* after confirming the password (10 minutes)
    MaxTime,        \* bound on the clock
    MaxLost,        \* bound on failures that are not recorded
    None

ASSUME SignInAssumption ==
    /\ {Limit, Window, TokenTTL, SudoTTL} \subseteq Nat \ {0}
    /\ {MaxTime, MaxLost} \subseteq Nat
    /\ IsFiniteSet(Req) /\ Req # {}
    /\ None \notin Secret

VARIABLES
    now,
    password,   \* the user's row: password,
    totp,       \* secret of the second factor, None when it is off,
    fails,      \* recent failures: how many at each time
    setups,     \* secrets that were shown to be set up, signed
    signedIn,   \* the browser's session cookie,
    token,      \* its token for the page that asks for the code,
    sudo,       \* its cookie of a confirmed password
    req,        \* the requests
    tries,      \* history: wrong passwords tried since the last success
    lost,       \* history: of these, the ones not recorded
    unguarded   \* history: a sign-in without a code, the second factor being on

row == <<password, totp, fails>>
browser == <<signedIn, token, sudo>>
vars == <<now, row, setups, browser, req, tries, lost, unguarded>>

Time == 0..MaxTime
\* off: the second factor was off at some time since the password was right.
Idle == [step |-> "idle", forSudo |-> FALSE, at |-> 0, arg |-> None,
         off |-> FALSE]
Busy(r, step) == req[r].step = step
Goto(r, step) == req' = [req EXCEPT ![r].step = step]
Answer(r) == req' = [req EXCEPT ![r] = Idle]
Started(r, step, arg) == req' = [req EXCEPT ![r] = [Idle EXCEPT !.step = step, !.arg = arg]]

\* A new box: backendInit made the user, with a random password.
Init ==
    /\ now = 0
    /\ password \in Password /\ totp = None /\ fails = [t \in Time |-> 0]
    /\ setups = {}
    /\ signedIn = FALSE /\ token = 0 /\ sudo = 0
    /\ req = [r \in Req |-> Idle]
    /\ tries = [t \in Time |-> 0] /\ lost = 0 /\ unguarded = FALSE

-----------------------------------------------------------------------------
(* recentFailures. *)

InWindow(t) == {u \in Time : u > t - Window}
\* The entries of a list at some times, those of one time numbered.
Entries(f, T) == UNION {{u} \X (1 .. f[u]) : u \in T}
\* How many failures are recent at t; an own entry may be later than t.
count(f, t) == Cardinality(Entries(f, InWindow(t)))
add(f, t) == [u \in Time |-> IF u = t THEN f[u] + 1 ELSE IF u \in InWindow(t) THEN f[u] ELSE 0]

-----------------------------------------------------------------------------
(* A password: on the sign-in page, or to confirm who asks (sudo).         *)

Submit(r) ==
    /\ Busy(r, "idle")
    /\ \E forSudo \in BOOLEAN :
          /\ forSudo => signedIn
          /\ req' = [req EXCEPT ![r] = [Idle EXCEPT !.step = "limit", !.forSudo = forSudo, !.at = now]]
    /\ UNCHANGED <<now, row, setups, browser, tries, lost, unguarded>>

\* Mutant: one failure too many.
rateLimitLate(r) ==
    /\ Busy(r, "limit")
    /\ IF count(fails, req[r].at) <= Limit THEN Goto(r, "check") ELSE Answer(r)
    /\ UNCHANGED <<now, row, setups, browser, tries, lost, unguarded>>

loginRateLimit(r) ==
    /\ Busy(r, "limit")
    /\ IF count(fails, req[r].at) < Limit THEN Goto(r, "check") ELSE Answer(r)
    /\ UNCHANGED <<now, row, setups, browser, tries, lost, unguarded>>

\* The row is read again; the password given is right or wrong.
checkPassword(r) ==
    /\ Busy(r, "check")
    /\ \E given \in Password :
          IF given = password
          THEN /\ req' = [req EXCEPT ![r].step = "success", ![r].off = totp = None]
               /\ tries' = tries
          ELSE /\ Goto(r, "failure")
               /\ tries' = [tries EXCEPT ![req[r].at] = @ + 1]
    /\ UNCHANGED <<now, row, setups, browser, lost, unguarded>>

\* An error of the table is only logged.
recordLoginFailure(r) ==
    /\ Busy(r, "failure")
    /\ \/ fails' = add(fails, req[r].at) /\ lost' = lost
       \/ lost < MaxLost /\ lost' = lost + 1 /\ fails' = fails
    /\ Answer(r)
    /\ UNCHANGED <<now, password, totp, setups, browser, tries, unguarded>>

\* Mutant: signed in by the password, before the second factor is looked at.
successSignsIn(r) ==
    /\ Busy(r, "success")
    /\ fails' = [t \in Time |-> 0]
    /\ tries' = [t \in Time |-> Cardinality({q \in Req : Busy(q, "failure") /\ req[q].at = t})]
    /\ Goto(r, IF req[r].forSudo THEN "sudo" ELSE "totp")
    /\ signedIn' = TRUE /\ unguarded' = (unguarded \/ ~req[r].off)
    /\ UNCHANGED <<now, password, totp, setups, token, sudo, lost>>

recordLoginSuccess(r) ==
    /\ Busy(r, "success")
    /\ fails' = [t \in Time |-> 0]
    /\ tries' = [t \in Time |-> Cardinality({q \in Req : Busy(q, "failure") /\ req[q].at = t})]
    /\ Goto(r, IF req[r].forSudo THEN "sudo" ELSE "totp")
    /\ UNCHANGED <<now, password, totp, setups, browser, lost, unguarded>>

SetSudo(r) ==
    /\ Busy(r, "sudo")
    /\ sudo' = SudoTTL
    /\ Answer(r)
    /\ UNCHANGED <<now, row, setups, signedIn, token, tries, lost, unguarded>>

(* Signing in: with the password alone, or with a code as well. *)

totpInfo(r) ==
    /\ Busy(r, "totp")
    /\ IF totp = None
       THEN signedIn' = TRUE /\ token' = token /\ unguarded' = (unguarded \/ ~req[r].off)
       ELSE token' = TokenTTL /\ UNCHANGED <<signedIn, unguarded>>
    /\ Answer(r)
    /\ UNCHANGED <<now, row, setups, sudo, tries, lost>>

SubmitCode(r) ==
    /\ Busy(r, "idle")
    /\ token > 0
    /\ \E code \in Secret : Started(r, "code", code)
    /\ UNCHANGED <<now, row, setups, browser, tries, lost, unguarded>>

\* No second factor any more is an error, a wrong code goes back to the page.
checkTOTP(r) ==
    /\ Busy(r, "code")
    /\ signedIn' = (signedIn \/ req[r].arg = totp)
    /\ Answer(r)
    /\ UNCHANGED <<now, row, setups, token, sudo, tries, lost, unguarded>>

SignOut ==
    /\ signedIn /\ signedIn' = FALSE /\ sudo' = 0
    /\ UNCHANGED <<now, row, setups, token, req, tries, lost, unguarded>>

-----------------------------------------------------------------------------
(* The second factor, behind sudo; the old secret is replaced unasked. *)

Sudoer == signedIn /\ sudo > 0

\* The page only shows a new secret when it finds the factor off, the call always.
setup ==
    /\ Sudoer
    /\ \E s \in Secret \ setups : setups' = setups \cup {s}
    /\ UNCHANGED <<now, row, browser, req, tries, lost, unguarded>>

\* Mutant: the signature of the secret is not checked.
EnableAny(r) ==
    /\ Busy(r, "idle") /\ Sudoer
    /\ \E s \in Secret : Started(r, "enable", s)
    /\ UNCHANGED <<now, row, setups, browser, tries, lost, unguarded>>

\* With the signed secret and a code made from it.
Enable(r) ==
    /\ Busy(r, "idle") /\ Sudoer
    /\ \E s \in setups : Started(r, "enable", s)
    /\ UNCHANGED <<now, row, setups, browser, tries, lost, unguarded>>

activateTOTP(r) ==
    /\ Busy(r, "enable")
    /\ totp' = req[r].arg
    /\ Answer(r)
    /\ UNCHANGED <<now, password, fails, setups, browser, tries, lost, unguarded>>

Disable(r) ==
    /\ Busy(r, "idle") /\ Sudoer
    /\ Started(r, "disable", None)
    /\ UNCHANGED <<now, row, setups, browser, tries, lost, unguarded>>

SeenOff(f) == [q \in Req |-> [f[q] EXCEPT !.off = @ \/ f[q].step \in {"success", "totp"}]]

disableTOTP(r) ==
    /\ Busy(r, "disable")
    /\ totp' = None
    /\ req' = SeenOff([req EXCEPT ![r] = Idle])
    /\ UNCHANGED <<now, password, fails, setups, browser, tries, lost, unguarded>>

-----------------------------------------------------------------------------
(* The password, by its owner or by the administrator of the box. *)

\* A wrong old password is refused, as often as it is given: this check looks at no
\* rate limit and records no failure, so that tries does not count it either.
setPassword(old, new) ==
    /\ old = password
    /\ password' = new
    /\ UNCHANGED <<now, totp, fails, setups, browser, req, tries, lost, unguarded>>

changePassword == signedIn /\ \E old, new \in Password : setPassword(old, new)
SetRootPassword == \E new \in Password : setPassword(password, new)

AdminDisableTOTP ==
    /\ totp' = None
    /\ req' = SeenOff(req)
    /\ UNCHANGED <<now, password, fails, setups, browser, tries, lost, unguarded>>

-----------------------------------------------------------------------------
(* Time passes; the process stops. *)

Left(session) == IF session = 0 THEN 0 ELSE session - 1

Tick ==
    /\ now < MaxTime /\ now' = now + 1
    /\ token' = Left(token) /\ sudo' = Left(sudo)
    /\ UNCHANGED <<row, setups, signedIn, req, tries, lost, unguarded>>

Stop ==
    /\ lost' = lost + Cardinality({r \in Req : Busy(r, "failure")})
    /\ lost' <= MaxLost
    /\ req' = [r \in Req |-> Idle]
    /\ UNCHANGED <<now, row, setups, browser, tries, unguarded>>

Next ==
    \/ \E r \in Req :
          \/ Submit(r) \/ loginRateLimit(r) \/ checkPassword(r)
          \/ recordLoginFailure(r) \/ recordLoginSuccess(r) \/ SetSudo(r)
          \/ totpInfo(r) \/ SubmitCode(r) \/ checkTOTP(r)
          \/ Enable(r) \/ activateTOTP(r) \/ Disable(r) \/ disableTOTP(r)
    \/ SignOut \/ setup \/ changePassword \/ SetRootPassword \/ AdminDisableTOTP
    \/ Tick \/ Stop

Spec == Init /\ [][Next]_vars

-----------------------------------------------------------------------------
(* Properties *)

Step == {"idle", "limit", "check", "failure", "success", "totp", "sudo", "code",
         "enable", "disable"}

\* A second factor in effect was set up by the box, failures are counted from
\* the clock, and each request is at a place of its handler.
TypeOK ==
    /\ now \in Time
    /\ password \in Password /\ totp \in setups \cup {None} /\ setups \subseteq Secret
    /\ fails \in [Time -> Nat] /\ tries \in [Time -> Nat] /\ lost \in 0..MaxLost
    /\ signedIn \in BOOLEAN /\ token \in 0..TokenTTL /\ sudo \in 0..SudoTTL
    /\ req \in [Req -> [step : Step, forSudo : BOOLEAN, at : Time,
                        arg : Secret \cup {None}, off : BOOLEAN]]
    /\ unguarded \in BOOLEAN

\* Nobody is signed in by a password alone when the second factor has been on
\* ever since that password was found right: enabling it takes effect for the
\* requests that are under way (serveLogin reads the row again).
SignInGuarded == ~unguarded

\* Wrong passwords of the window that ends at t, by the time the request took.
Tried(t) == Cardinality(Entries(tries, InWindow(t) \cap 0..t))

\* The rate limit of signing in and of sudo under concurrency (changing the password
\* has none: users.go:83-87, where the one who tries is signed in).  All requests may have read the count before
\* any has recorded its failure, so as many more slip through; and requests that
\* outlive the window are counted against a list from which a later failure has
\* removed the old entries.  It is never more than that, whatever is interleaved.
RateHolds == \A t \in Time : Tried(t) <= Limit + 2 * (Cardinality(Req) - 1) + lost

=============================================================================
