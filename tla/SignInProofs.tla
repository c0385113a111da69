---------------------------- MODULE SignInProofs ----------------------------
(***************************************************************************)
(* That the second factor guards every sign-in, and that the limit on      *)
(* wrong passwords holds, for any number of requests at once and any       *)
(* limits.                                                                 *)
(***************************************************************************)
EXTENDS SignIn, FiniteSetTheorems, TLAPS

\* The variables that are true or false.
Booleans == signedIn \in BOOLEAN /\ unguarded \in BOOLEAN

\* The user's row, the clock and what the browser has.
Types ==
    /\ now \in Time
    /\ password \in Password /\ totp \in setups \cup {None} /\ setups \subseteq Secret
    /\ fails \in [Time -> Nat] /\ tries \in [Time -> Nat] /\ lost \in 0..MaxLost
    /\ token \in 0..TokenTTL /\ sudo \in 0..SudoTTL

\* The requests; the one that enables the second factor has a secret of the box.
Request == [step : Step, forSudo : BOOLEAN, at : Time, arg : Secret \cup {None}, off : BOOLEAN]
Requests ==
    /\ req \in [Req -> Request]
    /\ \A r \in Req : Busy(r, "enable") => req[r].arg \in setups

\* A request whose password was right only finds the second factor off when it has been
\* off at some time since.
Passed(r) == Busy(r, "success") \/ Busy(r, "totp")
Guarded ==
    /\ SignInGuarded
    /\ \A r \in Req : Passed(r) /\ totp = None => req[r].off

\* The inductive invariant.
IInv == Booleans /\ Types /\ Requests /\ Guarded

-----------------------------------------------------------------------------
\* The type invariant follows from the first three.
LEMMA TypeParts == Booleans /\ Types /\ Requests => TypeOK
BY DEF TypeOK, Booleans, Types, Requests, Request

\* How many requests are at a step is a number.
LEMMA HowMany == ASSUME NEW S \in SUBSET Req PROVE Cardinality(S) \in Nat
BY SignInAssumption, FS_Subset, FS_CardinalityType

\* Every step keeps the booleans.
LEMMA BooleansStep ==
    ASSUME Booleans, [Next]_vars
    PROVE  Booleans'
<1> USE Zenon DEF Booleans, row, browser, Busy, Goto, Answer, Started
<1>1. ASSUME NEW r \in Req, Submit(r) PROVE Booleans' BY <1>1 DEF Submit
<1>2. ASSUME NEW r \in Req, loginRateLimit(r) PROVE Booleans' BY <1>2 DEF loginRateLimit
<1>3. ASSUME NEW r \in Req, checkPassword(r) PROVE Booleans' BY <1>3 DEF checkPassword
<1>4. ASSUME NEW r \in Req, recordLoginFailure(r) PROVE Booleans' BY <1>4 DEF recordLoginFailure
<1>5. ASSUME NEW r \in Req, recordLoginSuccess(r) PROVE Booleans' BY <1>5 DEF recordLoginSuccess
<1>6. ASSUME NEW r \in Req, SetSudo(r) PROVE Booleans' BY <1>6 DEF SetSudo
<1>7. ASSUME NEW r \in Req, totpInfo(r) PROVE Booleans' BY <1>7 DEF totpInfo
<1>8. ASSUME NEW r \in Req, SubmitCode(r) PROVE Booleans' BY <1>8 DEF SubmitCode
<1>9. ASSUME NEW r \in Req, checkTOTP(r) PROVE Booleans' BY <1>9 DEF checkTOTP
<1>10. ASSUME NEW r \in Req, Enable(r) PROVE Booleans' BY <1>10 DEF Enable
<1>11. ASSUME NEW r \in Req, activateTOTP(r) PROVE Booleans' BY <1>11 DEF activateTOTP
<1>12. ASSUME NEW r \in Req, Disable(r) PROVE Booleans' BY <1>12 DEF Disable
<1>13. ASSUME NEW r \in Req, disableTOTP(r) PROVE Booleans' BY <1>13 DEF disableTOTP
<1>14. CASE SignOut BY <1>14 DEF SignOut
<1>15. CASE setup BY <1>15 DEF setup
<1>16. CASE changePassword BY <1>16 DEF changePassword, setPassword
<1>17. CASE SetRootPassword BY <1>17 DEF SetRootPassword, setPassword
<1>18. CASE AdminDisableTOTP BY <1>18 DEF AdminDisableTOTP
<1>19. CASE Tick BY <1>19 DEF Tick
<1>20. CASE Stop BY <1>20 DEF Stop
<1>21. CASE UNCHANGED vars BY <1>21 DEF vars
<1> QED
    BY <1>1, <1>2, <1>3, <1>4, <1>5, <1>6, <1>7, <1>8, <1>9, <1>10, <1>11, <1>12, <1>13,
       <1>14, <1>15, <1>16, <1>17, <1>18, <1>19, <1>20, <1>21
       DEF Next

\* Every step keeps the row, the clock and the browser well typed.
LEMMA TypesStep ==
    ASSUME Types, Requests, [Next]_vars
    PROVE  Types'
<1> USE SignInAssumption
    DEF Types, Requests, Request, Time, Sudoer, Left, row, browser,
        Busy, Goto, Answer, Started
<1>1. ASSUME NEW r \in Req, Submit(r) PROVE Types' BY <1>1 DEF Submit
<1>2. ASSUME NEW r \in Req, loginRateLimit(r) PROVE Types' BY <1>2 DEF loginRateLimit
<1>3. ASSUME NEW r \in Req, checkPassword(r) PROVE Types'
    <2> HIDE DEF Time
    <2>1. req[r].at \in Time OBVIOUS
    <2>2. tries' = tries \/ tries' = [tries EXCEPT ![req[r].at] = tries[req[r].at] + 1]
        BY <1>3 DEF checkPassword
    <2>3. tries' \in [Time -> Nat] BY <2>1, <2>2
    <2>4. UNCHANGED <<now, password, totp, setups, fails, lost, token, sudo>>
        BY <1>3 DEF checkPassword
    <2> QED BY <2>3, <2>4
<1>4. ASSUME NEW r \in Req, recordLoginFailure(r) PROVE Types'
    <2> HIDE DEF Time
    <2>1. add(fails, req[r].at) \in [Time -> Nat] BY DEF add
    <2>2. fails' = add(fails, req[r].at) \/ fails' = fails BY <1>4 DEF recordLoginFailure
    <2>3. fails' \in [Time -> Nat] BY <2>1, <2>2
    <2>4. UNCHANGED <<now, password, totp, setups, tries, token, sudo>>
        BY <1>4 DEF recordLoginFailure
    <2>5. lost' \in 0..MaxLost BY <1>4 DEF recordLoginFailure
    <2> QED BY <2>3, <2>4, <2>5
<1>5. ASSUME NEW r \in Req, recordLoginSuccess(r) PROVE Types'
    <2>1. \A t \in Time : Cardinality({q \in Req : Busy(q, "failure") /\ req[q].at = t}) \in Nat
        BY HowMany
    <2> QED BY <1>5, <2>1 DEF recordLoginSuccess
<1>6. ASSUME NEW r \in Req, SetSudo(r) PROVE Types' BY <1>6 DEF SetSudo
<1>7. ASSUME NEW r \in Req, totpInfo(r) PROVE Types' BY <1>7 DEF totpInfo
<1>8. ASSUME NEW r \in Req, SubmitCode(r) PROVE Types' BY <1>8 DEF SubmitCode
<1>9. ASSUME NEW r \in Req, checkTOTP(r) PROVE Types' BY <1>9 DEF checkTOTP
<1>10. ASSUME NEW r \in Req, Enable(r) PROVE Types' BY <1>10 DEF Enable
<1>11. ASSUME NEW r \in Req, activateTOTP(r) PROVE Types' BY <1>11 DEF activateTOTP
<1>12. ASSUME NEW r \in Req, Disable(r) PROVE Types' BY <1>12 DEF Disable
<1>13. ASSUME NEW r \in Req, disableTOTP(r) PROVE Types' BY <1>13 DEF disableTOTP
<1>14. CASE SignOut BY <1>14 DEF SignOut
<1>15. CASE setup BY <1>15 DEF setup
<1>16. CASE changePassword BY <1>16 DEF changePassword, setPassword
<1>17. CASE SetRootPassword BY <1>17 DEF SetRootPassword, setPassword
<1>18. CASE AdminDisableTOTP BY <1>18 DEF AdminDisableTOTP
<1>19. CASE Tick
    <2>1. now' \in Time
        <3>1. now \in 0..MaxTime /\ now < MaxTime /\ now' = now + 1 BY <1>19 DEF Tick
        <3> QED BY <3>1
    <2>2. token' \in 0..TokenTTL
        <3>1. token \in 0..TokenTTL /\ token' = Left(token) BY <1>19 DEF Tick
        <3> QED BY <3>1
    <2>3. sudo' \in 0..SudoTTL
        <3>1. sudo \in 0..SudoTTL /\ sudo' = Left(sudo) BY <1>19 DEF Tick
        <3> QED BY <3>1
    <2>4. UNCHANGED <<password, totp, setups, fails, tries, lost>> BY <1>19 DEF Tick
    <2> QED BY <2>1, <2>2, <2>3, <2>4
<1>20. CASE Stop
    <2>1. Cardinality({q \in Req : Busy(q, "failure")}) \in Nat BY HowMany
    <2> QED BY <1>20, <2>1 DEF Stop
<1>21. CASE UNCHANGED vars BY <1>21 DEF vars
<1> QED
    BY <1>1, <1>2, <1>3, <1>4, <1>5, <1>6, <1>7, <1>8, <1>9, <1>10, <1>11, <1>12, <1>13,
       <1>14, <1>15, <1>16, <1>17, <1>18, <1>19, <1>20, <1>21
       DEF Next

\* A request that has not started is one.
LEMMA IdleType == Idle \in Request /\ Idle.step = "idle"
BY SignInAssumption DEF Idle, Request, Step, Time

\* One request moves.
LEMMA OneMoves ==
    ASSUME Requests, setups \subseteq setups', NEW r \in Req, NEW q \in Request,
           q.step = "enable" => q.arg \in setups, req' = [req EXCEPT ![r] = q]
    PROVE  Requests'
BY DEF Requests, Busy

\* A mark on the requests leaves them where they are.
LEMMA SeenOffType ==
    ASSUME NEW f \in [Req -> Request]
    PROVE  /\ SeenOff(f) \in [Req -> Request]
           /\ \A p \in Req : SeenOff(f)[p].step = f[p].step /\ SeenOff(f)[p].arg = f[p].arg
<1>1. ASSUME NEW p \in Req
      PROVE  /\ SeenOff(f)[p] \in Request
             /\ SeenOff(f)[p].step = f[p].step /\ SeenOff(f)[p].arg = f[p].arg
    <2>1. SeenOff(f)[p] = [f[p] EXCEPT !.off = f[p].off \/ f[p].step \in {"success", "totp"}]
        BY DEF SeenOff
    <2>2. f[p] \in Request OBVIOUS
    <2> QED BY <2>1, <2>2 DEF Request
<1>2. SeenOff(f) = [p \in Req |-> SeenOff(f)[p]] BY DEF SeenOff
<1> QED BY <1>1, <1>2

\* Every step leaves each request at a place of its handler.
LEMMA RequestsStep ==
    ASSUME Types, Requests, [Next]_vars
    PROVE  Requests'
<1> USE IdleType DEF row, browser, Busy, Goto, Answer, Started
<1>1. ASSUME NEW r \in Req, Submit(r) PROVE Requests'
    <2> PICK b \in BOOLEAN : req' = [req EXCEPT ![r] =
                    [Idle EXCEPT !.step = "limit", !.forSudo = b, !.at = now]]
        BY <1>1 DEF Submit
    <2> DEFINE q == [Idle EXCEPT !.step = "limit", !.forSudo = b, !.at = now]
    <2>1. req' = [req EXCEPT ![r] = q] OBVIOUS
    <2>2. q \in Request /\ q.step = "limit" BY IdleType DEF Request, Step, Types
    <2>3. setups' = setups BY <1>1 DEF Submit
    <2> HIDE DEF q
    <2> QED BY <2>1, <2>2, <2>3, OneMoves
<1>2. ASSUME NEW r \in Req, loginRateLimit(r) PROVE Requests'
    <2>1. CASE count(fails, req[r].at) < Limit
        <3> DEFINE q == [req[r] EXCEPT !.step = "check"]
        <3>1. req' = [req EXCEPT ![r] = q] BY <1>2, <2>1 DEF loginRateLimit
        <3>2. q \in Request /\ q.step # "enable" BY DEF Requests, Request, Step
        <3>3. setups' = setups BY <1>2, <2>1 DEF loginRateLimit
        <3> HIDE DEF q
        <3> QED BY <3>1, <3>2, <3>3, OneMoves
    <2>2. CASE ~ (count(fails, req[r].at) < Limit)
        <3>1. req' = [req EXCEPT ![r] = Idle] /\ setups' = setups BY <1>2, <2>2 DEF loginRateLimit
        <3> QED BY <3>1, IdleType, OneMoves
    <2> QED BY <2>1, <2>2
<1>3. ASSUME NEW r \in Req, checkPassword(r) PROVE Requests'
    <2> DEFINE right == [req[r] EXCEPT !.step = "success", !.off = (totp = None)]
    <2> DEFINE wrong == [req[r] EXCEPT !.step = "failure"]
    <2>1. req' = [req EXCEPT ![r] = right] \/ req' = [req EXCEPT ![r] = wrong]
        BY <1>3 DEF checkPassword
    <2>2. right \in Request /\ right.step # "enable" BY DEF Requests, Request, Step
    <2>3. wrong \in Request /\ wrong.step # "enable" BY DEF Requests, Request, Step
    <2>4. setups' = setups BY <1>3 DEF checkPassword
    <2> HIDE DEF right, wrong
    <2> QED BY <2>1, <2>2, <2>3, <2>4, OneMoves
<1>4. ASSUME NEW r \in Req, recordLoginFailure(r) PROVE Requests'
    <2>1. req' = [req EXCEPT ![r] = Idle] /\ setups' = setups BY <1>4 DEF recordLoginFailure
    <2> QED BY <2>1, IdleType, OneMoves
<1>5. ASSUME NEW r \in Req, recordLoginSuccess(r) PROVE Requests'
    <2> DEFINE q == [req[r] EXCEPT !.step = IF req[r].forSudo THEN "sudo" ELSE "totp"]
    <2>1. req' = [req EXCEPT ![r] = q] BY <1>5 DEF recordLoginSuccess
    <2>2. q \in Request /\ q.step # "enable" BY DEF Requests, Request, Step
    <2>3. setups' = setups BY <1>5 DEF recordLoginSuccess
    <2> HIDE DEF q
    <2> QED BY <2>1, <2>2, <2>3, OneMoves
<1>6. ASSUME NEW r \in Req, SetSudo(r) PROVE Requests'
    <2>1. req' = [req EXCEPT ![r] = Idle] /\ setups' = setups BY <1>6 DEF SetSudo
    <2> QED BY <2>1, IdleType, OneMoves
<1>7. ASSUME NEW r \in Req, totpInfo(r) PROVE Requests'
    <2>1. req' = [req EXCEPT ![r] = Idle] /\ setups' = setups BY <1>7 DEF totpInfo
    <2> QED BY <2>1, IdleType, OneMoves
<1>8. ASSUME NEW r \in Req, SubmitCode(r) PROVE Requests'
    <2> PICK s \in Secret : Started(r, "code", s) BY <1>8 DEF SubmitCode
    <2> DEFINE q == [Idle EXCEPT !.step = "code", !.arg = s]
    <2>1. req' = [req EXCEPT ![r] = q] BY <1>8 DEF SubmitCode
    <2>2. q \in Request /\ q.step = "code" /\ q.arg = s
        BY IdleType DEF Requests, Request, Step, Types
    <2>3. setups' = setups BY <1>8 DEF SubmitCode
    <2> HIDE DEF q
    <2> QED BY <2>1, <2>2, <2>3, OneMoves
<1>9. ASSUME NEW r \in Req, checkTOTP(r) PROVE Requests'
    <2>1. req' = [req EXCEPT ![r] = Idle] /\ setups' = setups BY <1>9 DEF checkTOTP
    <2> QED BY <2>1, IdleType, OneMoves
<1>10. ASSUME NEW r \in Req, Enable(r) PROVE Requests'
    <2> PICK s \in setups : Started(r, "enable", s) BY <1>10 DEF Enable
    <2> DEFINE q == [Idle EXCEPT !.step = "enable", !.arg = s]
    <2>1. req' = [req EXCEPT ![r] = q] BY <1>10 DEF Enable
    <2>2. q \in Request /\ q.step = "enable" /\ q.arg = s
        BY IdleType DEF Requests, Request, Step, Types
    <2>3. setups' = setups BY <1>10 DEF Enable
    <2> HIDE DEF q
    <2> QED BY <2>1, <2>2, <2>3, OneMoves
<1>11. ASSUME NEW r \in Req, activateTOTP(r) PROVE Requests'
    <2>1. req' = [req EXCEPT ![r] = Idle] /\ setups' = setups BY <1>11 DEF activateTOTP
    <2> QED BY <2>1, IdleType, OneMoves
<1>12. ASSUME NEW r \in Req, Disable(r) PROVE Requests'
    <2> DEFINE q == [Idle EXCEPT !.step = "disable", !.arg = None]
    <2>1. req' = [req EXCEPT ![r] = q] BY <1>12 DEF Disable
    <2>2. q \in Request /\ q.step = "disable" /\ q.arg = None
        BY IdleType DEF Requests, Request, Step, Types
    <2>3. setups' = setups BY <1>12 DEF Disable
    <2> HIDE DEF q
    <2> QED BY <2>1, <2>2, <2>3, OneMoves
<1>13. ASSUME NEW r \in Req, disableTOTP(r) PROVE Requests'
    <2> DEFINE f == [req EXCEPT ![r] = Idle]
    <2>1. f \in [Req -> Request] /\ \A p \in Req : f[p].step = "enable" => f[p].arg \in setups
        BY IdleType DEF Requests
    <2>2. req' = SeenOff(f) /\ setups' = setups BY <1>13 DEF disableTOTP
    <2> HIDE DEF f
    <2> QED BY <2>1, <2>2, SeenOffType DEF Requests
<1>14. CASE SignOut BY <1>14 DEF SignOut, Requests
<1>15. CASE setup BY <1>15 DEF setup, Requests
<1>16. CASE changePassword BY <1>16 DEF changePassword, Requests, setPassword
<1>17. CASE SetRootPassword BY <1>17 DEF SetRootPassword, Requests, setPassword
<1>18. CASE AdminDisableTOTP
    <2> DEFINE f == req
    <2>1. f \in [Req -> Request] /\ \A p \in Req : f[p].step = "enable" => f[p].arg \in setups
        BY IdleType DEF Requests
    <2>2. req' = SeenOff(f) /\ setups' = setups BY <1>18 DEF AdminDisableTOTP
    <2> HIDE DEF f
    <2> QED BY <2>1, <2>2, SeenOffType DEF Requests
<1>19. CASE Tick BY <1>19 DEF Tick, Requests
<1>20. CASE Stop BY <1>20 DEF Stop, Requests
<1>21. CASE UNCHANGED vars BY <1>21 DEF vars, Requests
<1> QED
    BY <1>1, <1>2, <1>3, <1>4, <1>5, <1>6, <1>7, <1>8, <1>9, <1>10, <1>11, <1>12, <1>13,
       <1>14, <1>15, <1>16, <1>17, <1>18, <1>19, <1>20, <1>21
       DEF Next

\* No step signs in behind the second factor's back.
LEMMA GuardedStep ==
    ASSUME Booleans, Types, Requests, Guarded, [Next]_vars
    PROVE  Guarded'
<1> USE SignInAssumption
    DEF Types, Requests, Request, Step, Guarded, SignInGuarded, Passed, Idle, SeenOff,
        row, browser, Busy, Goto, Answer, Started
<1>1. ASSUME NEW r \in Req, Submit(r) PROVE Guarded' BY <1>1 DEF Submit
<1>2. ASSUME NEW r \in Req, loginRateLimit(r) PROVE Guarded' BY <1>2 DEF loginRateLimit
<1>3. ASSUME NEW r \in Req, checkPassword(r) PROVE Guarded' BY <1>3 DEF checkPassword
<1>4. ASSUME NEW r \in Req, recordLoginFailure(r) PROVE Guarded' BY <1>4 DEF recordLoginFailure
<1>5. ASSUME NEW r \in Req, recordLoginSuccess(r) PROVE Guarded' BY <1>5 DEF recordLoginSuccess
<1>6. ASSUME NEW r \in Req, SetSudo(r) PROVE Guarded' BY <1>6 DEF SetSudo
<1>7. ASSUME NEW r \in Req, totpInfo(r) PROVE Guarded' BY <1>7 DEF totpInfo
<1>8. ASSUME NEW r \in Req, SubmitCode(r) PROVE Guarded' BY <1>8 DEF SubmitCode
<1>9. ASSUME NEW r \in Req, checkTOTP(r) PROVE Guarded' BY <1>9 DEF checkTOTP
<1>10. ASSUME NEW r \in Req, Enable(r) PROVE Guarded' BY <1>10 DEF Enable
<1>11. ASSUME NEW r \in Req, activateTOTP(r) PROVE Guarded' BY <1>11 DEF activateTOTP
<1>12. ASSUME NEW r \in Req, Disable(r) PROVE Guarded' BY <1>12 DEF Disable
<1>13. ASSUME NEW r \in Req, disableTOTP(r) PROVE Guarded' BY <1>13 DEF disableTOTP
<1>14. CASE SignOut BY <1>14 DEF SignOut
<1>15. CASE setup BY <1>15 DEF setup
<1>16. CASE changePassword BY <1>16 DEF changePassword, setPassword
<1>17. CASE SetRootPassword BY <1>17 DEF SetRootPassword, setPassword
<1>18. CASE AdminDisableTOTP BY <1>18 DEF AdminDisableTOTP
<1>19. CASE Tick BY <1>19 DEF Tick
<1>20. CASE Stop BY <1>20 DEF Stop
<1>21. CASE UNCHANGED vars BY <1>21 DEF vars
<1> QED
    BY <1>1, <1>2, <1>3, <1>4, <1>5, <1>6, <1>7, <1>8, <1>9, <1>10, <1>11, <1>12, <1>13,
       <1>14, <1>15, <1>16, <1>17, <1>18, <1>19, <1>20, <1>21
       DEF Next

-----------------------------------------------------------------------------
\* A new box is in the invariant.
LEMMA InitIInv == Init => IInv
<1> SUFFICES ASSUME Init PROVE IInv OBVIOUS
<1>1. Booleans BY Zenon DEF Init, Booleans
<1>2. Types BY SignInAssumption DEF Init, Types, Time
<1>3. Requests BY SignInAssumption DEF Init, Requests, Request, Step, Idle, Busy, Time
<1>4. Guarded BY DEF Init, Guarded, SignInGuarded, Passed, Busy, Idle
<1> QED BY <1>1, <1>2, <1>3, <1>4 DEF IInv

\* Every step keeps it.
LEMMA StepIInv == IInv /\ [Next]_vars => IInv'
<1> SUFFICES ASSUME IInv, [Next]_vars PROVE IInv' OBVIOUS
<1>1. Booleans /\ Types /\ Requests /\ Guarded BY DEF IInv
<1>2. Booleans' BY <1>1, BooleansStep
<1>3. Types' BY <1>1, TypesStep
<1>4. Requests' BY <1>1, RequestsStep
<1>5. Guarded' BY <1>1, GuardedStep
<1> QED BY <1>2, <1>3, <1>4, <1>5 DEF IInv

\* The inductive invariant holds of every reachable state.
THEOREM SignInInvariant == Spec => []IInv
BY InitIInv, StepIInv, PTL DEF Spec

\* The row, the browser and the requests keep their types, and a second factor in
\* effect was set up by the box.
THEOREM SignInTypeOK == Spec => []TypeOK
<1>1. IInv => TypeOK BY TypeParts DEF IInv
<1> QED BY <1>1, SignInInvariant, PTL

\* Nobody is signed in by a password alone while the second factor has been on ever
\* since that password was found right, with any number of pages served at once
\* (serve_index.go:27-77, users.go:101-173).
THEOREM SignInGuards == Spec => []SignInGuarded
<1>1. IInv => SignInGuarded BY DEF IInv, Guarded
<1> QED BY <1>1, SignInInvariant, PTL

-----------------------------------------------------------------------------
(* The rate limit: what is kept of the failures of a window. *)

\* The window that ends at t, by the time that requests took.
Recent(t) == InWindow(t) \cap 0..t

\* How many failures of it are recorded, and how many requests that took a time of it
\* are at a step.
Recorded(t) == Cardinality(Entries(fails, Recent(t)))
Among(P, t) == {r \in Req : req[r].step \in P /\ req[r].at \in Recent(t)}
Many(P, t) == Cardinality(Among(P, t))
Trying == {"limit", "check", "failure"}

\* Nothing of the window is forgotten: what was tried is recorded, about to be, or lost;
\* and a request only passes the limit when fewer than that are recorded, so that with
\* all that pass at the same time there is one less than there are requests too many.
Kept(t) ==
    /\ Tried(t) <= Recorded(t) + Many({"failure"}, t) + lost
    /\ Recorded(t) + Many({"check", "failure"}, t) <= Limit + Cardinality(Req) - 1

\* A failure after the window has made the list forget some of it; only requests that
\* are under way since can add to it.
Forgotten(t) ==
    /\ t < now
    /\ Tried(t) + Many({"limit", "check"}, t) <= Limit + 2 * (Cardinality(Req) - 1) + lost

\* No request has a time that has not come.
Past == \A r \in Req : req[r].at <= now

\* The inductive invariant of the rate limit.
Rate ==
    /\ Past
    /\ \A t \in Time : Kept(t) \/ Forgotten(t)

-----------------------------------------------------------------------------
(* How many entries a list has. *)

\* A list of finitely many times, each with a number of entries, is finite.
LEMMA EntriesNumber ==
    ASSUME NEW f \in [Time -> Nat], NEW T \in SUBSET Time
    PROVE  IsFiniteSet(Entries(f, T)) /\ Cardinality(Entries(f, T)) \in Nat
<1> DEFINE Of(u) == {u} \X (1 .. f[u])
           All == {Of(u) : u \in T}
           g == [u \in T |-> Of(u)]
<1>1. IsFiniteSet(T)
    <2>1. MaxTime \in Int BY SignInAssumption
    <2>2. IsFiniteSet(Time) BY <2>1, FS_Interval DEF Time
    <2> QED BY <2>2, FS_Subset
<1>2. \A u \in T : IsFiniteSet(Of(u))
    <2> TAKE u \in T
    <2>1. f[u] \in Int OBVIOUS
    <2>2. IsFiniteSet(1 .. f[u]) BY <2>1, FS_Interval
    <2>3. IsFiniteSet({u}) BY FS_Singleton
    <2> QED BY <2>2, <2>3, FS_Product
<1>3. IsFiniteSet(All)
    <2>1. g \in Surjection(T, All) BY DEF Surjection
    <2> QED BY <1>1, <2>1, FS_Surjection
<1>4. IsFiniteSet(UNION All) BY <1>2, <1>3, FS_UNION
<1>5. Entries(f, T) = UNION All BY DEF Entries
<1> QED BY <1>4, <1>5, FS_CardinalityType

\* What is an entry.
LEMMA EntryOf ==
    ASSUME NEW f, NEW T, NEW e
    PROVE  e \in Entries(f, T) <=> \E u \in T : \E i \in 1 .. f[u] : e = <<u, i>>
BY DEF Entries

\* A list with fewer entries at fewer times is no longer.
LEMMA EntriesLess ==
    ASSUME NEW f \in [Time -> Nat], NEW g \in [Time -> Nat],
           NEW S \in SUBSET Time, NEW T \in SUBSET S, \A u \in T : g[u] <= f[u]
    PROVE  Cardinality(Entries(g, T)) <= Cardinality(Entries(f, S))
<1>1. Entries(g, T) \subseteq Entries(f, S)
    <2>1. ASSUME NEW u \in T, NEW i \in 1 .. g[u] PROVE <<u, i>> \in Entries(f, S)
        <3>1. g[u] \in Nat /\ f[u] \in Nat /\ g[u] <= f[u] OBVIOUS
        <3>2. i \in 1 .. f[u] BY <3>1
        <3> QED BY <3>2, EntryOf
    <2> QED BY <2>1, EntryOf
<1> QED BY <1>1, EntriesNumber, FS_Subset

\* A list with the same entries at each of the times is as long.
LEMMA EntriesSame ==
    ASSUME NEW f \in [Time -> Nat], NEW g \in [Time -> Nat],
           NEW T \in SUBSET Time, \A u \in T : g[u] = f[u]
    PROVE  Cardinality(Entries(g, T)) = Cardinality(Entries(f, T))
<1>1. Cardinality(Entries(g, T)) <= Cardinality(Entries(f, T))
    BY EntriesLess
<1>2. Cardinality(Entries(f, T)) <= Cardinality(Entries(g, T))
    BY EntriesLess
<1> QED BY <1>1, <1>2, EntriesNumber

\* An entry more at a time of the list makes it longer by one.
LEMMA EntriesMore ==
    ASSUME NEW f \in [Time -> Nat], NEW g \in [Time -> Nat], NEW T \in SUBSET Time,
           NEW u \in T, g[u] = f[u] + 1, \A v \in T \ {u} : g[v] = f[v]
    PROVE  Cardinality(Entries(g, T)) = Cardinality(Entries(f, T)) + 1
<1> DEFINE e == <<u, f[u] + 1>>
<1>1. f[u] \in Nat OBVIOUS
<1>2. e \notin Entries(f, T)
    <2> SUFFICES ASSUME NEW v \in T, NEW i \in 1 .. f[v], e = <<v, i>> PROVE FALSE
        BY EntryOf
    <2>1. v = u /\ i = f[u] + 1 OBVIOUS
    <2> QED BY <1>1, <2>1
<1>3. Entries(g, T) = Entries(f, T) \cup {e}
    <2>1. ASSUME NEW v \in T, NEW i \in 1 .. g[v]
          PROVE  <<v, i>> \in Entries(f, T) \cup {e}
        <3>1. CASE v # u
            <4>1. i \in 1 .. f[v] BY <3>1
            <4> QED BY <4>1, EntryOf
        <3>2. CASE v = u /\ i = f[u] + 1 BY <3>2
        <3>3. CASE v = u /\ i # f[u] + 1
            <4>1. i \in 1 .. f[v] BY <1>1, <3>3
            <4> QED BY <4>1, EntryOf
        <3> QED BY <3>1, <3>2, <3>3
    <2>2. ASSUME NEW v \in T, NEW i \in 1 .. f[v] PROVE <<v, i>> \in Entries(g, T)
        <3>1. f[v] \in Nat /\ g[v] \in Nat /\ f[v] <= g[v] BY <1>1
        <3>2. i \in 1 .. g[v] BY <3>1
        <3> QED BY <3>2, EntryOf
    <2>3. e \in Entries(g, T)
        <3>1. f[u] + 1 \in 1 .. g[u] BY <1>1
        <3> QED BY <3>1, EntryOf
    <2> QED BY <2>1, <2>2, <2>3, EntryOf
<1> QED BY <1>2, <1>3, EntriesNumber, FS_AddElement

\* A list without entries is empty.
LEMMA EntriesNone ==
    ASSUME NEW T \in SUBSET Time
    PROVE  Cardinality(Entries([t \in Time |-> 0], T)) = 0
<1>1. Entries([t \in Time |-> 0], T) = {} BY EntryOf
<1> QED BY <1>1, FS_EmptySet

\* When a list is cleared, what remains of the tries are those about to be recorded: one
\* entry for each such request, at its time.
LEMMA EntriesPending ==
    ASSUME NEW T \in SUBSET Time
    PROVE  Cardinality(Entries(
               [t \in Time |-> Cardinality({q \in Req : Busy(q, "failure") /\ req[q].at = t})],
               T))
             <= Cardinality({q \in Req : req[q].step \in {"failure"} /\ req[q].at \in T})
<1> DEFINE Of(u) == {q \in Req : Busy(q, "failure") /\ req[q].at = u}
           f == [u \in Time |-> Cardinality(Of(u))]
           All == {q \in Req : req[q].step \in {"failure"} /\ req[q].at \in T}
           E == Entries(f, T)
           pick == [u \in T |-> CHOOSE b : b \in Bijection(1 .. Cardinality(Of(u)), Of(u))]
           h == [e \in E |-> pick[e[1]][e[2]]]
<1>1. \A u \in T : pick[u] \in Bijection(1 .. Cardinality(Of(u)), Of(u))
    <2> TAKE u \in T
    <2>1. IsFiniteSet(Of(u)) BY SignInAssumption, FS_Subset
    <2>2. ExistsBijection(1 .. Cardinality(Of(u)), Of(u)) BY <2>1, FS_CardinalityType
    <2>3. \E b : b \in Bijection(1 .. Cardinality(Of(u)), Of(u))
        BY <2>2 DEF ExistsBijection
    <2> HIDE DEF Of
    <2> QED BY <2>3
<1> HIDE DEF pick
<1>2. \A u \in T : f[u] = Cardinality(Of(u)) OBVIOUS
<1>3. ASSUME NEW e \in E
      PROVE  /\ e[1] \in T /\ e[2] \in 1 .. Cardinality(Of(e[1])) /\ e = <<e[1], e[2]>>
             /\ h[e] \in Of(e[1])
    <2>1. PICK u \in T : \E i \in 1 .. f[u] : e = <<u, i>> BY EntryOf
    <2>2. e[1] \in T /\ e[2] \in 1 .. Cardinality(Of(e[1])) /\ e = <<e[1], e[2]>>
        BY <1>2, <2>1
    <2>3. pick[e[1]] \in [1 .. Cardinality(Of(e[1])) -> Of(e[1])]
        BY <1>1, <2>2 DEF Bijection, Injection
    <2>4. h[e] = pick[e[1]][e[2]] OBVIOUS
    <2> HIDE DEF Of, h
    <2> QED BY <2>2, <2>3, <2>4
<1>4. h \in [E -> All]
    <2>1. \A e \in E : h[e] \in All BY <1>3 DEF Busy
    <2> QED BY <2>1
<1>5. ASSUME NEW d \in E, NEW e \in E, h[d] = h[e] PROVE d = e
    <2>1. d[1] = e[1]
        <3>1. h[d] \in Of(d[1]) /\ h[d] \in Of(e[1]) BY <1>3, <1>5
        <3>2. req[h[d]].at = d[1] /\ req[h[d]].at = e[1] BY <3>1
        <3> QED BY <3>2
    <2>2. /\ d[2] \in 1 .. Cardinality(Of(e[1])) /\ e[2] \in 1 .. Cardinality(Of(e[1]))
          /\ e[1] \in T
        BY <1>3, <2>1
    <2>3. pick[e[1]][d[2]] = pick[e[1]][e[2]] BY <1>5, <2>1
    <2>4. \A i, j \in 1 .. Cardinality(Of(e[1])) :
              pick[e[1]][i] = pick[e[1]][j] => i = j
        <3>1. IsInjective(pick[e[1]])
            BY <1>1, <2>2 DEF Bijection, Injection
        <3>2. DOMAIN pick[e[1]] = 1 .. Cardinality(Of(e[1]))
            BY <1>1, <2>2 DEF Bijection, Injection
        <3> HIDE DEF Of
        <3> QED BY <3>1, <3>2 DEF IsInjective
    <2>5. d[2] = e[2] BY <2>2, <2>3, <2>4
    <2> QED BY <1>3, <2>1, <2>5
<1>6. h \in Injection(E, All)
    <2> HIDE DEF h, E, All
    <2>1. \A d, e \in E : h[d] = h[e] => d = e BY <1>5
    <2>2. DOMAIN h = E BY <1>4
    <2>3. IsInjective(h) BY <2>1, <2>2 DEF IsInjective
    <2> QED BY <1>4, <2>3 DEF Injection
<1>7. IsFiniteSet(All) BY SignInAssumption, FS_Subset
<1> HIDE DEF h, E, All
<1>8. Cardinality(E) <= Cardinality(All) BY <1>6, <1>7, FS_Injection
<1> QED BY <1>8 DEF E, All

-----------------------------------------------------------------------------
(* How many requests take a time of the window. *)

\* Some of the requests are finitely many, and fewer than all when one is left out.
LEMMA SomeRequests ==
    ASSUME NEW S \in SUBSET Req
    PROVE  /\ IsFiniteSet(S) /\ Cardinality(S) \in Nat /\ Cardinality(Req) \in Nat \ {0}
           /\ Cardinality(S) <= Cardinality(Req)
           /\ \A r \in Req \ S : Cardinality(S) <= Cardinality(Req) - 1
<1>1. IsFiniteSet(Req) BY SignInAssumption
<1>2. IsFiniteSet(S) /\ Cardinality(S) \in Nat /\ Cardinality(Req) \in Nat
    BY <1>1, FS_Subset, FS_CardinalityType
<1>3. Cardinality(S) <= Cardinality(Req) BY <1>1, FS_Subset
<1>4. Cardinality(Req) # 0 BY <1>1, SignInAssumption, FS_EmptySet
<1>5. ASSUME NEW r \in Req \ S PROVE Cardinality(S) <= Cardinality(Req) - 1
    <2>1. Cardinality(S \cup {r}) = Cardinality(S) + 1 BY <1>2, FS_AddElement
    <2>2. Cardinality(S \cup {r}) <= Cardinality(Req) BY <1>1, FS_Subset
    <2> QED BY <1>2, <2>1, <2>2
<1> QED BY <1>2, <1>3, <1>4, <1>5

\* Requests at different steps add up.
LEMMA StepsAddUp ==
    ASSUME NEW P, NEW Q, NEW t, P \cap Q = {}
    PROVE  Many(P \cup Q, t) = Many(P, t) + Many(Q, t)
<1>1. Among(P \cup Q, t) = Among(P, t) \cup Among(Q, t) BY DEF Among
<1>2. Among(P, t) \cap Among(Q, t) = {} BY DEF Among
<1>3. Among(P, t) \in SUBSET Req /\ Among(Q, t) \in SUBSET Req BY DEF Among
<1>4. IsFiniteSet(Among(P, t)) /\ IsFiniteSet(Among(Q, t)) BY <1>3, SomeRequests
<1>5. Cardinality(Among(P, t)) \in Nat /\ Cardinality(Among(Q, t)) \in Nat BY <1>3, SomeRequests
<1>6. Cardinality(Among(P, t) \cup Among(Q, t))
      = Cardinality(Among(P, t)) + Cardinality(Among(Q, t)) - Cardinality({})
    BY <1>2, <1>4, FS_Union
<1>7. Cardinality({}) = 0 BY FS_EmptySet
<1>8. Cardinality(Among(P, t) \cup Among(Q, t))
      = Cardinality(Among(P, t)) + Cardinality(Among(Q, t))
    BY <1>5, <1>6, <1>7
<1> QED BY <1>1, <1>8, Zenon DEF Many

\* When one request moves, the others count as before.
LEMMA OneCounts ==
    ASSUME NEW P, NEW t, NEW r \in Req,
           \A p \in Req \ {r} : req'[p].step = req[p].step /\ req'[p].at = req[p].at
    PROVE  /\ (r \in Among(P, t) <=> r \in Among(P, t)') => Many(P, t)' = Many(P, t)
           /\ r \in Among(P, t) /\ r \notin Among(P, t)' => Many(P, t)' = Many(P, t) - 1
           /\ r \notin Among(P, t) /\ r \in Among(P, t)' => Many(P, t)' = Many(P, t) + 1
<1>1. \A p \in Req \ {r} : p \in Among(P, t)' <=> p \in Among(P, t) BY DEF Among
<1>2. Among(P, t) \in SUBSET Req /\ Among(P, t)' \in SUBSET Req BY DEF Among
<1>3. IsFiniteSet(Among(P, t)) /\ IsFiniteSet(Among(P, t)')
      /\ Many(P, t) \in Nat /\ Many(P, t)' \in Nat
    BY <1>2, SomeRequests DEF Many
<1>4. ASSUME r \in Among(P, t) <=> r \in Among(P, t)' PROVE Many(P, t)' = Many(P, t)
    <2>1. \A p \in Req : p \in Among(P, t)' <=> p \in Among(P, t) BY <1>1, <1>4, Zenon
    <2>2. Among(P, t)' = Among(P, t) BY <1>2, <2>1
    <2> QED BY <2>2 DEF Many
<1>5. ASSUME r \in Among(P, t), r \notin Among(P, t)' PROVE Many(P, t)' = Many(P, t) - 1
    <2>1. Among(P, t) = Among(P, t)' \cup {r} BY <1>1, <1>2, <1>5
    <2>2. Many(P, t) = Many(P, t)' + 1 BY <1>3, <1>5, <2>1, FS_AddElement DEF Many
    <2> QED BY <1>3, <2>2
<1>6. ASSUME r \notin Among(P, t), r \in Among(P, t)' PROVE Many(P, t)' = Many(P, t) + 1
    <2>1. Among(P, t)' = Among(P, t) \cup {r} BY <1>1, <1>2, <1>6
    <2> QED BY <1>3, <1>6, <2>1, FS_AddElement DEF Many
<1> QED BY <1>4, <1>5, <1>6

-----------------------------------------------------------------------------
(* The rate limit. *)

\* The counts are numbers.
LEMMA RateNumbers ==
    ASSUME Types, NEW t \in Time
    PROVE  /\ Recent(t) \in SUBSET Time
           /\ Tried(t) = Cardinality(Entries(tries, Recent(t)))
           /\ Tried(t) \in Nat /\ Recorded(t) \in Nat
           /\ t \in Int /\ now \in Int /\ lost \in Int
           /\ Limit \in Nat \ {0} /\ Window \in Nat \ {0}
           /\ Cardinality(Req) \in Nat \ {0}
<1>1. Recent(t) \in SUBSET Time BY DEF Recent, InWindow
<1>2. Tried(t) = Cardinality(Entries(tries, Recent(t))) BY DEF Tried, Recent
<1>3. Tried(t) \in Nat /\ Recorded(t) \in Nat
    BY <1>1, <1>2, EntriesNumber DEF Recorded, Types
<1>4. t \in Int /\ now \in Int /\ lost \in Int BY SignInAssumption DEF Types, Time
<1>5. Limit \in Nat \ {0} /\ Window \in Nat \ {0} BY SignInAssumption
<1>6. Cardinality(Req) \in Nat \ {0} BY SomeRequests
<1> QED BY <1>1, <1>2, <1>3, <1>4, <1>5, <1>6

\* And so are the requests' counts.
LEMMA ManyNumber ==
    ASSUME NEW P, NEW t
    PROVE  /\ Many(P, t) \in Nat /\ Many(P, t) <= Cardinality(Req)
           /\ Many(P, t)' \in Nat /\ Many(P, t)' <= Cardinality(Req)
           /\ \A r \in Req : r \notin Among(P, t) => Many(P, t) <= Cardinality(Req) - 1
<1>1. Among(P, t) \in SUBSET Req /\ Among(P, t)' \in SUBSET Req BY DEF Among
<1> QED BY <1>1, SomeRequests DEF Many

\* A step that leaves the lists alone, and in which requests only leave the way to a
\* recorded failure before they have tried a password.
LEMMA QuietStep ==
    ASSUME Types, Types', UNCHANGED <<fails, tries, lost>>, now <= now',
           NEW t \in Time, Kept(t) \/ Forgotten(t),
           \A p \in Req : \/ req'[p].step = req[p].step /\ req'[p].at = req[p].at
                          \/ req[p].step # "failure" /\ req'[p].step \notin Trying
    PROVE  Kept(t)' \/ Forgotten(t)'
<1>1. Tried(t)' = Tried(t) /\ Recorded(t)' = Recorded(t) /\ lost' = lost
    BY DEF Tried, Recorded
<1>2. Many({"failure"}, t)' = Many({"failure"}, t)
    <2>1. Among({"failure"}, t)' = Among({"failure"}, t) BY DEF Among, Trying
    <2> QED BY <2>1 DEF Many
<1>3. ASSUME NEW P \in SUBSET Trying PROVE Many(P, t)' <= Many(P, t)
    <2>1. Among(P, t)' \subseteq Among(P, t) BY DEF Among
    <2>2. Among(P, t) \in SUBSET Req BY DEF Among
    <2>3. IsFiniteSet(Among(P, t)) BY <2>2, SomeRequests
    <2> QED BY <2>1, <2>3, FS_Subset DEF Many
<1>4. /\ Many({"check", "failure"}, t)' <= Many({"check", "failure"}, t)
      /\ Many({"limit", "check"}, t)' <= Many({"limit", "check"}, t)
    BY <1>3 DEF Trying
<1>5. /\ Many({"check", "failure"}, t) \in Nat /\ Many({"check", "failure"}, t)' \in Nat
      /\ Many({"limit", "check"}, t) \in Nat /\ Many({"limit", "check"}, t)' \in Nat
      /\ Many({"failure"}, t) \in Nat
    BY ManyNumber
<1>6. CASE Kept(t)
    BY <1>1, <1>2, <1>4, <1>5, <1>6, RateNumbers DEF Kept
<1>7. CASE Forgotten(t)
    <2>1. now' \in Int BY SignInAssumption DEF Types, Time
    <2> QED BY <1>1, <1>4, <1>5, <1>7, <2>1, RateNumbers DEF Forgotten
<1> QED BY <1>6, <1>7

\* A time of the window of t has all of that window in its own.
LEMMA WindowsOverlap ==
    ASSUME NEW t \in Time, NEW a \in Recent(t)
    PROVE  Recent(t) \in SUBSET InWindow(a) /\ InWindow(a) \in SUBSET Time
<1>1. MaxTime \in Nat /\ Window \in Nat BY SignInAssumption
<1>2. t \in Nat /\ a \in Nat /\ a <= t BY <1>1 DEF Recent, InWindow, Time
<1>3. ASSUME NEW u \in Recent(t) PROVE u \in InWindow(a)
    BY <1>1, <1>2 DEF Recent, InWindow, Time
<1> QED BY <1>3 DEF InWindow

\* A request takes its time.
LEMMA SubmitRate ==
    ASSUME Types, Requests, Types', Past, NEW r \in Req, Submit(r),
           NEW t \in Time, Kept(t) \/ Forgotten(t)
    PROVE  Kept(t)' \/ Forgotten(t)'
<1>1. Tried(t)' = Tried(t) /\ Recorded(t)' = Recorded(t) /\ lost' = lost /\ now' = now
    BY DEF Submit, row, Tried, Recorded
<1>2. req[r].step = "idle" BY DEF Submit, Busy
<1>3. req'[r].step = "limit" /\ req'[r].at = now
    BY DEF Submit, Requests, Request, Idle
<1>4. \A p \in Req \ {r} : req'[p].step = req[p].step /\ req'[p].at = req[p].at
    BY DEF Submit, Requests
<1>5. ASSUME NEW P, "idle" \notin P, "limit" \notin P PROVE Many(P, t)' = Many(P, t)
    <2>1. r \notin Among(P, t) /\ r \notin Among(P, t)' BY <1>2, <1>3, <1>5 DEF Among
    <2> QED BY <1>4, <2>1, OneCounts
<1>6. CASE Kept(t)
    BY <1>1, <1>5, <1>6 DEF Kept
<1>7. CASE Forgotten(t)
    <2> DEFINE P == {"limit", "check"}
    <2>1. t < now BY <1>7 DEF Forgotten
    <2>2. now \in Int /\ t \in Int BY RateNumbers
    <2>3. now \notin 0..t BY <2>1, <2>2
    <2>4. now \notin Recent(t) BY <2>3 DEF Recent
    <2>5. r \notin Among(P, t) /\ r \notin Among(P, t)' BY <1>2, <1>3, <2>4 DEF Among
    <2>6. Many(P, t)' = Many(P, t) BY <1>4, <2>5, OneCounts
    <2> QED BY <1>1, <1>7, <2>6 DEF Forgotten
<1> QED BY <1>6, <1>7

\* A request passes the limit when too few failures are recorded, however many others
\* pass as well.
LEMMA PassRate ==
    ASSUME Types, Requests, Types', NEW r \in Req, loginRateLimit(r),
           count(fails, req[r].at) < Limit,
           NEW t \in Time, Kept(t) \/ Forgotten(t)
    PROVE  Kept(t)' \/ Forgotten(t)'
<1>1. Tried(t)' = Tried(t) /\ Recorded(t)' = Recorded(t) /\ lost' = lost /\ now' = now
    BY DEF loginRateLimit, row, Tried, Recorded
<1>2. req[r].step = "limit" /\ req[r].at \in Time
    BY DEF loginRateLimit, Busy, Requests, Request
<1>3. req'[r].step = "check" /\ req'[r].at = req[r].at
    BY DEF loginRateLimit, Goto, Requests, Request
<1>4. \A p \in Req \ {r} : req'[p].step = req[p].step /\ req'[p].at = req[p].at
    BY DEF loginRateLimit, Goto, Requests
<1>5. ASSUME NEW P, "limit" \in P <=> "check" \in P PROVE Many(P, t)' = Many(P, t)
    <2>1. r \in Among(P, t) <=> r \in Among(P, t)' BY <1>2, <1>3, <1>5 DEF Among
    <2> QED BY <1>4, <2>1, OneCounts
<1>6. Many({"failure"}, t)' = Many({"failure"}, t) BY <1>5
<1>7. Many({"limit", "check"}, t)' = Many({"limit", "check"}, t) BY <1>5
<1>8. CASE Forgotten(t) BY <1>1, <1>7, <1>8 DEF Forgotten
<1>9. CASE Kept(t) /\ req[r].at \notin Recent(t)
    <2> DEFINE P == {"check", "failure"}
    <2>1. r \notin Among(P, t) /\ r \notin Among(P, t)' BY <1>3, <1>9 DEF Among
    <2>2. Many(P, t)' = Many(P, t) BY <1>4, <2>1, OneCounts
    <2> QED BY <1>1, <1>6, <1>9, <2>2 DEF Kept
<1>10. CASE Kept(t) /\ req[r].at \in Recent(t)
    <2>1. Recent(t) \in SUBSET InWindow(req[r].at) /\ InWindow(req[r].at) \in SUBSET Time
        BY <1>2, <1>10, WindowsOverlap
    <2>2. Recorded(t) <= count(fails, req[r].at)
        BY <2>1, EntriesLess DEF Types, Recorded, count
    <2>3. count(fails, req[r].at) \in Nat BY <2>1, EntriesNumber DEF Types, count
    <2>4. Many({"check", "failure"}, t)' \in Nat
          /\ Many({"check", "failure"}, t)' <= Cardinality(Req)
        BY ManyNumber
    <2>5. Recorded(t) + Many({"check", "failure"}, t)' <= Limit + Cardinality(Req) - 1
        BY <2>2, <2>3, <2>4, RateNumbers
    <2> QED BY <1>1, <1>6, <1>10, <2>5 DEF Kept
<1> QED BY <1>8, <1>9, <1>10

\* A wrong password is one more tried, about to be recorded.
LEMMA WrongRate ==
    ASSUME Types, Requests, Types', NEW r \in Req, checkPassword(r), req'[r].step # "success",
           NEW t \in Time, Kept(t) \/ Forgotten(t)
    PROVE  Kept(t)' \/ Forgotten(t)'
<1>1. Recorded(t)' = Recorded(t) /\ lost' = lost /\ now' = now
    BY DEF checkPassword, row, Recorded
<1>2. req[r].step = "check" /\ req[r].at \in Time
    BY DEF checkPassword, Busy, Requests, Request
<1>3. /\ req' = [req EXCEPT ![r].step = "failure"]
      /\ tries' = [tries EXCEPT ![req[r].at] = tries[req[r].at] + 1]
    BY DEF checkPassword, Goto, Requests, Request
<1>4. req'[r].step = "failure" /\ req'[r].at = req[r].at
    BY <1>3 DEF Requests, Request
<1>5. \A p \in Req \ {r} : req'[p].step = req[p].step /\ req'[p].at = req[p].at
    BY <1>3 DEF Requests
<1>6. tries \in [Time -> Nat] /\ tries' \in [Time -> Nat] BY DEF Types
<1>7. Many({"check", "failure"}, t)' = Many({"check", "failure"}, t)
    <2> DEFINE P == {"check", "failure"}
    <2>1. r \in Among(P, t) <=> r \in Among(P, t)' BY <1>2, <1>4 DEF Among
    <2> QED BY <1>5, <2>1, OneCounts
<1>8. CASE req[r].at \notin Recent(t)
    <2>1. \A u \in Recent(t) : tries'[u] = tries[u] BY <1>3, <1>8, RateNumbers DEF Types
    <2>2. Tried(t)' = Tried(t)
        <3>1. Cardinality(Entries(tries', Recent(t))) = Cardinality(Entries(tries, Recent(t)))
            BY <1>6, <2>1, RateNumbers, EntriesSame
        <3> QED BY <3>1 DEF Tried, Recent
    <2>3. ASSUME NEW P PROVE Many(P, t)' = Many(P, t)
        <3>1. r \notin Among(P, t) /\ r \notin Among(P, t)' BY <1>4, <1>8 DEF Among
        <3> QED BY <1>5, <3>1, OneCounts
    <2>4. CASE Kept(t) BY <1>1, <1>7, <2>2, <2>3, <2>4 DEF Kept
    <2>5. CASE Forgotten(t) BY <1>1, <2>2, <2>3, <2>5 DEF Forgotten
    <2> QED BY <2>4, <2>5
<1>9. CASE req[r].at \in Recent(t)
    <2>1. tries'[req[r].at] = tries[req[r].at] + 1 BY <1>2, <1>3 DEF Types
    <2>2. \A u \in Recent(t) \ {req[r].at} : tries'[u] = tries[u]
        BY <1>3, RateNumbers DEF Types
    <2>3. Tried(t)' = Tried(t) + 1
        <3>1. Cardinality(Entries(tries', Recent(t)))
              = Cardinality(Entries(tries, Recent(t))) + 1
            BY <1>6, <1>9, <2>1, <2>2, RateNumbers, EntriesMore
        <3> QED BY <3>1 DEF Tried, Recent
    <2>4. Many({"failure"}, t)' = Many({"failure"}, t) + 1
        <3> DEFINE P == {"failure"}
        <3>1. r \notin Among(P, t) /\ r \in Among(P, t)' BY <1>2, <1>4, <1>9 DEF Among
        <3> QED BY <1>5, <3>1, OneCounts
    <2>5. Many({"limit", "check"}, t)' = Many({"limit", "check"}, t) - 1
        <3> DEFINE P == {"limit", "check"}
        <3>1. r \in Among(P, t) /\ r \notin Among(P, t)' BY <1>2, <1>4, <1>9 DEF Among
        <3> QED BY <1>5, <3>1, OneCounts
    <2>6. Many({"failure"}, t) \in Nat /\ Many({"limit", "check"}, t) \in Nat BY ManyNumber
    <2>7. CASE Kept(t)
        BY <1>1, <1>7, <2>3, <2>4, <2>6, <2>7, RateNumbers DEF Kept
    <2>8. CASE Forgotten(t)
        BY <1>1, <2>3, <2>5, <2>6, <2>8, RateNumbers DEF Forgotten
    <2> QED BY <2>7, <2>8
<1> QED BY <1>8, <1>9

\* A failure is recorded, at the time of its request, or lost.  A later one than the
\* window makes the list forget; by then some request is past the window.
LEMMA FailureRate ==
    ASSUME Types, Requests, Types', Past, NEW r \in Req, recordLoginFailure(r),
           NEW t \in Time, Kept(t) \/ Forgotten(t)
    PROVE  Kept(t)' \/ Forgotten(t)'
<1> DEFINE a == req[r].at
<1>1. Tried(t)' = Tried(t) /\ now' = now BY DEF recordLoginFailure, Tried
<1>2. req[r].step = "failure" /\ a \in Time /\ a <= now
    BY DEF recordLoginFailure, Busy, Requests, Request, Past
<1>3. req'[r].step = "idle" BY DEF recordLoginFailure, Answer, Requests, Idle
<1>4. \A p \in Req \ {r} : req'[p].step = req[p].step /\ req'[p].at = req[p].at
    BY DEF recordLoginFailure, Answer, Requests
<1>5. fails \in [Time -> Nat] /\ fails' \in [Time -> Nat] BY DEF Types
<1>6. Many({"limit", "check"}, t)' = Many({"limit", "check"}, t)
    <2> DEFINE P == {"limit", "check"}
    <2>1. r \notin Among(P, t) /\ r \notin Among(P, t)' BY <1>2, <1>3 DEF Among
    <2> QED BY <1>4, <2>1, OneCounts
<1>7. ASSUME NEW P, "failure" \in P, "idle" \notin P
      PROVE  /\ a \notin Recent(t) => Many(P, t)' = Many(P, t)
             /\ a \in Recent(t) => Many(P, t)' = Many(P, t) - 1
    <2>1. r \notin Among(P, t)' BY <1>3, <1>7 DEF Among
    <2>2. r \in Among(P, t) <=> a \in Recent(t) BY <1>2, <1>7 DEF Among
    <2> HIDE DEF a
    <2> QED BY <1>4, <2>1, <2>2, OneCounts
<1>8. /\ a \notin Recent(t) => Many({"failure"}, t)' = Many({"failure"}, t)
      /\ a \in Recent(t) => Many({"failure"}, t)' = Many({"failure"}, t) - 1
    BY <1>7
<1>9. /\ a \notin Recent(t) =>
          Many({"check", "failure"}, t)' = Many({"check", "failure"}, t)
      /\ a \in Recent(t) =>
          Many({"check", "failure"}, t)' = Many({"check", "failure"}, t) - 1
    BY <1>7
<1>10. /\ Many({"failure"}, t) \in Nat /\ Many({"check", "failure"}, t) \in Nat
       /\ Many({"limit", "check"}, t) \in Nat
    BY ManyNumber
<1> HIDE DEF a
<1>11. CASE fails' = fails /\ lost' = lost + 1
    <2>1. Recorded(t)' = Recorded(t) BY <1>11 DEF Recorded
    <2>2. CASE Kept(t)
        BY <1>1, <1>8, <1>9, <1>10, <1>11, <2>1, <2>2, RateNumbers DEF Kept
    <2>3. CASE Forgotten(t)
        BY <1>1, <1>6, <1>10, <1>11, <2>3, RateNumbers DEF Forgotten
    <2> QED BY <2>2, <2>3
<1>12. CASE fails' = add(fails, a) /\ lost' = lost
    <2>1. CASE Forgotten(t)
        BY <1>1, <1>6, <1>10, <1>12, <2>1, RateNumbers DEF Forgotten
    <2>2. CASE Kept(t) /\ a \in Recent(t)
        <3>1. Recent(t) \in SUBSET InWindow(a) BY <2>2, WindowsOverlap
        <3>2. fails'[a] = fails[a] + 1 BY <1>2, <1>12 DEF add
        <3>3. \A u \in Recent(t) \ {a} : fails'[u] = fails[u]
            BY <1>12, <3>1, RateNumbers DEF add
        <3>4. Recorded(t)' = Recorded(t) + 1
            <4>1. Cardinality(Entries(fails', Recent(t)))
                  = Cardinality(Entries(fails, Recent(t))) + 1
                BY <1>5, <2>2, <3>2, <3>3, RateNumbers, EntriesMore
            <4> QED BY <4>1 DEF Recorded
        <3> QED BY <1>1, <1>8, <1>9, <1>10, <1>12, <2>2, <3>4, RateNumbers DEF Kept
    <2>3. CASE Kept(t) /\ a \notin Recent(t) /\ a <= t
        <3>1. \A u \in Recent(t) : u \in InWindow(a) /\ u # a
            <4>1. MaxTime \in Nat /\ Window \in Nat BY SignInAssumption
            <4>2. t \in Nat /\ a \in Nat BY <1>2, <4>1 DEF Time
            <4>3. a <= t - Window BY <1>2, <2>3, <4>1, <4>2 DEF Recent, InWindow
            <4> TAKE u \in Recent(t)
            <4>4. u \in Time /\ u > t - Window BY DEF Recent, InWindow
            <4>5. u \in Nat BY <4>1, <4>4 DEF Time
            <4>6. u > a - Window /\ u # a BY <4>1, <4>2, <4>3, <4>4, <4>5
            <4> QED BY <4>4, <4>6 DEF InWindow
        <3>2. \A u \in Recent(t) : fails'[u] = fails[u]
            BY <1>12, <3>1, RateNumbers DEF add
        <3>3. Recorded(t)' = Recorded(t)
            <4>1. Cardinality(Entries(fails', Recent(t)))
                  = Cardinality(Entries(fails, Recent(t)))
                BY <1>5, <3>2, RateNumbers, EntriesSame
            <4> QED BY <4>1 DEF Recorded
        <3> QED BY <1>1, <1>8, <1>9, <1>12, <2>3, <3>3 DEF Kept
    <2>4. CASE Kept(t) /\ ~ (a <= t)
        <3>1. MaxTime \in Nat BY SignInAssumption
        <3>2. t \in Nat /\ a \in Nat /\ now \in Nat BY <1>2, <3>1 DEF Time, Types
        <3>3. t < now BY <1>2, <2>4, <3>2
        <3>4. a \notin Recent(t) BY <2>4, <3>2 DEF Recent
        <3>5. Many({"limit"}, t) \in Nat /\ Many({"limit"}, t) <= Cardinality(Req) - 1
            <4> DEFINE P == {"limit"}
            <4>1. r \notin Among(P, t) BY <1>2 DEF Among
            <4> QED BY <4>1, ManyNumber
        <3>6. Many({"check"}, t) \in Nat BY ManyNumber
        <3>7. Many({"limit", "check"}, t) = Many({"limit"}, t) + Many({"check"}, t)
            <4>1. {"limit", "check"} = {"limit"} \cup {"check"} OBVIOUS
            <4>2. {"limit"} \cap {"check"} = {} OBVIOUS
            <4>3. Many({"limit"} \cup {"check"}, t) = Many({"limit"}, t) + Many({"check"}, t)
                BY <4>2, StepsAddUp
            <4> QED BY <4>1, <4>3
        <3>8. Many({"check", "failure"}, t) = Many({"check"}, t) + Many({"failure"}, t)
            <4>1. {"check", "failure"} = {"check"} \cup {"failure"} OBVIOUS
            <4>2. {"check"} \cap {"failure"} = {} OBVIOUS
            <4>3. Many({"check"} \cup {"failure"}, t)
                  = Many({"check"}, t) + Many({"failure"}, t)
                BY <4>2, StepsAddUp
            <4> QED BY <4>1, <4>3
        <3>9. /\ Tried(t) <= Recorded(t) + Many({"failure"}, t) + lost
              /\ Recorded(t) + Many({"check", "failure"}, t)
                 <= Limit + Cardinality(Req) - 1
            BY <2>4 DEF Kept
        <3>10. Tried(t) + Many({"limit", "check"}, t)
               <= Limit + 2 * (Cardinality(Req) - 1) + lost
            BY <1>10, <3>5, <3>6, <3>7, <3>8, <3>9, RateNumbers
        <3> QED BY <1>1, <1>6, <1>12, <3>3, <3>10 DEF Forgotten
    <2> QED BY <2>1, <2>2, <2>3, <2>4
<1> QED BY <1>11, <1>12 DEF recordLoginFailure, a

\* A sign-in clears the list: only what is about to be recorded still counts.
LEMMA SuccessRate ==
    ASSUME Types, Requests, Types', NEW r \in Req, recordLoginSuccess(r),
           NEW t \in Time, Kept(t) \/ Forgotten(t)
    PROVE  Kept(t)' \/ Forgotten(t)'
<1>1. req[r].step = "success" BY DEF recordLoginSuccess, Busy
<1>2. req'[r].step \in {"sudo", "totp"}
    BY DEF recordLoginSuccess, Goto, Requests, Request
<1>3. \A p \in Req \ {r} : req'[p].step = req[p].step /\ req'[p].at = req[p].at
    BY DEF recordLoginSuccess, Goto, Requests
<1>4. ASSUME NEW P \in SUBSET Trying
      PROVE  Many(P, t)' = Many(P, t) /\ Many(P, t) <= Cardinality(Req) - 1
    <2>1. r \notin Among(P, t) /\ r \notin Among(P, t)' BY <1>1, <1>2 DEF Among, Trying
    <2> QED BY <1>3, <2>1, OneCounts, ManyNumber
<1>5. {"failure"} \in SUBSET Trying /\ {"check", "failure"} \in SUBSET Trying BY DEF Trying
<1>6. Tried(t)' <= Many({"failure"}, t)
    <2>1. tries' = [u \in Time |->
                        Cardinality({q \in Req : Busy(q, "failure") /\ req[q].at = u})]
        BY DEF recordLoginSuccess
    <2>2. Cardinality(Entries(tries', Recent(t)))
          <= Cardinality({q \in Req : req[q].step \in {"failure"} /\ req[q].at \in Recent(t)})
        BY <2>1, RateNumbers, EntriesPending
    <2> QED BY <2>2 DEF Tried, Recent, Many, Among
<1>7. Recorded(t)' = 0
    <2>1. fails' = [u \in Time |-> 0] BY DEF recordLoginSuccess
    <2>2. Cardinality(Entries(fails', Recent(t))) = 0 BY <2>1, RateNumbers, EntriesNone
    <2> QED BY <2>2 DEF Recorded
<1>8. lost' = lost BY DEF recordLoginSuccess
<1>9. lost \in Nat BY SignInAssumption DEF Types
<1>10. Tried(t)' \in Nat
    <2>1. Cardinality(Entries(tries', Recent(t))) \in Nat
        BY RateNumbers, EntriesNumber DEF Types
    <2> QED BY <2>1 DEF Tried, Recent
<1>11. Many({"failure"}, t) \in Nat /\ Many({"check", "failure"}, t) \in Nat BY ManyNumber
<1>12. Tried(t)' <= Recorded(t)' + Many({"failure"}, t)' + lost'
    BY <1>4, <1>5, <1>6, <1>7, <1>8, <1>9, <1>10, <1>11
<1>13. Recorded(t)' + Many({"check", "failure"}, t)' <= Limit + Cardinality(Req) - 1
    BY <1>4, <1>5, <1>7, <1>11, RateNumbers
<1> QED BY <1>12, <1>13 DEF Kept

\* What was about to be recorded when the process stops is lost.
LEMMA StopRate ==
    ASSUME Types, Requests, Types', Stop,
           NEW t \in Time, Kept(t) \/ Forgotten(t)
    PROVE  Kept(t)' \/ Forgotten(t)'
<1>1. Tried(t)' = Tried(t) /\ Recorded(t)' = Recorded(t) /\ now' = now
    BY DEF Stop, row, Tried, Recorded
<1>2. \A p \in Req : req'[p].step = "idle" BY DEF Stop, Idle
<1>3. ASSUME NEW P \in SUBSET Trying PROVE Many(P, t)' = 0
    <2>1. Among(P, t)' = {} BY <1>2 DEF Among, Trying
    <2> QED BY <2>1, FS_EmptySet DEF Many
<1>4. /\ Many({"failure"}, t)' = 0 /\ Many({"check", "failure"}, t)' = 0
      /\ Many({"limit", "check"}, t)' = 0
    BY <1>3 DEF Trying
<1> DEFINE Failing == {p \in Req : Busy(p, "failure")}
<1>5. Many({"failure"}, t) <= Cardinality(Failing) /\ Cardinality(Failing) \in Nat
    <2>1. Among({"failure"}, t) \subseteq Failing BY DEF Among, Busy
    <2>2. Failing \in SUBSET Req OBVIOUS
    <2>3. IsFiniteSet(Failing) /\ Cardinality(Failing) \in Nat BY <2>2, SomeRequests
    <2> HIDE DEF Failing
    <2> QED BY <2>1, <2>3, FS_Subset DEF Many
<1>6. lost' = lost + Cardinality(Failing) BY DEF Stop
<1>7. /\ Many({"failure"}, t) \in Nat /\ Many({"check", "failure"}, t) \in Nat
      /\ Many({"limit", "check"}, t) \in Nat
    BY ManyNumber
<1> HIDE DEF Failing
<1>8. CASE Kept(t) BY <1>1, <1>4, <1>5, <1>6, <1>7, <1>8, RateNumbers DEF Kept
<1>9. CASE Forgotten(t) BY <1>1, <1>4, <1>5, <1>6, <1>7, <1>9, RateNumbers DEF Forgotten
<1> QED BY <1>8, <1>9

\* Requests that keep their time, or have none, are not ahead of the clock.
LEMMA PastNow ==
    ASSUME Types, Past, now' = now, \A p \in Req : req[p].at \in Nat,
           \A p \in Req : req'[p].at \in {req[p].at, 0}
    PROVE  Past' /\ now <= now'
<1>1. now \in Nat BY SignInAssumption DEF Types, Time
<1>2. ASSUME NEW p \in Req PROVE req'[p].at <= now'
    <2>1. req[p].at <= now BY DEF Past
    <2> QED BY <1>1, <2>1
<1> QED BY <1>1, <1>2 DEF Past

\* No step gives a request a time that has not come.
LEMMA PastStep ==
    ASSUME Types, Requests, Past, [Next]_vars
    PROVE  Past' /\ now <= now'
<1> USE SignInAssumption
    DEF Types, Past, Time, Idle, SeenOff, row, browser, Goto, Answer, Started
<1>0. req \in [Req -> Request] /\ \A r \in Req : req[r].at \in Nat
    BY DEF Requests, Request
<1>1. ASSUME NEW r \in Req, Submit(r) PROVE Past' /\ now <= now' BY <1>0, <1>1 DEF Submit
<1>2. ASSUME NEW r \in Req, loginRateLimit(r) PROVE Past' /\ now <= now'
    <2> HIDE DEF Time
    <2>1. \A p \in Req : req'[p].at \in {req[p].at, 0} BY <1>0, <1>2 DEF loginRateLimit, Request
    <2>2. now' = now BY <1>2 DEF loginRateLimit
    <2> QED BY <1>0, <2>1, <2>2, PastNow
<1>3. ASSUME NEW r \in Req, checkPassword(r) PROVE Past' /\ now <= now'
    <2> HIDE DEF Time
    <2>1. \A p \in Req : req'[p].at \in {req[p].at, 0} BY <1>0, <1>3 DEF checkPassword, Request
    <2>2. now' = now BY <1>3 DEF checkPassword
    <2> QED BY <1>0, <2>1, <2>2, PastNow
<1>4. ASSUME NEW r \in Req, recordLoginFailure(r) PROVE Past' /\ now <= now'
    BY <1>0, <1>4 DEF recordLoginFailure
<1>5. ASSUME NEW r \in Req, recordLoginSuccess(r) PROVE Past' /\ now <= now'
    BY <1>0, <1>5 DEF recordLoginSuccess, Request
<1>6. ASSUME NEW r \in Req, SetSudo(r) PROVE Past' /\ now <= now' BY <1>0, <1>6 DEF SetSudo
<1>7. ASSUME NEW r \in Req, totpInfo(r) PROVE Past' /\ now <= now' BY <1>0, <1>7 DEF totpInfo
<1>8. ASSUME NEW r \in Req, SubmitCode(r) PROVE Past' /\ now <= now' BY <1>0, <1>8 DEF SubmitCode
<1>9. ASSUME NEW r \in Req, checkTOTP(r) PROVE Past' /\ now <= now' BY <1>0, <1>9 DEF checkTOTP
<1>10. ASSUME NEW r \in Req, Enable(r) PROVE Past' /\ now <= now' BY <1>0, <1>10 DEF Enable
<1>11. ASSUME NEW r \in Req, activateTOTP(r) PROVE Past' /\ now <= now'
    BY <1>0, <1>11 DEF activateTOTP
<1>12. ASSUME NEW r \in Req, Disable(r) PROVE Past' /\ now <= now' BY <1>0, <1>12 DEF Disable
<1>13. ASSUME NEW r \in Req, disableTOTP(r) PROVE Past' /\ now <= now'
    <2> HIDE DEF Time
    <2>1. \A p \in Req : req'[p].at \in {req[p].at, 0}
        BY <1>0, <1>13 DEF disableTOTP, Request
    <2>2. now' = now BY <1>13 DEF disableTOTP
    <2> QED BY <1>0, <2>1, <2>2, PastNow
<1>14. CASE SignOut BY <1>0, <1>14 DEF SignOut
<1>15. CASE setup BY <1>0, <1>15 DEF setup
<1>16. CASE changePassword BY <1>0, <1>16 DEF changePassword, setPassword
<1>17. CASE SetRootPassword BY <1>0, <1>17 DEF SetRootPassword, setPassword
<1>18. CASE AdminDisableTOTP
    <2> HIDE DEF Time
    <2>1. \A p \in Req : req'[p].at \in {req[p].at, 0}
        BY <1>0, <1>18 DEF AdminDisableTOTP, Request
    <2>2. now' = now BY <1>18 DEF AdminDisableTOTP
    <2> QED BY <1>0, <2>1, <2>2, PastNow
<1>19. CASE Tick BY <1>0, <1>19 DEF Tick
<1>20. CASE Stop BY <1>0, <1>20 DEF Stop
<1>21. CASE UNCHANGED vars BY <1>0, <1>21 DEF vars
<1> QED
    BY <1>1, <1>2, <1>3, <1>4, <1>5, <1>6, <1>7, <1>8, <1>9, <1>10, <1>11, <1>12, <1>13,
       <1>14, <1>15, <1>16, <1>17, <1>18, <1>19, <1>20, <1>21
       DEF Next

\* A step in which requests stay, or leave for what does not count, is a quiet one.
Still(p) == req'[p].step = req[p].step /\ req'[p].at = req[p].at
Aside(p) == req[p].step # "failure" /\ req'[p].step \notin Trying
Quiet == UNCHANGED <<fails, tries, lost>> /\ \A p \in Req : Still(p) \/ Aside(p)

\* Every step that has no part in the rate limit is quiet.
LEMMA QuietSteps ==
    ASSUME Types, Requests, Types', Requests',
           \/ \E r \in Req :
                 \/ SetSudo(r) \/ totpInfo(r) \/ SubmitCode(r) \/ checkTOTP(r)
                 \/ Enable(r) \/ activateTOTP(r) \/ Disable(r) \/ disableTOTP(r)
           \/ SignOut \/ setup \/ changePassword \/ SetRootPassword \/ AdminDisableTOTP
           \/ Tick \/ UNCHANGED vars
    PROVE  Quiet
<1> USE DEF Quiet, Still, Aside, Trying, Idle, row, browser, Busy, Goto, Answer, Started
<1>0. req \in [Req -> Request] BY DEF Requests
<1>6. ASSUME NEW r \in Req, SetSudo(r) PROVE Quiet BY <1>0, <1>6 DEF SetSudo
<1>7. ASSUME NEW r \in Req, totpInfo(r) PROVE Quiet BY <1>0, <1>7 DEF totpInfo
<1>8. ASSUME NEW r \in Req, SubmitCode(r) PROVE Quiet BY <1>0, <1>8 DEF SubmitCode
<1>9. ASSUME NEW r \in Req, checkTOTP(r) PROVE Quiet BY <1>0, <1>9 DEF checkTOTP
<1>10. ASSUME NEW r \in Req, Enable(r) PROVE Quiet BY <1>0, <1>10 DEF Enable
<1>11. ASSUME NEW r \in Req, activateTOTP(r) PROVE Quiet BY <1>0, <1>11 DEF activateTOTP
<1>12. ASSUME NEW r \in Req, Disable(r) PROVE Quiet BY <1>0, <1>12 DEF Disable
<1>13. ASSUME NEW r \in Req, disableTOTP(r) PROVE Quiet
    BY <1>0, <1>13 DEF disableTOTP, SeenOff, Request
<1>14. CASE SignOut BY <1>14 DEF SignOut
<1>15. CASE setup BY <1>15 DEF setup
<1>16. CASE changePassword BY <1>16 DEF changePassword, setPassword
<1>17. CASE SetRootPassword BY <1>17 DEF SetRootPassword, setPassword
<1>18. CASE AdminDisableTOTP BY <1>0, <1>18 DEF AdminDisableTOTP, SeenOff, Request
<1>19. CASE Tick BY <1>19 DEF Tick
<1>21. CASE UNCHANGED vars BY <1>21 DEF vars
<1> QED
    BY <1>6, <1>7, <1>8, <1>9, <1>10, <1>11, <1>12, <1>13, <1>14, <1>15, <1>16, <1>17,
       <1>18, <1>19, <1>21

\* Nothing that is tried escapes the count, whatever is interleaved.
LEMMA RateStep ==
    ASSUME Types, Requests, Types', Requests', Rate, [Next]_vars
    PROVE  Rate'
<1>1. Past /\ \A t \in Time : Kept(t) \/ Forgotten(t) BY DEF Rate, Past
<1>2. Past' /\ now <= now' BY <1>1, PastStep
<1> SUFFICES ASSUME NEW t \in Time PROVE Kept(t)' \/ Forgotten(t)'
    BY <1>2 DEF Rate, Past
<1>3. Kept(t) \/ Forgotten(t) BY <1>1
<1>4. ASSUME Quiet PROVE Kept(t)' \/ Forgotten(t)'
    BY <1>2, <1>3, <1>4, QuietStep DEF Quiet, Still, Aside
<1>5. ASSUME NEW r \in Req, Submit(r) PROVE Kept(t)' \/ Forgotten(t)'
    BY <1>1, <1>3, <1>5, SubmitRate
<1>6. ASSUME NEW r \in Req, loginRateLimit(r) PROVE Kept(t)' \/ Forgotten(t)'
    <2>1. CASE count(fails, req[r].at) < Limit BY <1>3, <1>6, <2>1, PassRate
    <2>2. CASE ~ (count(fails, req[r].at) < Limit)
        <3>1. req' = [req EXCEPT ![r] = Idle] /\ UNCHANGED <<fails, tries, lost>>
              /\ req[r].step = "limit"
            BY <1>6, <2>2 DEF loginRateLimit, Answer, row, Busy
        <3>2. Quiet BY <3>1 DEF Quiet, Still, Aside, Trying, Idle, Requests
        <3> QED BY <1>4, <3>2
    <2> QED BY <2>1, <2>2
<1>7. ASSUME NEW r \in Req, checkPassword(r) PROVE Kept(t)' \/ Forgotten(t)'
    <2>1. CASE req'[r].step # "success" BY <1>3, <1>7, <2>1, WrongRate
    <2>2. CASE req'[r].step = "success"
        <3>1. /\ req' = [req EXCEPT ![r].step = "success", ![r].off = (totp = None)]
              /\ UNCHANGED <<fails, tries, lost>> /\ req[r].step = "check"
            BY <1>7, <2>2 DEF checkPassword, Goto, row, Busy, Requests, Request
        <3>2. Quiet BY <3>1 DEF Quiet, Still, Aside, Trying, Requests, Request
        <3> QED BY <1>4, <3>2
    <2> QED BY <2>1, <2>2
<1>8. ASSUME NEW r \in Req, recordLoginFailure(r) PROVE Kept(t)' \/ Forgotten(t)'
    BY <1>1, <1>3, <1>8, FailureRate
<1>9. ASSUME NEW r \in Req, recordLoginSuccess(r) PROVE Kept(t)' \/ Forgotten(t)'
    BY <1>3, <1>9, SuccessRate
<1>10. CASE Stop BY <1>3, <1>10, StopRate
<1> QED BY <1>4, <1>5, <1>6, <1>7, <1>8, <1>9, <1>10, QuietSteps DEF Next

\* A new box has no failures.
LEMMA InitRate == Init => Rate
<1> SUFFICES ASSUME Init PROVE Rate OBVIOUS
<1>1. Past BY DEF Init, Past, Idle
<1>2. ASSUME NEW t \in Time PROVE Kept(t)
    <2>0. Types BY InitIInv DEF IInv
    <2>1. fails = [u \in Time |-> 0] /\ tries = [u \in Time |-> 0] /\ lost = 0 BY DEF Init
    <2>2. Tried(t) = 0 /\ Recorded(t) = 0
        BY <2>0, <2>1, RateNumbers, EntriesNone DEF Recorded
    <2>3. \A r \in Req : req[r].step = "idle" BY DEF Init, Idle
    <2>4. Among({"failure"}, t) = {} /\ Among({"check", "failure"}, t) = {}
        BY <2>3 DEF Among
    <2>5. Many({"failure"}, t) = 0 /\ Many({"check", "failure"}, t) = 0
        BY <2>4, FS_EmptySet DEF Many
    <2> QED BY <2>0, <2>1, <2>2, <2>5, RateNumbers DEF Kept
<1> QED BY <1>1, <1>2 DEF Rate, Past

\* What is kept or forgotten is within the bound.
LEMMA RateBound == ASSUME Types, Rate PROVE RateHolds
<1> SUFFICES ASSUME NEW t \in Time
             PROVE  Tried(t) <= Limit + 2 * (Cardinality(Req) - 1) + lost
    BY DEF RateHolds
<1>1. Kept(t) \/ Forgotten(t) BY DEF Rate
<1>2. /\ Many({"limit", "check"}, t) \in Nat /\ Many({"check", "failure"}, t) \in Nat
      /\ Many({"failure"}, t) \in Nat
    BY ManyNumber
<1>3. CASE Forgotten(t) BY <1>2, <1>3, RateNumbers DEF Forgotten
<1>4. CASE Kept(t)
    <2>1. Many({"failure"}, t) <= Many({"check", "failure"}, t)
        <3>1. Among({"failure"}, t) \subseteq Among({"check", "failure"}, t) BY DEF Among
        <3>2. Among({"check", "failure"}, t) \in SUBSET Req BY DEF Among
        <3>3. IsFiniteSet(Among({"check", "failure"}, t)) BY <3>2, SomeRequests
        <3> QED BY <3>1, <3>3, FS_Subset DEF Many
    <2> QED BY <1>2, <1>4, <2>1, RateNumbers DEF Kept
<1> QED BY <1>1, <1>3, <1>4

\* The limit on wrong passwords holds for any number of requests at once: within a window
\* there are at most twice as many tries too many as there are other requests, and those
\* whose record was lost (users.go:136-173, recent_failures.go).
THEOREM SignInRateHolds == Spec => []RateHolds
<1>1. Init => IInv /\ Rate BY InitIInv, InitRate
<1>2. IInv /\ Rate /\ [Next]_vars => (IInv /\ Rate)'
    <2> SUFFICES ASSUME IInv, Rate, [Next]_vars PROVE IInv' /\ Rate' OBVIOUS
    <2>1. IInv' BY StepIInv
    <2>2. Types /\ Requests /\ Types' /\ Requests' BY <2>1 DEF IInv
    <2> QED BY <2>1, <2>2, RateStep
<1>3. IInv /\ Rate => RateHolds BY RateBound DEF IInv
<1> QED BY <1>1, <1>2, <1>3, PTL DEF Spec

=============================================================================
