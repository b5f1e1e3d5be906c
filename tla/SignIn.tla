------------------------------- MODULE SignIn -------------------------------
(***************************************************************************)
(* One account: its password, second factor, lockout, sessions and reset   *)
(* links (modules/auth.js, auth/session.js, services/security.js,          *)
(* services/ratelimit.js, and the administrator's reset in                 *)
(* modules/users.js).                                                      *)
(*                                                                         *)
(* A password is the number of the change that set it; 0 is a wrong one.   *)
(* Time is counted in the 30 second steps of the authenticator: the code   *)
(* of a step is accepted Window steps early or late.  Lockouts and rate    *)
(* windows end by an action of their own, since they outlast many steps.   *)
(***************************************************************************)
EXTENDS Handlers, Integers, Sequences

CONSTANTS
    Window,         \* TOTP_WINDOW
    Keep,           \* lifetime of the row that remembers the last code used
    MaxStep,        \* bound: steps the model runs for
    MaxFailed,      \* security_policies.max_failed_logins
    MaxAttempts,    \* RATE_LIMITS['auth.login'].max
    MaxTries,       \* wrong codes a challenge accepts
    MaxPw           \* bound: password changes

\* consumeTotpStep: "the row expires long after the acceptance window has passed".
ASSUME SignInConstants ==
    /\ Keep >= 2 * Window
    /\ Window \in Nat /\ Keep \in Nat /\ MaxStep \in Nat /\ MaxPw \in Nat \ {0}
    /\ MaxFailed \in Nat \ {0} /\ MaxAttempts \in Nat \ {0} /\ MaxTries \in Nat \ {0}

VARIABLES
    step,           \* the authenticator's current time step
    account,        \* the users row
    sessions,       \* sessions, in the order they were created
    challenges,     \* auth_challenges, in the order they were created
    resets,         \* password_resets, in the order they were created
    totp,           \* the row rate_limits keeps per user: last step used, and when
    attempts,       \* the row of rate_limits for sign-in attempts; -1 is no row
    signHistory     \* history, see SignInInit

signIn == <<step, account, sessions, challenges, resets, totp, attempts, signHistory>>
signInVars == <<server, signIn>>

SignInInit ==
    /\ step = 0
    /\ \E on \in BOOLEAN :
          account = [pw |-> 1, twofa |-> on, secret |-> on, codes |-> IF on THEN 1 ELSE 0,
                     failed |-> 0, locked |-> FALSE, mustChange |-> FALSE]
    /\ sessions = <<[pw |-> 1, via |-> "password", revoked |-> FALSE, kept |-> 0]>>
    /\ challenges = <<>> /\ resets = <<>>
    /\ totp = [last |-> -1, at |-> 0]
    /\ attempts = -1
    /\ signHistory = [codeUses |-> [s \in 0..(MaxStep + Window) |-> 0], \* codes accepted
                      backupUses |-> 0,     \* uses of the recovery codes now issued
                      guesses |-> 0,        \* wrong passwords since a success or a lock
                      admitted |-> 0]       \* attempts let through in this rate window

Live == {i \in DOMAIN sessions : ~sessions[i].revoked}

\* authorize: a person told to set a new password may do nothing else.
Authorized(i) == i \in Live /\ ~account.mustChange

NewSession(pw, via) == [pw |-> pw, via |-> via, revoked |-> FALSE, kept |-> 0]
RevokeAll(except) ==
    [i \in DOMAIN sessions |->
        IF i = except THEN [sessions[i] EXCEPT !.kept = account.pw]
        ELSE [sessions[i] EXCEPT !.revoked = TRUE]]

-----------------------------------------------------------------------------
\* POST /login.  consumeAttempt reads the row of the rate window ...
Login(r, pw) ==
    /\ attempts < MaxAttempts
    /\ Begin(r, [pc |-> "spend", pw |-> pw, row |-> attempts])
    /\ UNCHANGED signIn

\* ... and counts: an UPDATE of a row that was there, else an INSERT OR IGNORE.
\* The users row is read next; a locked account is turned away.
SpendAttempt(r) ==
    /\ At(r, "spend")
    /\ attempts' = IF req[r].row >= 0 \/ attempts < 0
                   THEN IF attempts < 0 THEN 1 ELSE attempts + 1
                   ELSE attempts
    /\ signHistory' = [signHistory EXCEPT !.admitted = @ + 1]
    /\ Continue(r, IF account.locked THEN Idle
                   ELSE [pc |-> IF req[r].pw # account.pw THEN "failed"
                                ELSE IF account.twofa THEN "challenge" ELSE "session",
                         seen |-> account, via |-> "password"])
    /\ UNCHANGED <<step, account, sessions, challenges, resets, totp>>

\* registerFailedLogin counts from the row that was read.
RegisterFailedLogin(r) ==
    LET count == req[r].seen.failed + 1 IN
    /\ At(r, "failed")
    /\ account' = IF count >= MaxFailed THEN [account EXCEPT !.failed = 0, !.locked = TRUE]
                  ELSE [account EXCEPT !.failed = count]
    /\ signHistory' = [signHistory EXCEPT !.guesses = IF account'.locked THEN 0 ELSE @ + 1]
    /\ Return(r)
    /\ UNCHANGED <<step, sessions, challenges, resets, totp, attempts>>

InsertChallenge(r) ==
    /\ At(r, "challenge")
    /\ challenges' = Append(challenges, [tries |-> 0, consumed |-> FALSE,
                                         pw |-> req[r].seen.pw, opened |-> 0])
    /\ Return(r)
    /\ UNCHANGED <<step, account, sessions, resets, totp, attempts, signHistory>>

CreateSession(r) ==
    /\ At(r, "session")
    /\ sessions' = Append(sessions, NewSession(req[r].seen.pw, req[r].via))
    /\ Continue(r, [pc |-> "clear"])
    /\ UNCHANGED <<step, account, challenges, resets, totp, attempts, signHistory>>

ClearFailedLogins(r) ==
    /\ At(r, "clear")
    /\ account' = [account EXCEPT !.failed = 0, !.locked = FALSE]
    /\ signHistory' = [signHistory EXCEPT !.guesses = 0]
    /\ Return(r)
    /\ UNCHANGED <<step, sessions, challenges, resets, totp, attempts>>

-----------------------------------------------------------------------------
\* consumeTotpStep, verifyTotp's answer included: one conditional UPDATE.
Accepted(s) == s \in (step - Window)..(step + Window) /\ totp.last < s
ConsumeTotpStep(s) ==
    /\ totp' = [last |-> s, at |-> step]
    /\ signHistory' = [signHistory EXCEPT !.codeUses[s] = @ + 1]

\* POST /2fa/verify reads the challenge and the account.  The code is that of
\* step s of the authenticator, or a recovery code.
VerifyChallenge(r, c, code) ==
    /\ ~challenges[c].consumed /\ challenges[c].tries < MaxTries
    /\ account.secret
    /\ Begin(r, [pc |-> "verify", chal |-> c, code |-> code, row |-> challenges[c],
                 seen |-> account])
    /\ UNCHANGED signIn

VerifyTotp(r, s) ==
    /\ At(r, "verify") /\ req[r].code = "totp"
    /\ IF Accepted(s)
       THEN /\ ConsumeTotpStep(s)
            /\ Continue(r, [pc |-> "consume", chal |-> req[r].chal,
                            seen |-> [req[r].seen EXCEPT !.pw = req[r].row.pw]])
       ELSE /\ Continue(r, [req[r] EXCEPT !.pc = "wrong"])
            /\ UNCHANGED <<totp, signHistory>>
    /\ UNCHANGED <<step, account, sessions, challenges, resets, attempts>>

\* consumeBackupCode writes back the list it read, without the code.
VerifyBackup(r) ==
    /\ At(r, "verify") /\ req[r].code = "backup"
    /\ IF req[r].seen.codes > 0
       THEN /\ account' = [account EXCEPT !.codes = req[r].seen.codes - 1]
            /\ signHistory' = [signHistory EXCEPT !.backupUses = @ + 1]
            /\ Continue(r, [pc |-> "consume", chal |-> req[r].chal,
                            seen |-> [req[r].seen EXCEPT !.pw = req[r].row.pw]])
       ELSE /\ Continue(r, [req[r] EXCEPT !.pc = "wrong"])
            /\ UNCHANGED <<account, signHistory>>
    /\ UNCHANGED <<step, sessions, challenges, resets, totp, attempts>>

CountWrongCode(r) ==
    /\ At(r, "wrong")
    /\ challenges' = [challenges EXCEPT ![req[r].chal].tries = req[r].row.tries + 1]
    /\ Return(r)
    /\ UNCHANGED <<step, account, sessions, resets, totp, attempts, signHistory>>

ConsumeChallenge(r) ==
    /\ At(r, "consume")
    /\ challenges' = [challenges EXCEPT ![req[r].chal].consumed = TRUE,
                                        ![req[r].chal].opened = @ + 1]
    /\ Continue(r, [pc |-> "session", seen |-> req[r].seen, via |-> "code"])
    /\ UNCHANGED <<step, account, sessions, resets, totp, attempts, signHistory>>

-----------------------------------------------------------------------------
\* Second-factor enrolment.
Setup2fa(r, i) ==
    /\ i \in Live /\ ~account.twofa
    /\ Begin(r, [pc |-> "write2fa", patch |-> [secret |-> TRUE]])
    /\ UNCHANGED signIn

\* POST /2fa/enable: the code is spent, then the flag and ten fresh codes (one
\* here) are written.
Enable2fa(r, i, s) ==
    /\ i \in Live /\ account.secret /\ Accepted(s)
    /\ ConsumeTotpStep(s)
    /\ Begin(r, [pc |-> "write2fa", patch |-> [twofa |-> TRUE, codes |-> 1]])
    /\ UNCHANGED <<step, account, sessions, challenges, resets, attempts>>

Disable2fa(r, i) ==
    /\ Authorized(i)
    /\ Begin(r, [pc |-> "write2fa", patch |-> [twofa |-> FALSE, secret |-> FALSE, codes |-> 0]])
    /\ UNCHANGED signIn

RegenerateCodes(r, i) ==
    /\ Authorized(i) /\ account.twofa
    /\ Begin(r, [pc |-> "write2fa", patch |-> [codes |-> 1]])
    /\ UNCHANGED signIn

Write2fa(r) ==
    /\ At(r, "write2fa")
    /\ account' = Update(account, req[r].patch)
    /\ signHistory' = IF "codes" \in DOMAIN req[r].patch
                      THEN [signHistory EXCEPT !.backupUses = 0] ELSE signHistory
    /\ Return(r)
    /\ UNCHANGED <<step, sessions, challenges, resets, totp, attempts>>

\* POST /2fa/step-up with a code; the timestamp it sets is not modelled.
StepUp(r, i, s) ==
    /\ Authorized(i) /\ account.twofa /\ account.secret /\ Accepted(s)
    /\ ConsumeTotpStep(s)
    /\ Begin(r, Idle)
    /\ UNCHANGED <<step, account, sessions, challenges, resets, attempts>>

-----------------------------------------------------------------------------
\* Passwords.
ForgotPassword(r) ==
    /\ resets' = Append(resets, [used |-> FALSE, uses |-> 0])
    /\ Begin(r, Idle)
    /\ UNCHANGED <<step, account, sessions, challenges, totp, attempts, signHistory>>

\* POST /reset-password reads the link; the password, used_at and the sessions
\* are three later statements.
ResetPassword(r, k) ==
    /\ ~resets[k].used
    /\ Begin(r, [pc |-> "password", link |-> k, except |-> 0, must |-> FALSE, unlock |-> TRUE])
    /\ UNCHANGED signIn

ChangePassword(r, i) ==
    /\ i \in Live
    /\ Begin(r, [pc |-> "password", link |-> 0, except |-> i, must |-> FALSE, unlock |-> FALSE])
    /\ UNCHANGED signIn

\* POST /users/:id/reset-password, by an administrator.
AdminResetPassword(r) ==
    /\ Begin(r, [pc |-> "password", link |-> 0, except |-> 0, must |-> TRUE, unlock |-> TRUE])
    /\ UNCHANGED signIn

WritePassword(r) ==
    LET k == req[r].link IN
    /\ At(r, "password") /\ account.pw < MaxPw
    /\ account' = [account EXCEPT !.pw = @ + 1, !.mustChange = req[r].must,
                                  !.failed = IF req[r].unlock THEN 0 ELSE @,
                                  !.locked = IF req[r].unlock THEN FALSE ELSE @]
    /\ resets' = IF k = 0 THEN resets ELSE [resets EXCEPT ![k].uses = @ + 1]
    /\ signHistory' = IF req[r].unlock THEN [signHistory EXCEPT !.guesses = 0] ELSE signHistory
    /\ Continue(r, [req[r] EXCEPT !.pc = IF k = 0 THEN "revoke" ELSE "used"])
    /\ UNCHANGED <<step, sessions, challenges, totp, attempts>>

MarkUsed(r) ==
    /\ At(r, "used")
    /\ resets' = [resets EXCEPT ![req[r].link].used = TRUE]
    /\ Continue(r, [req[r] EXCEPT !.pc = "revoke"])
    /\ UNCHANGED <<step, account, sessions, challenges, totp, attempts, signHistory>>

RevokeSessions(r) ==
    /\ At(r, "revoke")
    /\ sessions' = RevokeAll(req[r].except)
    /\ Return(r)
    /\ UNCHANGED <<step, account, challenges, resets, totp, attempts, signHistory>>

\* POST /logout, DELETE /sessions/:id, the idle cut-off and an administrator
\* ending one session.
RevokeSession(r, i) ==
    /\ i \in Live
    /\ sessions' = [sessions EXCEPT ![i].revoked = TRUE]
    /\ Begin(r, Idle)
    /\ UNCHANGED <<step, account, challenges, resets, totp, attempts, signHistory>>

\* POST /sessions/revoke-others.
RevokeOthers(r, i) ==
    /\ Authorized(i)
    /\ sessions' = RevokeAll(i)
    /\ Begin(r, Idle)
    /\ UNCHANGED <<step, account, challenges, resets, totp, attempts, signHistory>>

-----------------------------------------------------------------------------
\* Time.
Tick30 ==
    /\ step < MaxStep
    /\ step' = step + 1
    /\ UNCHANGED <<server, account, sessions, challenges, resets, totp, attempts, signHistory>>

LockoutEnds ==
    /\ account.locked
    /\ account' = [account EXCEPT !.locked = FALSE]
    /\ UNCHANGED <<server, step, sessions, challenges, resets, totp, attempts, signHistory>>

RateWindowEnds ==
    /\ attempts > 0
    /\ attempts' = -1
    /\ signHistory' = [signHistory EXCEPT !.admitted = 0]
    /\ UNCHANGED <<server, step, account, sessions, challenges, resets, totp>>

\* Mutant: the memory of the last code goes while the code still counts.
PurgeRateLimitsEarly ==
    /\ totp.last >= 0
    /\ totp' = [last |-> -1, at |-> 0]
    /\ UNCHANGED <<server, step, account, sessions, challenges, resets, attempts, signHistory>>

\* purgeRateLimits also deletes the memory of the last code, once it has expired.
PurgeRateLimits ==
    /\ totp.last >= 0 /\ totp.at + Keep < step
    /\ totp' = [last |-> -1, at |-> 0]
    /\ UNCHANGED <<server, step, account, sessions, challenges, resets, attempts, signHistory>>

-----------------------------------------------------------------------------
CodeSteps == 0..(MaxStep + Window)

SignInStep(r) ==
    \/ SpendAttempt(r) \/ RegisterFailedLogin(r) \/ InsertChallenge(r)
    \/ CreateSession(r) \/ ClearFailedLogins(r)
    \/ (\E s \in CodeSteps : VerifyTotp(r, s)) \/ VerifyBackup(r)
    \/ CountWrongCode(r) \/ ConsumeChallenge(r)
    \/ Write2fa(r)
    \/ WritePassword(r) \/ MarkUsed(r) \/ RevokeSessions(r)

SignInRequest(r) ==
    \/ \E pw \in 0..account.pw : Login(r, pw)
    \/ \E c \in DOMAIN challenges, code \in {"totp", "backup"} : VerifyChallenge(r, c, code)
    \/ \E i \in DOMAIN sessions :
          \/ Setup2fa(r, i) \/ Disable2fa(r, i) \/ RegenerateCodes(r, i)
          \/ \E s \in CodeSteps : Enable2fa(r, i, s) \/ StepUp(r, i, s)
          \/ ChangePassword(r, i) \/ RevokeSession(r, i) \/ RevokeOthers(r, i)
    \/ ForgotPassword(r)
    \/ \E k \in DOMAIN resets : ResetPassword(r, k)
    \/ AdminResetPassword(r)

SignInNext ==
    \/ Tick30 \/ LockoutEnds \/ RateWindowEnds \/ PurgeRateLimits
    \/ \E r \in Requests : SignInRequest(r) \/ SignInStep(r)
    \/ Restart /\ UNCHANGED signIn

\* A start with any slots, any number of requests and of restarts.
SignInSpec ==
    /\ \E slots \in SUBSET Requests, requests, stops \in Nat : ServerInit(slots, requests, stops)
    /\ SignInInit
    /\ [][SignInNext]_signInVars

SignInTypeOK ==
    /\ step \in 0..MaxStep
    /\ account \in [pw : 1..MaxPw, twofa : BOOLEAN, secret : BOOLEAN, codes : 0..1,
                    failed : 0..MaxFailed, locked : BOOLEAN, mustChange : BOOLEAN]
    /\ sessions \in Seq([pw : 1..MaxPw, via : {"password", "code"}, revoked : BOOLEAN,
                         kept : 0..MaxPw])
    /\ challenges \in Seq([tries : 0..MaxTries, consumed : BOOLEAN, pw : 1..MaxPw,
                           opened : Nat])
    /\ resets \in Seq([used : BOOLEAN, uses : Nat])
    /\ totp \in [last : -1..(MaxStep + Window), at : 0..MaxStep]
    /\ attempts \in {-1} \cup Nat

\* security.js: "only one UPDATE can move the counter forward".  Whatever
\* overlaps - two sign-ins, a sign-in and a step-up, an enrolment, the daily purge,
\* a restart - the code of one time step is accepted once.
TotpCodeOnce == \A s \in CodeSteps : signHistory.codeUses[s] <= 1

\* A sign-in challenge opens at most one session, a reset link changes the
\* password at most once, and a recovery code "works once".  Each is read,
\* checked, and marked used in a later statement, so claimed while no two
\* handlers have overlapped.
OneTimeMeansOnce ==
    ~overlapped =>
      /\ \A c \in DOMAIN challenges : challenges[c].opened <= 1
      /\ \A k \in DOMAIN resets : resets[k].uses <= 1
      /\ signHistory.backupUses <= 1

\* A new password ends the sessions of the old one, but for the session that
\* changed it and for sign-ins that had already passed the password check and
\* were waiting for a code.  Claimed while no two handlers have overlapped: a
\* sign-in that has checked the old password inserts its session afterwards.
NewPasswordEndsSessions ==
    ~overlapped /\ Quiescent =>
      \A i \in Live : \/ sessions[i].pw = account.pw
                      \/ sessions[i].kept = account.pw
                      \/ sessions[i].via = "code"

\* An account takes fewer than MaxFailed wrong passwords between two lockouts,
\* and one rate window admits at most MaxAttempts sign-ins.  Both counters are
\* read and written back, so claimed while no two handlers have overlapped.
GuessingIsBounded ==
    ~overlapped =>
      /\ signHistory.guesses < MaxFailed
      /\ signHistory.admitted <= MaxAttempts

\* Signing in is safe: the parts above together, over every sequence of sign-ins,
\* challenges, resets, enrolments, purges and restarts.
SignInIsSafe ==
    /\ SignInTypeOK
    /\ TotpCodeOnce
    /\ OneTimeMeansOnce
    /\ NewPasswordEndsSessions
    /\ GuessingIsBounded
=============================================================================
