------------------------------ MODULE Sessions ------------------------------
(***************************************************************************)
(* AuthService for one user: login, refresh, change and reset of the       *)
(* password, logout.  Refresh tokens are rows; a token is a signed payload *)
(* of the user and the second, so two made in one second are one token,    *)
(* and the column is unique.  Only resetPassword writes in a transaction:  *)
(* the others await one statement after the other, and requests interleave *)
(* between them.  Access tokens, which no row knows of, and the expiry of  *)
(* the rows after days are left out.                                       *)
(***************************************************************************)
EXTENDS Integers, FiniteSets

CONSTANTS
    SessionCalls,  \* requests to the service, each made once
    ResetTokens,   \* rows of user_password_reset_token there may come to be
    MaxSecond,     \* bound: seconds that pass
    MaxCuts,       \* bound: requests that end between two statements
    NoReset

SessionsAssumption ==
    /\ IsFiniteSet(SessionCalls) /\ IsFiniteSet(ResetTokens)
    /\ MaxSecond \in Nat /\ MaxCuts \in Nat
    /\ NoReset \notin ResetTokens

VARIABLES
    password,   \* the current password: how often it was written
    token,      \* user_refresh_token rows, by the second they were made in
    reset,      \* user_password_reset_token rows
    sessionCall,
    second,     \* the clock
    logins,     \* history: tokens saved by login
    doubled,    \* history: refreshes of a token that was revoked meanwhile
    resetTwice, \* history: resets with a token that was used meanwhile
    sessionCuts

sessionVars == <<password, token, reset, sessionCall, second, logins, doubled, resetTwice, sessionCuts>>

Seconds == 0..MaxSecond
MaxPassword == Cardinality(SessionCalls)
\* A row, and the password that was current when it was written.
NoToken == [live |-> FALSE, since |-> -1]
Fresh == [at |-> "new", sec |-> 0, res |-> NoReset]
SessionPlaces == {"new", "login", "revoke", "save", "change", "revokeAll", "reset", "done", "refused"}

LiveTokens == {s \in Seconds : token[s].live}

SessionTypeOK ==
    /\ password \in 0..MaxPassword
    /\ token \in [Seconds -> [live : BOOLEAN, since : -1..MaxPassword]]
    /\ reset \in [ResetTokens -> {"none", "open", "used"}]
    /\ sessionCall \in [SessionCalls -> [at : SessionPlaces, sec : Seconds, res : ResetTokens \cup {NoReset}]]
    /\ second \in Seconds
    /\ logins \in Nat /\ doubled \in Nat /\ resetTwice \in Nat
    /\ sessionCuts \in 0..MaxCuts

Init ==
    /\ password = 0
    /\ token = [s \in Seconds |-> NoToken]
    /\ reset = [t \in ResetTokens |-> "none"]
    /\ sessionCall = [c \in SessionCalls |-> Fresh]
    /\ second = 0
    /\ logins = 0 /\ doubled = 0 /\ resetTwice = 0 /\ sessionCuts = 0

At(c, place) == sessionCall[c].at = place
Go(c, place) == sessionCall' = [sessionCall EXCEPT ![c].at = place]
RowsUnchanged == UNCHANGED <<password, token, reset>>
HistoryUnchanged == UNCHANGED <<second, logins, doubled, resetTwice, sessionCuts>>

\* Every row that is not revoked yet is.
AllRevoked == [s \in Seconds |-> [token[s] EXCEPT !.live = FALSE]]
NoneRevoked == token

(***************************************************************************)
(* login and refreshToken.                                                 *)
(***************************************************************************)

\* The password was right; the tokens are signed at once, in this second.
CheckPassword(c) ==
    /\ At(c, "new")
    /\ sessionCall' = [sessionCall EXCEPT ![c].at = "login", ![c].sec = second]
    /\ RowsUnchanged /\ HistoryUnchanged

\* The token is found and not revoked.
FindToken(c) ==
    /\ At(c, "new")
    /\ \E s \in LiveTokens :
         sessionCall' = [sessionCall EXCEPT ![c].at = "revoke", ![c].sec = s]
    /\ RowsUnchanged /\ HistoryUnchanged

\* The old token is revoked by its id, revoked already or not, and the new
\* ones are signed.
Revoke(c) ==
    LET old == sessionCall[c].sec IN
    /\ At(c, "revoke")
    /\ token' = [token EXCEPT ![old].live = FALSE]
    /\ doubled' = IF token[old].live THEN doubled ELSE doubled + 1
    /\ sessionCall' = [sessionCall EXCEPT ![c].at = "save", ![c].sec = second]
    /\ UNCHANGED <<password, reset, second, logins, resetTwice, sessionCuts>>

\* saveRefreshToken; the insert fails when the token was saved before.
Save(c) ==
    LET new == sessionCall[c].sec IN
    /\ At(c, "login") \/ At(c, "save")
    /\ IF token[new] = NoToken
       THEN /\ token' = [token EXCEPT ![new] = [live |-> TRUE, since |-> password]]
            /\ logins' = IF At(c, "login") THEN logins + 1 ELSE logins
            /\ Go(c, "done")
       ELSE Go(c, "refused") /\ UNCHANGED <<token, logins>>
    /\ UNCHANGED <<password, reset, second, doubled, resetTwice, sessionCuts>>

(***************************************************************************)
(* changePassword, forgotPassword, resetPassword, logout.                  *)
(***************************************************************************)

\* The current password was right.
CheckCurrent(c) ==
    /\ At(c, "new")
    /\ Go(c, "change")
    /\ RowsUnchanged /\ HistoryUnchanged

Change(c) ==
    /\ At(c, "change")
    /\ password' = password + 1
    /\ Go(c, "revokeAll")
    /\ UNCHANGED <<token, reset>> /\ HistoryUnchanged

RevokeAll(c) ==
    /\ At(c, "revokeAll")
    /\ token' = AllRevoked
    /\ Go(c, "done")
    /\ UNCHANGED <<password, reset>> /\ HistoryUnchanged

Forgot(c) ==
    /\ At(c, "new")
    /\ \E t \in ResetTokens :
         reset[t] = "none" /\ reset' = [reset EXCEPT ![t] = "open"]
    /\ Go(c, "done")
    /\ UNCHANGED <<password, token>> /\ HistoryUnchanged

FindReset(c) ==
    /\ At(c, "new")
    /\ \E t \in ResetTokens :
         reset[t] = "open" /\ sessionCall' = [sessionCall EXCEPT ![c].at = "reset", ![c].res = t]
    /\ RowsUnchanged /\ HistoryUnchanged

\* The reset without its last statement.
ResetOnly(c) ==
    /\ At(c, "reset")
    /\ password' = password + 1
    /\ reset' = [reset EXCEPT ![sessionCall[c].res] = "used"]
    /\ token' = NoneRevoked
    /\ Go(c, "done")
    /\ UNCHANGED <<resetTwice, second, logins, doubled, sessionCuts>>

\* One transaction after the hash; it does not look at the row again.
Reset(c) ==
    LET t == sessionCall[c].res IN
    /\ At(c, "reset")
    /\ password' = password + 1
    /\ reset' = [reset EXCEPT ![t] = "used"]
    /\ token' = AllRevoked
    /\ resetTwice' = IF reset[t] = "used" THEN resetTwice + 1 ELSE resetTwice
    /\ Go(c, "done")
    /\ UNCHANGED <<second, logins, doubled, sessionCuts>>

\* With the refresh token, or of every session.
Logout(c) ==
    /\ At(c, "new")
    /\ \/ \E s \in LiveTokens : token' = [token EXCEPT ![s].live = FALSE]
       \/ token' = AllRevoked
    /\ Go(c, "done")
    /\ UNCHANGED <<password, reset>> /\ HistoryUnchanged

\* A statement fails, or the process dies: nothing done before is undone.
CutOff(c) ==
    /\ sessionCall[c].at \notin {"new", "done", "refused"}
    /\ sessionCuts < MaxCuts
    /\ sessionCuts' = sessionCuts + 1
    /\ Go(c, "refused")
    /\ RowsUnchanged /\ UNCHANGED <<second, logins, doubled, resetTwice>>

Pass ==
    /\ second < MaxSecond
    /\ second' = second + 1
    /\ RowsUnchanged /\ UNCHANGED <<sessionCall, logins, doubled, resetTwice, sessionCuts>>

SessionNext ==
    \/ \E c \in SessionCalls :
         \/ CheckPassword(c) \/ FindToken(c) \/ Revoke(c) \/ Save(c)
         \/ CheckCurrent(c) \/ Change(c) \/ RevokeAll(c)
         \/ Forgot(c) \/ FindReset(c) \/ Reset(c) \/ Logout(c) \/ CutOff(c)
    \/ Pass

Spec == Init /\ [][SessionNext]_sessionVars

(***************************************************************************)
(* Properties.                                                             *)
(***************************************************************************)

\* The password was written and the request has not revoked the sessions yet.
Revoking == \E c \in SessionCalls : At(c, "revokeAll")

\* A session that was open when the password was last changed or reset does
\* not outlive the request, unless that request was cut off before its last
\* statement; sessions whose request was under way and saved later do.
OldSessionsEnd ==
    sessionCuts = 0 => \A s \in LiveTokens : token[s].since = password \/ Revoking

\* Rotation does not multiply sessions: each live token goes back to a login
\* of its own, but for refreshes of a token another one had just revoked.
SessionsFromLogins == Cardinality(LiveTokens) <= logins + doubled

\* Passwords are written by a change or by a reset token, and a token writes
\* one, but for resets that had both found it open.
ResetsAreSpent ==
    LET changes == Cardinality({c \in SessionCalls : At(c, "done") /\ sessionCall[c].res # NoReset})
    IN  changes <= Cardinality({t \in ResetTokens : reset[t] = "used"}) + resetTwice

(***************************************************************************)
(* The inductive invariant behind them.                                    *)
(***************************************************************************)

\* Each refresh that has revoked its token and each live token go back to a
\* login, or to a refresh of a token that was revoked meanwhile.
RotationsFromLogins ==
    Cardinality(LiveTokens) + Cardinality({c \in SessionCalls : At(c, "save")}) <= logins + doubled

\* A reset is under way with a token that was handed out.
ResetsHandedOut ==
    \A c \in SessionCalls :
        /\ sessionCall[c].res # NoReset => sessionCall[c].at \in {"reset", "done", "refused"}
        /\ At(c, "reset") => sessionCall[c].res \in ResetTokens /\ reset[sessionCall[c].res] # "none"

\* A request writes the password once.
PasswordsWritten ==
    password <= Cardinality({c \in SessionCalls : sessionCall[c].at \in {"revokeAll", "done", "refused"}})

SessionsIInv ==
    /\ SessionTypeOK /\ OldSessionsEnd /\ RotationsFromLogins
    /\ ResetsHandedOut /\ ResetsAreSpent /\ PasswordsWritten
=============================================================================
