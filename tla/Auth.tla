-------------------------------- MODULE Auth --------------------------------
(***************************************************************************)
(* AuthService: the account of one email, and the calls that register,     *)
(* verify, log in and out, refresh and reset it.                           *)
(*                                                                         *)
(* Every call reads the row, decides, spends a bcrypt computation and then *)
(* updates by id the columns it means to change: nothing holds the row in  *)
(* between, so other calls may come between its read and its write, and    *)
(* between its write and its mail.  The columns of the row are variables.  *)
(*                                                                         *)
(* A password, a code and a refresh token are named after the call that    *)
(* chose, drew or signed them.  Emails share nothing; one is modelled.     *)
(***************************************************************************)
CONSTANTS
    Registers, Logins, Refreshes, Logouts,
    Verifies, Resends, Forgots, Resets,
    NoCall,             \* NULL in a column; a wrong password or code
    MayFail             \* the calls that may be cut short

Issuers == Logins \cup Refreshes            \* they sign a refresh token

Choosers == Registers \cup Resets           \* they choose a password

Verifying == Registers \cup Resends         \* they draw a verification code

Mailing == Verifying \cup Forgots           \* they draw a code and mail it

Spending == Verifies \cup Resets            \* they present a code

Holding == Refreshes \cup Logouts           \* they present a refresh token

Calls == Issuers \cup Choosers \cup Mailing \cup Spending \cup Logouts

ASSUME AuthAssumption ==
    /\ NoCall \notin Calls
    /\ Registers \cap (Issuers \cup Resends \cup Forgots \cup Spending \cup Logouts) = {}
    /\ Logins \cap (Mailing \cup Spending \cup Holding) = {}
    /\ Refreshes \cap (Mailing \cup Spending \cup Logouts) = {}
    /\ Logouts \cap (Mailing \cup Spending) = {}
    /\ Resends \cap (Forgots \cup Spending) = {}
    /\ Forgots \cap Spending = {}
    /\ Verifies \cap Resets = {}

VARIABLES
    password,           \* passwordHash; NoCall when there is no row
    isEmailVerified,
    refreshToken,       \* refreshTokenHash
    verificationCode,   \* emailVerificationCodeHash
    resetCode,          \* passwordResetCodeHash
    expired,            \* the codes whose time is over
    mailed,             \* the codes that were sent to the email
    pc,                 \* where each call is
    given,              \* the code that each spending call presented
    known,              \* history: the password that each login was let in with
    saved,              \* history: who has saved a session since a logout or a
                        \* reset last ended them all
    inFlight            \* history: who was about to save one at that moment

row == <<password, isEmailVerified, refreshToken, verificationCode, resetCode>>

history == <<known, saved, inFlight>>

vars == <<row, expired, mailed, pc, given, history>>

TypeOK ==
    /\ password \in Choosers \cup {NoCall}
    /\ isEmailVerified \in BOOLEAN
    /\ refreshToken \in Issuers \cup {NoCall}
    /\ verificationCode \in Verifying \cup {NoCall}
    /\ resetCode \in Forgots \cup {NoCall}
    /\ expired \subseteq Mailing
    /\ mailed \subseteq Mailing
    /\ pc \in [Calls -> {"idle", "write", "mail", "done", "told", "failed"}]
    /\ given \in [Spending -> Mailing \cup {NoCall}]
    /\ known \in [Logins -> Choosers \cup {NoCall}]
    /\ saved \subseteq Issuers
    /\ inFlight \subseteq Issuers

Init ==
    /\ password = NoCall
    /\ isEmailVerified = FALSE
    /\ refreshToken = NoCall
    /\ verificationCode = NoCall
    /\ resetCode = NoCall
    /\ expired = {}
    /\ mailed = {}
    /\ pc = [c \in Calls |-> "idle"]
    /\ given = [c \in Spending |-> NoCall]
    /\ known = [c \in Logins |-> NoCall]
    /\ saved = {}
    /\ inFlight = {}

-----------------------------------------------------------------------------
Exists == password # NoCall

At(c, point) == pc[c] = point

Goto(c, point) == pc' = [pc EXCEPT ![c] = point]

(* The answer follows the last write; it may be lost with the process. *)
Finish(c) ==
    \/ Goto(c, "done")
    \/ c \in MayFail /\ Goto(c, "failed")

(* assertCodeMatch *)
CodeMatches(c, code) == given'[c] = code /\ code # NoCall /\ code \notin expired

(* What the client typed: a code that was mailed, or a wrong one. *)
Present(c) == \E code \in mailed \cup {NoCall} : given' = [given EXCEPT ![c] = code]

-----------------------------------------------------------------------------
(* register: the email is looked up, and the row created later with the    *)
(* password and a first code.  The unique index on the email stops the     *)
(* second of two registrations that both found it free.                    *)
RegisterRead(c) ==
    /\ At(c, "idle")
    /\ Goto(c, IF Exists THEN "failed" ELSE "write")
    /\ UNCHANGED <<row, expired, mailed, given, history>>

RegisterUpsert(c) ==            \* variant: create, or update the row there is
    /\ At(c, "write")
    /\ password' = c
    /\ verificationCode' = c
    /\ Goto(c, "mail")
    /\ UNCHANGED <<isEmailVerified, refreshToken, resetCode, expired, mailed, given, history>>

RegisterWrite(c) ==
    /\ At(c, "write")
    /\ IF Exists
       THEN Goto(c, "failed") /\ UNCHANGED <<password, verificationCode>>
       ELSE Goto(c, "mail") /\ password' = c /\ verificationCode' = c
    /\ UNCHANGED <<isEmailVerified, refreshToken, resetCode, expired, mailed, given, history>>

(* resendVerificationCode: an account that is missing or verified is       *)
(* answered as if the code had been sent.                                  *)
ResendRead(c) ==
    /\ At(c, "idle")
    /\ Goto(c, IF Exists /\ ~isEmailVerified THEN "write" ELSE "told")
    /\ UNCHANGED <<row, expired, mailed, given, history>>

ResendUnmailed(c) ==            \* variant: the answer does not wait for a mail
    /\ At(c, "write")
    /\ verificationCode' = c
    /\ Goto(c, "done")
    /\ UNCHANGED <<password, isEmailVerified, refreshToken, resetCode, expired,
                   mailed, given, history>>

ResendWrite(c) ==
    /\ At(c, "write")
    /\ verificationCode' = c
    /\ Goto(c, "mail")
    /\ UNCHANGED <<password, isEmailVerified, refreshToken, resetCode, expired,
                   mailed, given, history>>

(* forgotPassword *)
ForgotRead(c) ==
    /\ At(c, "idle")
    /\ Goto(c, IF Exists THEN "write" ELSE "told")
    /\ UNCHANGED <<row, expired, mailed, given, history>>

ForgotWrongColumn(c) ==         \* variant: the other code's column
    /\ At(c, "write")
    /\ verificationCode' = c
    /\ Goto(c, "mail")
    /\ UNCHANGED <<password, isEmailVerified, refreshToken, resetCode, expired,
                   mailed, given, history>>

ForgotWrite(c) ==
    /\ At(c, "write")
    /\ resetCode' = c
    /\ Goto(c, "mail")
    /\ UNCHANGED <<password, isEmailVerified, refreshToken, verificationCode, expired,
                   mailed, given, history>>

(* sendVerificationCode, sendPasswordResetCode: the code that the call drew *)
(* is mailed whatever the row holds by now.                                *)
SendCode(c) ==
    /\ At(c, "mail")
    /\ mailed' = mailed \cup {c}
    /\ Finish(c)
    /\ UNCHANGED <<row, expired, given, history>>

(* verifyEmail *)
VerifyRead(c) ==
    /\ At(c, "idle")
    /\ Present(c)
    /\ Goto(c, IF ~Exists THEN "failed"
               ELSE IF isEmailVerified THEN "told"
               ELSE IF CodeMatches(c, verificationCode) THEN "write" ELSE "failed")
    /\ UNCHANGED <<row, expired, mailed, history>>

VerifyKeepsCode(c) ==           \* variant: the code stays
    /\ At(c, "write")
    /\ isEmailVerified' = TRUE
    /\ Finish(c)
    /\ UNCHANGED <<password, refreshToken, verificationCode, resetCode, expired,
                   mailed, given, history>>

VerifyWrite(c) ==
    /\ At(c, "write")
    /\ isEmailVerified' = TRUE
    /\ verificationCode' = NoCall
    /\ Finish(c)
    /\ UNCHANGED <<password, refreshToken, resetCode, expired, mailed, given, history>>

-----------------------------------------------------------------------------
(* login: the password is compared with the hash that was read.            *)
LoginUnverified(c) ==           \* variant: the password is all it asks for
    /\ At(c, "idle")
    /\ \/ /\ Exists
          /\ known' = [known EXCEPT ![c] = password]
          /\ Goto(c, "write")
       \/ Goto(c, "failed") /\ UNCHANGED known
    /\ UNCHANGED <<row, expired, mailed, given, saved, inFlight>>

LoginRead(c) ==
    /\ At(c, "idle")
    /\ \/ /\ Exists /\ isEmailVerified
          /\ known' = [known EXCEPT ![c] = password]
          /\ Goto(c, "write")
       \/ Goto(c, "failed") /\ UNCHANGED known
    /\ UNCHANGED <<row, expired, mailed, given, saved, inFlight>>

(* assertRefreshTokenOwner: a token that was issued for the account and    *)
(* has not expired is compared with the stored hash.  bcrypt compares the  *)
(* first 72 bytes, which hold the header and the beginning of the user's   *)
(* id: they are the same in every refresh token of the account.  A client  *)
(* thus needs a token of any session that was ever answered, be it logged  *)
(* out or of an old password, and it matches whenever the row holds one.   *)
HoldsToken == \E s \in Issuers : At(s, "done")

TokenMatches == refreshToken # NoCall

(* refresh *)
RefreshRead(c) ==
    /\ At(c, "idle")
    /\ HoldsToken
    /\ \/ TokenMatches /\ Goto(c, "write")
       \/ Goto(c, "failed")
    /\ UNCHANGED <<row, expired, mailed, given, history>>

(* issueSession, of a login and of a refresh. *)
SaveSession(c) ==
    /\ At(c, "write")
    /\ refreshToken' = c
    /\ saved' = saved \cup {c}
    /\ Finish(c)
    /\ UNCHANGED <<password, isEmailVerified, verificationCode, resetCode, expired,
                   mailed, given, known, inFlight>>

(* logout *)
LogoutRead(c) ==
    /\ At(c, "idle")
    /\ HoldsToken
    /\ \/ TokenMatches /\ Goto(c, "write")
       \/ Goto(c, "failed")
    /\ UNCHANGED <<row, expired, mailed, given, history>>

(* A logout and a reset end every session: what is in the row from then on *)
(* was saved later.                                                        *)
SessionsEnd ==
    /\ saved' = {}
    /\ inFlight' = {s \in Issuers : At(s, "write")}

LogoutLeavesRefreshed(c) ==     \* variant: a session refreshed meanwhile stays
    /\ At(c, "write")
    /\ refreshToken' = IF refreshToken \in Refreshes THEN refreshToken ELSE NoCall
    /\ SessionsEnd
    /\ Finish(c)
    /\ UNCHANGED <<password, isEmailVerified, verificationCode, resetCode, expired,
                   mailed, given, known>>

LogoutWrite(c) ==
    /\ At(c, "write")
    /\ refreshToken' = NoCall
    /\ SessionsEnd
    /\ Finish(c)
    /\ UNCHANGED <<password, isEmailVerified, verificationCode, resetCode, expired,
                   mailed, given, known>>

(* resetPassword: the code is checked, the password hashed, and then the   *)
(* password written, the session ended and the code cleared together.      *)
ResetRead(c) ==
    /\ At(c, "idle")
    /\ Present(c)
    /\ Goto(c, IF Exists /\ CodeMatches(c, resetCode) THEN "write" ELSE "failed")
    /\ UNCHANGED <<row, expired, mailed, history>>

ResetKeepsSession(c) ==         \* variant: whoever is logged in stays
    /\ At(c, "write")
    /\ password' = c
    /\ resetCode' = NoCall
    /\ SessionsEnd
    /\ Finish(c)
    /\ UNCHANGED <<isEmailVerified, refreshToken, verificationCode, expired, mailed,
                   given, known>>

ResetWrite(c) ==
    /\ At(c, "write")
    /\ password' = c
    /\ refreshToken' = NoCall
    /\ resetCode' = NoCall
    /\ SessionsEnd
    /\ Finish(c)
    /\ UNCHANGED <<isEmailVerified, verificationCode, expired, mailed, given, known>>

-----------------------------------------------------------------------------
(* The time of a stored code runs out. *)
Expire ==
    /\ \E code \in {verificationCode, resetCode} \ {NoCall} : expired' = expired \cup {code}
    /\ UNCHANGED <<row, mailed, pc, given, history>>

(* A lost connection, a mail server that refuses, the end of the process.  *)
Fail(c) ==
    /\ c \in MayFail
    /\ pc[c] \in {"write", "mail"}
    /\ Goto(c, "failed")
    /\ UNCHANGED <<row, expired, mailed, given, history>>

Next ==
    \/ \E c \in Registers : RegisterRead(c) \/ RegisterWrite(c)
    \/ \E c \in Resends : ResendRead(c) \/ ResendWrite(c)
    \/ \E c \in Forgots : ForgotRead(c) \/ ForgotWrite(c)
    \/ \E c \in Mailing : SendCode(c)
    \/ \E c \in Verifies : VerifyRead(c) \/ VerifyWrite(c)
    \/ \E c \in Logins : LoginRead(c)
    \/ \E c \in Refreshes : RefreshRead(c)
    \/ \E c \in Issuers : SaveSession(c)
    \/ \E c \in Logouts : LogoutRead(c) \/ LogoutWrite(c)
    \/ \E c \in Resets : ResetRead(c) \/ ResetWrite(c)
    \/ \E c \in Calls : Fail(c)
    \/ Expire

Spec == Init /\ [][Next]_vars

-----------------------------------------------------------------------------
(* Properties *)

(* There is a session only for a verified email, whatever was read before  *)
(* the session was written.                                                *)
SessionNeedsVerified == refreshToken # NoCall => isEmailVerified

(* A registration that was not refused owns the account: its password is   *)
(* the one stored, or was replaced by resets, each by a call that spent a  *)
(* code mailed to the email.  A second registration never takes it over.   *)
PasswordIsOwners ==
    /\ \A c \in Registers : pc[c] \in {"mail", "done"} => password \in Resets \cup {c}
    /\ password \in Resets => given[password] \in mailed \cap Forgots

(* An account that waits for its verification always has a code stored,    *)
(* and a stored code has reached the email, or its mail is on its way,     *)
(* or its call has told the client that it failed.                         *)
CodeIsMailed ==
    /\ Exists /\ ~isEmailVerified => verificationCode # NoCall
    /\ \A code \in {verificationCode, resetCode} \ {NoCall} :
           code \in mailed \/ pc[code] \in {"mail", "failed"}

(* A code that an answered verification or reset has spent is never stored *)
(* again, although calls that read the row earlier write it later.  (Two   *)
(* calls that both read the code before either writes do both spend it.)   *)
SpentCodeIsGone ==
    \A c \in Spending :
        At(c, "done") => given[c] \notin {verificationCode, resetCode}

(* A logout and a reset end every session for good: there is one again     *)
(* only after somebody has logged in with the password that is the present *)
(* one, or a login or refresh that was past its check at that moment has   *)
(* saved what it was signing.  Until then, no token of an earlier session  *)
(* is good for a refresh.                                                  *)
SessionNeedsLogin ==
    refreshToken # NoCall =>
        \E c \in saved : c \in inFlight \/ (c \in Logins /\ known[c] = password)
=============================================================================
