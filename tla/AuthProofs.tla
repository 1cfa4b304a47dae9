----------------------------- MODULE AuthProofs -----------------------------
(***************************************************************************)
(* Theorems about Auth for every set of calls.                             *)
(***************************************************************************)
EXTENDS Auth, TLAPS

Over == {"done", "failed"}

(* What a call that is past its read knows: the row exists, the email of a *)
(* session is verified, the code it presented was mailed, and, unless it   *)
(* was so far already when the sessions last ended, a login was let in by  *)
(* the present password and a refresh by a session that is still there.    *)
CallsInv ==
    /\ \A c \in Issuers : At(c, "write") =>
          isEmailVerified
    /\ \A c \in Logins : At(c, "write") => known[c] = password \/ c \in inFlight
    /\ \A c \in Refreshes : At(c, "write") => refreshToken # NoCall \/ c \in inFlight
    /\ \A c \in saved : pc[c] \in Over
    /\ \A c \in Verifies : pc[c] \in {"write", "done"} =>
          Exists /\ given[c] \in mailed \cap Verifying
    /\ \A c \in Resets : pc[c] \in {"write", "done"} =>
          Exists /\ given[c] \in mailed \cap Forgots
    /\ \A c \in Mailing :
          /\ At(c, "done") => c \in mailed
          /\ c \in mailed => pc[c] \in Over

(* The calls that the columns are named after have written them.           *)
RowInv ==
    /\ isEmailVerified => Exists
    /\ refreshToken # NoCall => pc[refreshToken] \in Over
    /\ password \in Resets =>
          pc[password] \in Over /\ given[password] \in mailed \cap Forgots
    /\ verificationCode # NoCall => pc[verificationCode] \in Over \cup {"mail"}
    /\ resetCode # NoCall => pc[resetCode] \in Over \cup {"mail"}

Properties ==
    /\ SessionNeedsVerified
    /\ PasswordIsOwners
    /\ CodeIsMailed
    /\ SpentCodeIsGone
    /\ SessionNeedsLogin

AuthInv == TypeOK /\ CallsInv /\ RowInv /\ Properties

(* No call is of two kinds, and NoCall is of none.                         *)
LEMMA Kinds ==
    /\ NoCall \notin Calls
    /\ Calls = Issuers \cup Choosers \cup Mailing \cup Spending \cup Logouts
    /\ Issuers = Logins \cup Refreshes
    /\ Logins \cap Refreshes = {}
    /\ Choosers = Registers \cup Resets
    /\ Verifying = Registers \cup Resends
    /\ Mailing = Registers \cup Resends \cup Forgots
    /\ Spending = Verifies \cup Resets
    /\ Issuers \cap (Choosers \cup Mailing \cup Spending \cup Logouts) = {}
    /\ Logouts \cap (Choosers \cup Mailing \cup Spending) = {}
    /\ Mailing \cap Spending = {}
    /\ Verifying \cap Forgots = {}
    /\ Registers \cap Resends = {}
    /\ Verifies \cap Resets = {}
  BY AuthAssumption
  DEF Calls, Issuers, Choosers, Mailing, Spending, Verifying, Holding

LEMMA AuthInvInit == Init => AuthInv
  <1> SUFFICES ASSUME Init
               PROVE  AuthInv
    OBVIOUS
  <1> USE Kinds DEF Init
  <1>1. TypeOK
    BY DEF TypeOK
  <1>2. CallsInv
    BY DEF CallsInv, At
  <1>3. RowInv
    BY DEF RowInv
  <1>4. Properties
    BY DEF Properties, SessionNeedsVerified, PasswordIsOwners, CodeIsMailed, Exists, At,
           SpentCodeIsGone, SessionNeedsLogin
  <1>5. QED
    BY <1>1, <1>2, <1>3, <1>4 DEF AuthInv

LEMMA AuthInvStep == AuthInv /\ [Next]_vars => AuthInv'
  <1> SUFFICES ASSUME AuthInv, [Next]_vars
               PROVE  AuthInv'
    OBVIOUS
  <1> USE Kinds DEF At, Over, Exists
  <1> DEFINE Points == {"idle", "write", "mail", "done", "told", "failed"}
  <1>t. /\ password \in Choosers \cup {NoCall}
        /\ isEmailVerified \in BOOLEAN
        /\ refreshToken \in Issuers \cup {NoCall}
        /\ verificationCode \in Verifying \cup {NoCall}
        /\ resetCode \in Forgots \cup {NoCall}
        /\ expired \subseteq Mailing
        /\ mailed \subseteq Mailing
        /\ pc \in [Calls -> Points]
        /\ given \in [Spending -> Mailing \cup {NoCall}]
        /\ known \in [Logins -> Choosers \cup {NoCall}]
        /\ saved \subseteq Issuers
        /\ inFlight \subseteq Issuers
    BY DEF AuthInv, TypeOK
  <1>c. CallsInv
    BY DEF AuthInv
  <1>r. RowInv
    BY DEF AuthInv
  <1>p. /\ SessionNeedsVerified /\ PasswordIsOwners /\ CodeIsMailed
        /\ SpentCodeIsGone /\ SessionNeedsLogin
    BY DEF AuthInv, Properties
  <1>1. ASSUME NEW c \in Registers, RegisterRead(c)
        PROVE  AuthInv'
    <2> USE <1>1 DEF RegisterRead, Goto, row, history
    <2>1. TypeOK'
      BY <1>t DEF TypeOK
    <2>2. CallsInv'
      BY <1>t, <1>c, <1>r, <1>p DEF CallsInv, RowInv, SessionNeedsVerified
    <2>3. RowInv'
      BY <1>t, <1>c, <1>r DEF RowInv, CallsInv
    <2>4. SessionNeedsVerified'
      BY <1>t, <1>c, <1>r, <1>p DEF SessionNeedsVerified, CallsInv, RowInv
    <2>5. PasswordIsOwners'
      BY <1>t, <1>c, <1>r, <1>p DEF PasswordIsOwners, CallsInv, RowInv
    <2>6. CodeIsMailed'
      BY <1>t, <1>c, <1>r, <1>p DEF CodeIsMailed, CallsInv, RowInv
    <2>7. SpentCodeIsGone'
      BY <1>t, <1>c, <1>r, <1>p DEF SpentCodeIsGone, CallsInv, RowInv
    <2>8. SessionNeedsLogin'
      BY <1>t, <1>c, <1>r, <1>p
      DEF SessionNeedsLogin, SessionNeedsVerified, CallsInv, RowInv
    <2>9. QED
      BY <2>1, <2>2, <2>3, <2>4, <2>5, <2>6, <2>7, <2>8 DEF AuthInv, Properties
  <1>2. ASSUME NEW c \in Registers, RegisterWrite(c)
        PROVE  AuthInv'
    <2> USE <1>2 DEF RegisterWrite, Goto, history
    <2>1. TypeOK'
      BY <1>t DEF TypeOK
    <2>2. CallsInv'
      BY <1>t, <1>c, <1>r, <1>p DEF CallsInv, RowInv, SessionNeedsVerified
    <2>3. RowInv'
      BY <1>t, <1>c, <1>r DEF RowInv, CallsInv
    <2>4. SessionNeedsVerified'
      BY <1>t, <1>c, <1>r, <1>p DEF SessionNeedsVerified, CallsInv, RowInv
    <2>5. PasswordIsOwners'
      BY <1>t, <1>c, <1>r, <1>p DEF PasswordIsOwners, CallsInv, RowInv
    <2>6. CodeIsMailed'
      BY <1>t, <1>c, <1>r, <1>p DEF CodeIsMailed, CallsInv, RowInv
    <2>7. SpentCodeIsGone'
      BY <1>t, <1>c, <1>r, <1>p DEF SpentCodeIsGone, CallsInv, RowInv
    <2>8. SessionNeedsLogin'
      BY <1>t, <1>c, <1>r, <1>p
      DEF SessionNeedsLogin, SessionNeedsVerified, CallsInv, RowInv
    <2>9. QED
      BY <2>1, <2>2, <2>3, <2>4, <2>5, <2>6, <2>7, <2>8 DEF AuthInv, Properties
  <1>3. ASSUME NEW c \in Resends, ResendRead(c)
        PROVE  AuthInv'
    <2> USE <1>3 DEF ResendRead, Goto, row, history
    <2>1. TypeOK'
      BY <1>t DEF TypeOK
    <2>2. CallsInv'
      BY <1>t, <1>c, <1>r, <1>p DEF CallsInv, RowInv, SessionNeedsVerified
    <2>3. RowInv'
      BY <1>t, <1>c, <1>r DEF RowInv, CallsInv
    <2>4. SessionNeedsVerified'
      BY <1>t, <1>c, <1>r, <1>p DEF SessionNeedsVerified, CallsInv, RowInv
    <2>5. PasswordIsOwners'
      BY <1>t, <1>c, <1>r, <1>p DEF PasswordIsOwners, CallsInv, RowInv
    <2>6. CodeIsMailed'
      BY <1>t, <1>c, <1>r, <1>p DEF CodeIsMailed, CallsInv, RowInv
    <2>7. SpentCodeIsGone'
      BY <1>t, <1>c, <1>r, <1>p DEF SpentCodeIsGone, CallsInv, RowInv
    <2>8. SessionNeedsLogin'
      BY <1>t, <1>c, <1>r, <1>p
      DEF SessionNeedsLogin, SessionNeedsVerified, CallsInv, RowInv
    <2>9. QED
      BY <2>1, <2>2, <2>3, <2>4, <2>5, <2>6, <2>7, <2>8 DEF AuthInv, Properties
  <1>4. ASSUME NEW c \in Resends, ResendWrite(c)
        PROVE  AuthInv'
    <2> USE <1>4 DEF ResendWrite, Goto, history
    <2>1. TypeOK'
      BY <1>t DEF TypeOK
    <2>2. CallsInv'
      BY <1>t, <1>c, <1>r, <1>p DEF CallsInv, RowInv, SessionNeedsVerified
    <2>3. RowInv'
      BY <1>t, <1>c, <1>r DEF RowInv, CallsInv
    <2>4. SessionNeedsVerified'
      BY <1>t, <1>c, <1>r, <1>p DEF SessionNeedsVerified, CallsInv, RowInv
    <2>5. PasswordIsOwners'
      BY <1>t, <1>c, <1>r, <1>p DEF PasswordIsOwners, CallsInv, RowInv
    <2>6. CodeIsMailed'
      BY <1>t, <1>c, <1>r, <1>p DEF CodeIsMailed, CallsInv, RowInv
    <2>7. SpentCodeIsGone'
      BY <1>t, <1>c, <1>r, <1>p DEF SpentCodeIsGone, CallsInv, RowInv
    <2>8. SessionNeedsLogin'
      BY <1>t, <1>c, <1>r, <1>p
      DEF SessionNeedsLogin, SessionNeedsVerified, CallsInv, RowInv
    <2>9. QED
      BY <2>1, <2>2, <2>3, <2>4, <2>5, <2>6, <2>7, <2>8 DEF AuthInv, Properties
  <1>5. ASSUME NEW c \in Forgots, ForgotRead(c)
        PROVE  AuthInv'
    <2> USE <1>5 DEF ForgotRead, Goto, row, history
    <2>1. TypeOK'
      BY <1>t DEF TypeOK
    <2>2. CallsInv'
      BY <1>t, <1>c, <1>r, <1>p DEF CallsInv, RowInv, SessionNeedsVerified
    <2>3. RowInv'
      BY <1>t, <1>c, <1>r DEF RowInv, CallsInv
    <2>4. SessionNeedsVerified'
      BY <1>t, <1>c, <1>r, <1>p DEF SessionNeedsVerified, CallsInv, RowInv
    <2>5. PasswordIsOwners'
      BY <1>t, <1>c, <1>r, <1>p DEF PasswordIsOwners, CallsInv, RowInv
    <2>6. CodeIsMailed'
      BY <1>t, <1>c, <1>r, <1>p DEF CodeIsMailed, CallsInv, RowInv
    <2>7. SpentCodeIsGone'
      BY <1>t, <1>c, <1>r, <1>p DEF SpentCodeIsGone, CallsInv, RowInv
    <2>8. SessionNeedsLogin'
      BY <1>t, <1>c, <1>r, <1>p
      DEF SessionNeedsLogin, SessionNeedsVerified, CallsInv, RowInv
    <2>9. QED
      BY <2>1, <2>2, <2>3, <2>4, <2>5, <2>6, <2>7, <2>8 DEF AuthInv, Properties
  <1>6. ASSUME NEW c \in Forgots, ForgotWrite(c)
        PROVE  AuthInv'
    <2> USE <1>6 DEF ForgotWrite, Goto, history
    <2>1. TypeOK'
      BY <1>t DEF TypeOK
    <2>2. CallsInv'
      BY <1>t, <1>c, <1>r, <1>p DEF CallsInv, RowInv, SessionNeedsVerified
    <2>3. RowInv'
      BY <1>t, <1>c, <1>r DEF RowInv, CallsInv
    <2>4. SessionNeedsVerified'
      BY <1>t, <1>c, <1>r, <1>p DEF SessionNeedsVerified, CallsInv, RowInv
    <2>5. PasswordIsOwners'
      BY <1>t, <1>c, <1>r, <1>p DEF PasswordIsOwners, CallsInv, RowInv
    <2>6. CodeIsMailed'
      BY <1>t, <1>c, <1>r, <1>p DEF CodeIsMailed, CallsInv, RowInv
    <2>7. SpentCodeIsGone'
      BY <1>t, <1>c, <1>r, <1>p DEF SpentCodeIsGone, CallsInv, RowInv
    <2>8. SessionNeedsLogin'
      BY <1>t, <1>c, <1>r, <1>p
      DEF SessionNeedsLogin, SessionNeedsVerified, CallsInv, RowInv
    <2>9. QED
      BY <2>1, <2>2, <2>3, <2>4, <2>5, <2>6, <2>7, <2>8 DEF AuthInv, Properties
  <1>7. ASSUME NEW c \in Mailing, SendCode(c)
        PROVE  AuthInv'
    <2> USE <1>7 DEF SendCode, Goto, Finish, row, history
    <2>1. TypeOK'
      BY <1>t DEF TypeOK
    <2>2. CallsInv'
      BY <1>t, <1>c, <1>r, <1>p DEF CallsInv, RowInv, SessionNeedsVerified
    <2>3. RowInv'
      BY <1>t, <1>c, <1>r DEF RowInv, CallsInv
    <2>4. SessionNeedsVerified'
      BY <1>t, <1>c, <1>r, <1>p DEF SessionNeedsVerified, CallsInv, RowInv
    <2>5. PasswordIsOwners'
      BY <1>t, <1>c, <1>r, <1>p DEF PasswordIsOwners, CallsInv, RowInv
    <2>6. CodeIsMailed'
      BY <1>t, <1>c, <1>r, <1>p DEF CodeIsMailed, CallsInv, RowInv
    <2>7. SpentCodeIsGone'
      BY <1>t, <1>c, <1>r, <1>p DEF SpentCodeIsGone, CallsInv, RowInv
    <2>8. SessionNeedsLogin'
      BY <1>t, <1>c, <1>r, <1>p
      DEF SessionNeedsLogin, SessionNeedsVerified, CallsInv, RowInv
    <2>9. QED
      BY <2>1, <2>2, <2>3, <2>4, <2>5, <2>6, <2>7, <2>8 DEF AuthInv, Properties
  <1>8. ASSUME NEW c \in Verifies, VerifyRead(c)
        PROVE  AuthInv'
    <2> USE <1>8 DEF VerifyRead, Goto, CodeMatches, Present, row, history
    <2>1. TypeOK'
      BY <1>t DEF TypeOK
    <2>2. CallsInv'
      BY <1>t, <1>c, <1>r, <1>p DEF CallsInv, RowInv, SessionNeedsVerified
    <2>3. RowInv'
      BY <1>t, <1>c, <1>r DEF RowInv, CallsInv
    <2>4. SessionNeedsVerified'
      BY <1>t, <1>c, <1>r, <1>p DEF SessionNeedsVerified, CallsInv, RowInv
    <2>5. PasswordIsOwners'
      BY <1>t, <1>c, <1>r, <1>p DEF PasswordIsOwners, CallsInv, RowInv
    <2>6. CodeIsMailed'
      BY <1>t, <1>c, <1>r, <1>p DEF CodeIsMailed, CallsInv, RowInv
    <2>7. SpentCodeIsGone'
      BY <1>t, <1>c, <1>r, <1>p DEF SpentCodeIsGone, CallsInv, RowInv
    <2>8. SessionNeedsLogin'
      BY <1>t, <1>c, <1>r, <1>p
      DEF SessionNeedsLogin, SessionNeedsVerified, CallsInv, RowInv
    <2>9. QED
      BY <2>1, <2>2, <2>3, <2>4, <2>5, <2>6, <2>7, <2>8 DEF AuthInv, Properties
  <1>9. ASSUME NEW c \in Verifies, VerifyWrite(c)
        PROVE  AuthInv'
    <2> USE <1>9 DEF VerifyWrite, Goto, Finish, history
    <2>1. TypeOK'
      BY <1>t DEF TypeOK
    <2>2. CallsInv'
      BY <1>t, <1>c, <1>r, <1>p DEF CallsInv, RowInv, SessionNeedsVerified
    <2>3. RowInv'
      BY <1>t, <1>c, <1>r DEF RowInv, CallsInv
    <2>4. SessionNeedsVerified'
      BY <1>t, <1>c, <1>r, <1>p DEF SessionNeedsVerified, CallsInv, RowInv
    <2>5. PasswordIsOwners'
      BY <1>t, <1>c, <1>r, <1>p DEF PasswordIsOwners, CallsInv, RowInv
    <2>6. CodeIsMailed'
      BY <1>t, <1>c, <1>r, <1>p DEF CodeIsMailed, CallsInv, RowInv
    <2>7. SpentCodeIsGone'
      BY <1>t, <1>c, <1>r, <1>p DEF SpentCodeIsGone, CallsInv, RowInv
    <2>8. SessionNeedsLogin'
      BY <1>t, <1>c, <1>r, <1>p
      DEF SessionNeedsLogin, SessionNeedsVerified, CallsInv, RowInv
    <2>9. QED
      BY <2>1, <2>2, <2>3, <2>4, <2>5, <2>6, <2>7, <2>8 DEF AuthInv, Properties
  <1>10. ASSUME NEW c \in Logins, LoginRead(c)
        PROVE  AuthInv'
    <2> USE <1>10 DEF LoginRead, Goto, row
    <2>1. TypeOK'
      BY <1>t DEF TypeOK
    <2>2. CallsInv'
      BY <1>t, <1>c, <1>r, <1>p DEF CallsInv, RowInv, SessionNeedsVerified
    <2>3. RowInv'
      BY <1>t, <1>c, <1>r DEF RowInv, CallsInv
    <2>4. SessionNeedsVerified'
      BY <1>t, <1>c, <1>r, <1>p DEF SessionNeedsVerified, CallsInv, RowInv
    <2>5. PasswordIsOwners'
      BY <1>t, <1>c, <1>r, <1>p DEF PasswordIsOwners, CallsInv, RowInv
    <2>6. CodeIsMailed'
      BY <1>t, <1>c, <1>r, <1>p DEF CodeIsMailed, CallsInv, RowInv
    <2>7. SpentCodeIsGone'
      BY <1>t, <1>c, <1>r, <1>p DEF SpentCodeIsGone, CallsInv, RowInv
    <2>8. SessionNeedsLogin'
      BY <1>t, <1>c, <1>r, <1>p
      DEF SessionNeedsLogin, SessionNeedsVerified, CallsInv, RowInv
    <2>9. QED
      BY <2>1, <2>2, <2>3, <2>4, <2>5, <2>6, <2>7, <2>8 DEF AuthInv, Properties
  <1>11. ASSUME NEW c \in Refreshes, RefreshRead(c)
        PROVE  AuthInv'
    <2> USE <1>11 DEF RefreshRead, Goto, TokenMatches, row, history
    <2>1. TypeOK'
      BY <1>t DEF TypeOK
    <2>2. CallsInv'
      BY <1>t, <1>c, <1>r, <1>p DEF CallsInv, RowInv, SessionNeedsVerified
    <2>3. RowInv'
      BY <1>t, <1>c, <1>r DEF RowInv, CallsInv
    <2>4. SessionNeedsVerified'
      BY <1>t, <1>c, <1>r, <1>p DEF SessionNeedsVerified, CallsInv, RowInv
    <2>5. PasswordIsOwners'
      BY <1>t, <1>c, <1>r, <1>p DEF PasswordIsOwners, CallsInv, RowInv
    <2>6. CodeIsMailed'
      BY <1>t, <1>c, <1>r, <1>p DEF CodeIsMailed, CallsInv, RowInv
    <2>7. SpentCodeIsGone'
      BY <1>t, <1>c, <1>r, <1>p DEF SpentCodeIsGone, CallsInv, RowInv
    <2>8. SessionNeedsLogin'
      BY <1>t, <1>c, <1>r, <1>p
      DEF SessionNeedsLogin, SessionNeedsVerified, CallsInv, RowInv
    <2>9. QED
      BY <2>1, <2>2, <2>3, <2>4, <2>5, <2>6, <2>7, <2>8 DEF AuthInv, Properties
  <1>12. ASSUME NEW c \in Issuers, SaveSession(c)
        PROVE  AuthInv'
    <2> USE <1>12 DEF SaveSession, Goto, Finish, history
    <2>1. TypeOK'
      BY <1>t DEF TypeOK
    <2>2. CallsInv'
      BY <1>t, <1>c, <1>r, <1>p DEF CallsInv, RowInv, SessionNeedsVerified
    <2>3. RowInv'
      BY <1>t, <1>c, <1>r DEF RowInv, CallsInv
    <2>4. SessionNeedsVerified'
      BY <1>t, <1>c, <1>r, <1>p DEF SessionNeedsVerified, CallsInv, RowInv
    <2>5. PasswordIsOwners'
      BY <1>t, <1>c, <1>r, <1>p DEF PasswordIsOwners, CallsInv, RowInv
    <2>6. CodeIsMailed'
      BY <1>t, <1>c, <1>r, <1>p DEF CodeIsMailed, CallsInv, RowInv
    <2>7. SpentCodeIsGone'
      BY <1>t, <1>c, <1>r, <1>p DEF SpentCodeIsGone, CallsInv, RowInv
    <2>8. SessionNeedsLogin'
      BY <1>t, <1>c, <1>r, <1>p
      DEF SessionNeedsLogin, SessionNeedsVerified, CallsInv, RowInv
    <2>9. QED
      BY <2>1, <2>2, <2>3, <2>4, <2>5, <2>6, <2>7, <2>8 DEF AuthInv, Properties
  <1>13. ASSUME NEW c \in Logouts, LogoutRead(c)
        PROVE  AuthInv'
    <2> USE <1>13 DEF LogoutRead, Goto, TokenMatches, row, history
    <2>1. TypeOK'
      BY <1>t DEF TypeOK
    <2>2. CallsInv'
      BY <1>t, <1>c, <1>r, <1>p DEF CallsInv, RowInv, SessionNeedsVerified
    <2>3. RowInv'
      BY <1>t, <1>c, <1>r DEF RowInv, CallsInv
    <2>4. SessionNeedsVerified'
      BY <1>t, <1>c, <1>r, <1>p DEF SessionNeedsVerified, CallsInv, RowInv
    <2>5. PasswordIsOwners'
      BY <1>t, <1>c, <1>r, <1>p DEF PasswordIsOwners, CallsInv, RowInv
    <2>6. CodeIsMailed'
      BY <1>t, <1>c, <1>r, <1>p DEF CodeIsMailed, CallsInv, RowInv
    <2>7. SpentCodeIsGone'
      BY <1>t, <1>c, <1>r, <1>p DEF SpentCodeIsGone, CallsInv, RowInv
    <2>8. SessionNeedsLogin'
      BY <1>t, <1>c, <1>r, <1>p
      DEF SessionNeedsLogin, SessionNeedsVerified, CallsInv, RowInv
    <2>9. QED
      BY <2>1, <2>2, <2>3, <2>4, <2>5, <2>6, <2>7, <2>8 DEF AuthInv, Properties
  <1>14. ASSUME NEW c \in Logouts, LogoutWrite(c)
        PROVE  AuthInv'
    <2> USE <1>14 DEF LogoutWrite, Goto, Finish, SessionsEnd
    <2>1. TypeOK'
      BY <1>t DEF TypeOK
    <2>2. CallsInv'
      BY <1>t, <1>c, <1>r, <1>p DEF CallsInv, RowInv, SessionNeedsVerified
    <2>3. RowInv'
      BY <1>t, <1>c, <1>r DEF RowInv, CallsInv
    <2>4. SessionNeedsVerified'
      BY <1>t, <1>c, <1>r, <1>p DEF SessionNeedsVerified, CallsInv, RowInv
    <2>5. PasswordIsOwners'
      BY <1>t, <1>c, <1>r, <1>p DEF PasswordIsOwners, CallsInv, RowInv
    <2>6. CodeIsMailed'
      BY <1>t, <1>c, <1>r, <1>p DEF CodeIsMailed, CallsInv, RowInv
    <2>7. SpentCodeIsGone'
      BY <1>t, <1>c, <1>r, <1>p DEF SpentCodeIsGone, CallsInv, RowInv
    <2>8. SessionNeedsLogin'
      BY <1>t, <1>c, <1>r, <1>p
      DEF SessionNeedsLogin, SessionNeedsVerified, CallsInv, RowInv
    <2>9. QED
      BY <2>1, <2>2, <2>3, <2>4, <2>5, <2>6, <2>7, <2>8 DEF AuthInv, Properties
  <1>15. ASSUME NEW c \in Resets, ResetRead(c)
        PROVE  AuthInv'
    <2> USE <1>15 DEF ResetRead, Goto, CodeMatches, Present, row, history
    <2>1. TypeOK'
      BY <1>t DEF TypeOK
    <2>2. CallsInv'
      BY <1>t, <1>c, <1>r, <1>p DEF CallsInv, RowInv, SessionNeedsVerified
    <2>3. RowInv'
      BY <1>t, <1>c, <1>r DEF RowInv, CallsInv
    <2>4. SessionNeedsVerified'
      BY <1>t, <1>c, <1>r, <1>p DEF SessionNeedsVerified, CallsInv, RowInv
    <2>5. PasswordIsOwners'
      BY <1>t, <1>c, <1>r, <1>p DEF PasswordIsOwners, CallsInv, RowInv
    <2>6. CodeIsMailed'
      BY <1>t, <1>c, <1>r, <1>p DEF CodeIsMailed, CallsInv, RowInv
    <2>7. SpentCodeIsGone'
      BY <1>t, <1>c, <1>r, <1>p DEF SpentCodeIsGone, CallsInv, RowInv
    <2>8. SessionNeedsLogin'
      BY <1>t, <1>c, <1>r, <1>p
      DEF SessionNeedsLogin, SessionNeedsVerified, CallsInv, RowInv
    <2>9. QED
      BY <2>1, <2>2, <2>3, <2>4, <2>5, <2>6, <2>7, <2>8 DEF AuthInv, Properties
  <1>16. ASSUME NEW c \in Resets, ResetWrite(c)
        PROVE  AuthInv'
    <2> USE <1>16 DEF ResetWrite, Goto, Finish, SessionsEnd
    <2>1. TypeOK'
      BY <1>t DEF TypeOK
    <2>2. CallsInv'
      BY <1>t, <1>c, <1>r, <1>p DEF CallsInv, RowInv, SessionNeedsVerified
    <2>3. RowInv'
      BY <1>t, <1>c, <1>r DEF RowInv, CallsInv
    <2>4. SessionNeedsVerified'
      BY <1>t, <1>c, <1>r, <1>p DEF SessionNeedsVerified, CallsInv, RowInv
    <2>5. PasswordIsOwners'
      BY <1>t, <1>c, <1>r, <1>p DEF PasswordIsOwners, CallsInv, RowInv
    <2>6. CodeIsMailed'
      BY <1>t, <1>c, <1>r, <1>p DEF CodeIsMailed, CallsInv, RowInv
    <2>7. SpentCodeIsGone'
      BY <1>t, <1>c, <1>r, <1>p DEF SpentCodeIsGone, CallsInv, RowInv
    <2>8. SessionNeedsLogin'
      BY <1>t, <1>c, <1>r, <1>p
      DEF SessionNeedsLogin, SessionNeedsVerified, CallsInv, RowInv
    <2>9. QED
      BY <2>1, <2>2, <2>3, <2>4, <2>5, <2>6, <2>7, <2>8 DEF AuthInv, Properties
  <1>17. ASSUME NEW c \in Calls, Fail(c)
        PROVE  AuthInv'
    <2> USE <1>17 DEF Fail, Goto, row, history
    <2>1. TypeOK'
      BY <1>t DEF TypeOK
    <2>2. CallsInv'
      BY <1>t, <1>c, <1>r, <1>p DEF CallsInv, RowInv, SessionNeedsVerified
    <2>3. RowInv'
      BY <1>t, <1>c, <1>r DEF RowInv, CallsInv
    <2>4. SessionNeedsVerified'
      BY <1>t, <1>c, <1>r, <1>p DEF SessionNeedsVerified, CallsInv, RowInv
    <2>5. PasswordIsOwners'
      BY <1>t, <1>c, <1>r, <1>p DEF PasswordIsOwners, CallsInv, RowInv
    <2>6. CodeIsMailed'
      BY <1>t, <1>c, <1>r, <1>p DEF CodeIsMailed, CallsInv, RowInv
    <2>7. SpentCodeIsGone'
      BY <1>t, <1>c, <1>r, <1>p DEF SpentCodeIsGone, CallsInv, RowInv
    <2>8. SessionNeedsLogin'
      BY <1>t, <1>c, <1>r, <1>p
      DEF SessionNeedsLogin, SessionNeedsVerified, CallsInv, RowInv
    <2>9. QED
      BY <2>1, <2>2, <2>3, <2>4, <2>5, <2>6, <2>7, <2>8 DEF AuthInv, Properties
  <1>18. ASSUME Expire
        PROVE  AuthInv'
    <2> USE <1>18 DEF Expire, row, history
    <2>1. TypeOK'
      BY <1>t DEF TypeOK
    <2>2. CallsInv' /\ RowInv'
      BY <1>c, <1>r DEF CallsInv, RowInv
    <2>3. Properties'
      BY <1>p DEF Properties, SessionNeedsVerified, PasswordIsOwners, CodeIsMailed,
                  SpentCodeIsGone, SessionNeedsLogin
    <2>4. QED
      BY <2>1, <2>2, <2>3 DEF AuthInv
  <1>19. CASE UNCHANGED vars
    <2> USE <1>19 DEF vars, row, history
    <2>1. TypeOK'
      BY <1>t DEF TypeOK
    <2>2. CallsInv' /\ RowInv'
      BY <1>c, <1>r DEF CallsInv, RowInv
    <2>3. Properties'
      BY <1>p DEF Properties, SessionNeedsVerified, PasswordIsOwners, CodeIsMailed,
                  SpentCodeIsGone, SessionNeedsLogin
    <2>4. QED
      BY <2>1, <2>2, <2>3 DEF AuthInv
  <1>20. QED
    BY <1>1, <1>2, <1>3, <1>4, <1>5, <1>6, <1>7, <1>8, <1>9, <1>10,
       <1>11, <1>12, <1>13, <1>14, <1>15, <1>16, <1>17, <1>18, <1>19
    DEF Next

LEMMA AuthInvariant == Spec => []AuthInv
  BY AuthInvInit, AuthInvStep, PTL DEF Spec

-----------------------------------------------------------------------------
(* Every reachable state is well typed. *)
THEOREM TypeCorrect == Spec => []TypeOK
  <1>1. AuthInv => TypeOK
    BY DEF AuthInv
  <1>2. QED
    BY <1>1, AuthInvariant, PTL

(* Nobody who has not verified the email has a session, whatever login    *)
(* and refresh read before they wrote theirs.                              *)
THEOREM SessionsAreVerified == Spec => []SessionNeedsVerified
  <1>1. AuthInv => SessionNeedsVerified
    BY DEF AuthInv, Properties
  <1>2. QED
    BY <1>1, AuthInvariant, PTL

(* A second registration never takes an account over, and only a reset     *)
(* that spent a mailed code changes its password.                          *)
THEOREM OwnerKeepsAccount == Spec => []PasswordIsOwners
  <1>1. AuthInv => PasswordIsOwners
    BY DEF AuthInv, Properties
  <1>2. QED
    BY <1>1, AuthInvariant, PTL

(* An account that waits for its verification has a code, which was mailed *)
(* unless its call said that it failed.                                    *)
THEOREM CodesAreMailed == Spec => []CodeIsMailed
  <1>1. AuthInv => CodeIsMailed
    BY DEF AuthInv, Properties
  <1>2. QED
    BY <1>1, AuthInvariant, PTL

(* A code that was spent is never stored again (two calls that both read   *)
(* it before either writes may both spend it).                             *)
THEOREM CodesAreSpent == Spec => []SpentCodeIsGone
  <1>1. AuthInv => SpentCodeIsGone
    BY DEF AuthInv, Properties
  <1>2. QED
    BY <1>1, AuthInvariant, PTL

(* After a logout or a reset there is a session again only by a login with *)
(* the password that is the present one, or by a call that was signing one *)
(* at that moment.                                                         *)
THEOREM SessionsNeedLogin == Spec => []SessionNeedsLogin
  <1>1. AuthInv => SessionNeedsLogin
    BY DEF AuthInv, Properties
  <1>2. QED
    BY <1>1, AuthInvariant, PTL
=============================================================================
