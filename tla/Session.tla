------------------------------- MODULE Session -------------------------------
(***************************************************************************)
(* The user's session in the compute dashboard: the cookie the access      *)
(* token is kept in, which is read for every request of the API and at     *)
(* every rendering of the page that shows logs.  Where tokens come from    *)
(* and who deletes the cookie is not in these sources.                     *)
(***************************************************************************)
EXTENDS Naturals

CONSTANT MaxLogins      \* bound: tokens the cookie gets

ASSUME SessionAssumption == MaxLogins \in Nat \ {0}

VARIABLES
    logins,     \* the number of the last login, and of its token
    session     \* whether that token is accepted, and still kept

session_vars == <<logins, session>>

SessionTypeOK == logins \in 1..MaxLogins /\ session \in {"valid", "expired", "none"}

SessionInit == logins = 1 /\ session = "valid"

\* compute_access_token: the token, or 0 if it is absent.
cookie == IF session = "none" THEN 0 ELSE logins

Expire ==
    /\ session = "valid"
    /\ session' = "expired"
    /\ UNCHANGED logins

\* Logging out, in another tab, and the end of the cookie.
Logout ==
    /\ session # "none"
    /\ session' = "none"
    /\ UNCHANGED logins

\* Logging in, in another tab or on a page of its own, replaces the cookie.
Login ==
    /\ logins < MaxLogins
    /\ logins' = logins + 1
    /\ session' = "valid"

SessionStep == Expire \/ Logout \/ Login

\* The requests of the API carry the cookie of now (getClient).
Authorized == session = "valid"
===============================================================================
