------------------------------- MODULE ApiClient -------------------------------
(***************************************************************************)
(* apiFetch, through which a page talks to the server: the circuit breaker of *)
(* the scope 'application' and the session, both kept by the page and shared  *)
(* by all its requests.  A module with requests of its own extends this one   *)
(* and says, for each end of a request, what becomes of the two.             *)
(***************************************************************************)
EXTENDS Naturals

CONSTANTS
    Threshold,   \* failures that open the breaker
    MaxFaults    \* bound: failures, expired sessions, reloads and signing out, together

ASSUME ClientConstants == Threshold \in Nat \ {0} /\ MaxFaults \in Nat

VARIABLES
    failures,  \* circuitBreaker.failures
    tripped,   \* circuitBreaker.tripped
    cooled,    \* resetTimeout has passed since tripTime
    token,     \* accessToken: the number of the session, 0 if there is none
    sessions,  \* how many sessions there were
    leaving,   \* unauthorizedRedirectInFlight
    live,      \* sessions of which the page may have queries on their way
    endedBy,   \* history: the session whose request, or sign-out, ended the last session
    faults     \* how many faults there were

breaker == <<failures, tripped, cooled>>
session == <<token, sessions, leaving, live, endedBy>>
client == <<breaker, session>>

Fault == faults < MaxFaults /\ faults' = faults + 1

ClientInit ==
    /\ failures = 0 /\ tripped = FALSE /\ cooled = FALSE
    /\ token = 1 /\ sessions = 1 /\ leaving = FALSE /\ live = {1}
    /\ endedBy = 0 /\ faults = 0

-----------------------------------------------------------------------------
(* The breaker.                                                              *)

\* Mutant: an open breaker waits for an answer it lets nobody ask for.
NeverAdmits == ~tripped

\* The first lines of apiFetch: an open breaker lets requests through again once
\* its time has passed.
Admits == ~tripped \/ cooled
PassBreaker == tripped' = FALSE /\ cooled' = FALSE /\ UNCHANGED failures
BlockAtBreaker == UNCHANGED breaker

\* An answer of 2xx that can be read, or of 4xx.
ResetBreaker == failures' = 0 /\ tripped' = FALSE /\ cooled' = FALSE

\* Any other answer (3xx, 5xx), a timeout, a fetch that ends with 'Failed to fetch'.
CountFailure ==
    /\ failures' = failures + 1
    /\ IF failures + 1 >= Threshold
       THEN tripped' = TRUE /\ cooled' = FALSE
       ELSE UNCHANGED <<tripped, cooled>>

-----------------------------------------------------------------------------
(* The session.                                                              *)

\* handleUnauthorizedSession, for an answer to a request of session t: drop the token
\* and leave for the sign-in page, unless the page is there (or at the forgotten
\* password) already.
HandleUnauthorized(t) ==
    IF token = t /\ ~leaving
    THEN /\ token' = 0 /\ endedBy' = t
         /\ leaving' \in BOOLEAN
         /\ UNCHANGED <<sessions, live>>
    ELSE UNCHANGED session

\* The onError of the QueryCache, after apiFetch has handled the same answer to a
\* query: it asks nothing about the session the query belonged to.
QueryUnauthorized(t) ==
    /\ t \in live /\ Fault
    /\ ResetBreaker
    /\ token' = 0
    /\ leaving' \in {leaving, leaving \/ token = t}
    /\ endedBy' = IF token # 0 THEN t ELSE endedBy
    /\ UNCHANGED <<sessions, live>>

\* The ends of the application's other requests.
OtherAnswer == live # {} /\ ResetBreaker /\ UNCHANGED <<session, faults>>
OtherFailure == live # {} /\ Fault /\ CountFailure /\ UNCHANGED session

\* resetTimeout runs out.
Cool == tripped /\ ~cooled /\ cooled' = TRUE /\ UNCHANGED <<failures, tripped, session, faults>>

\* The sign-in form, on a page that was loaded anew or that a sign-out routed to it.
SignIn ==
    /\ token = 0 /\ ~leaving
    /\ token' = sessions + 1 /\ sessions' = sessions + 1
    /\ live' = live \union {sessions + 1}
    /\ UNCHANGED <<breaker, leaving, endedBy, faults>>

\* The dialog resets the session and routes to the sign-in page; the page stays.
SignOut ==
    /\ token # 0 /\ Fault
    /\ token' = 0 /\ endedBy' = token
    /\ UNCHANGED <<breaker, sessions, leaving, live>>

\* What a load of the page leaves: the token is kept by the browser.
LoadClient ==
    /\ failures' = 0 /\ tripped' = FALSE /\ cooled' = FALSE
    /\ leaving' = FALSE /\ live' = {token} \ {0}
    /\ UNCHANGED <<token, sessions, endedBy>>

ClientTypeOK ==
    /\ failures \in Nat /\ tripped \in BOOLEAN /\ cooled \in BOOLEAN
    /\ sessions \in Nat /\ token \in 0 .. sessions
    /\ endedBy \in 0 .. sessions
    /\ leaving \in BOOLEAN /\ live \subseteq 1 .. sessions
    /\ faults \in 0 .. MaxFaults

\* The comment in handleUnauthorizedSession: an answer to a request of an older session
\* belongs to that session, and does not end the present one.
OldAnswersKeepSession ==
    [][token # 0 /\ token' = 0 => endedBy' = token]_client

=============================================================================
