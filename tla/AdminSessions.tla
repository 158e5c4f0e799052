--------------------------- MODULE AdminSessions ---------------------------
(***************************************************************************)
(* How an admin of the panel comes in and stays in (services/auth.py,      *)
(* core/rate_limit.py, the auth router): a password or a one-time code     *)
(* opens a session, a refresh token is traded for the next one, a logout   *)
(* revokes.  Codes, tries and rate limits live in Redis, one command at a  *)
(* time and without a database connection; sessions live in rows, one      *)
(* connection per process.                                                 *)
(***************************************************************************)
EXTENDS Naturals, FiniteSets

CONSTANTS Requests,     \* requests under way at once
          MaxSessions,  \* bound: sessions
          MaxTokens,    \* bound: refresh tokens
          MaxCodes,     \* bound: codes issued
          MaxTries,     \* otp_max_attempts
          Limit         \* rate_limit_login_per_minute

AdmissionConstants ==
    MaxSessions \in Nat /\ MaxTokens \in Nat /\ MaxCodes \in Nat /\ Limit \in Nat \ {0}

VARIABLES
    session,   \* session[s]: the rows of admin_sessions
    active,    \* admins.is_active
    tokens,    \* refresh tokens made so far
    code,      \* the code in Redis, 0 when there is none
    codes,     \* codes issued so far
    tries,     \* otp_tries
    hits,      \* the counter of the rate limit
    ttl,       \* it has an expiry
    req,       \* req[r]: a request under way
    spent,     \* history: spent[t]: refreshes that were granted on the session of t
    loose,     \* history: tokens handed out without a session
    opened,    \* history: opened[c]: refresh tokens handed out for code c
    shared,    \* history: tokens and codes that two requests used at once
    died       \* history: a process died between INCR and EXPIRE

vars == <<session, active, tokens, code, codes, tries, hits, ttl, req, spent, opened, shared,
          died, loose>>

rows    == <<session, active, tokens, spent, loose>>
otp     == <<code, codes, tries, opened>>
limiter == <<hits, ttl, died>>

Sessions == 1..MaxSessions
Tokens   == 1..MaxTokens
Codes    == 1..MaxCodes

NoSession == [token |-> 0, revoked |-> FALSE, over |-> FALSE]
Session   == [token : 0..MaxTokens, revoked : BOOLEAN, over : BOOLEAN]

Idle == [pc |-> "idle"]

\* A request: what it asks for, and what it has read - the token or code it was
\* given, the session it found, whether that made it welcome.
Req == [pc : {"limit", "password", "code", "match", "refresh", "logout"},
        of : 0..(MaxTokens + MaxCodes), found : 0..MaxSessions, ok : BOOLEAN]

Asking(pc, of) == [pc |-> pc, of |-> of, found |-> 0, ok |-> FALSE]

-----------------------------------------------------------------------------
(* Sessions                                                                *)

Exists(s) == session[s].token # 0

\* The session whose refresh_jti is the token's.
Found(t) ==
    LET hit == {s \in Sessions : t # 0 /\ session[s].token = t}
    IN IF hit = {} THEN 0 ELSE CHOOSE s \in hit : TRUE

\* A new row with a new token.
Open ==
    /\ tokens < MaxTokens
    /\ \E s \in Sessions :
          /\ ~Exists(s) /\ \A q \in 1..(s - 1) : Exists(q)
          /\ session' = [session EXCEPT ![s] = [token |-> tokens + 1, revoked |-> FALSE, over |-> FALSE]]
    /\ tokens' = tokens + 1
    /\ UNCHANGED loose

\* Whoever is no admin at the moment gets a token that is in no row.
HandOut ==
    /\ tokens < MaxTokens
    /\ tokens' = tokens + 1
    /\ loose' = loose \cup {tokens + 1}
    /\ UNCHANGED session

Answered(r) == req' = [req EXCEPT ![r] = Idle]

-----------------------------------------------------------------------------
(* The rate limit                                                          *)

Counted(r) ==
    /\ req[r] = Idle
    /\ hits < Limit + 2 /\ hits' = hits + 1

\* A mistake for LimiterRecovers to catch: the expiry is set before there is a
\* counter.
ExpireFirst(r) ==
    /\ Counted(r)
    /\ ttl' = (hits > 0)
    /\ req' = [req EXCEPT ![r] = IF hits < Limit THEN Asking("password", 0) ELSE Idle]
    /\ UNCHANGED <<rows, otp, shared, died>>

\* hit_rate_limit: INCR; the first to count sets the expiry afterwards, and one
\* too many is turned away.
Incr(r) ==
    /\ Counted(r)
    /\ req' = [req EXCEPT ![r] = IF hits = 0 THEN Asking("limit", 0)
                                 ELSE IF hits < Limit THEN Asking("password", 0) ELSE Idle]
    /\ UNCHANGED <<rows, otp, ttl, shared, died>>

Expire(r) ==
    /\ req[r].pc = "limit"
    /\ ttl' = (ttl \/ hits > 0)
    /\ req' = [req EXCEPT ![r] = Asking("password", 0)]
    /\ UNCHANGED <<rows, otp, hits, shared, died>>

\* The minute is over.
Window ==
    /\ ttl
    /\ hits' = 0 /\ ttl' = FALSE
    /\ UNCHANGED <<rows, otp, req, shared, died>>

-----------------------------------------------------------------------------
(* Coming in                                                               *)

\* login_super_admin, past the limit.  A wrong password is counted and flushed,
\* and the error rolls the count back with the rest.
PasswordLogin(r) ==
    /\ req[r].pc = "password"
    /\ \/ active /\ Open
       \/ UNCHANGED <<session, tokens, loose>>
    /\ Answered(r)
    /\ UNCHANGED <<active, spent, otp, limiter, shared>>

\* issue_otp: a new code, and no tries yet.
IssueCode ==
    /\ codes < MaxCodes
    /\ codes' = codes + 1
    /\ code' = codes + 1
    /\ tries' = 0
    /\ UNCHANGED <<rows, opened, limiter, req, shared>>

ForgetCode ==
    /\ code # 0
    /\ code' = 0
    /\ UNCHANGED <<rows, codes, opened, tries, limiter, req, shared>>

\* verify_otp asks for the tries; a guess may be any code there ever was ...
TryCode(r, c) ==
    /\ req[r] = Idle
    /\ tries < MaxTries
    /\ req' = [req EXCEPT ![r] = Asking("code", c)]
    /\ shared' = IF \E q \in Requests \ {r} : req[q].pc \in {"code", "match"} /\ req[q].of = c
                 THEN shared \cup {<<"code", c>>} ELSE shared
    /\ UNCHANGED <<rows, otp, limiter>>

\* ... then for the code.  A wrong one counts.
CompareCode(r) ==
    /\ req[r].pc = "code"
    /\ IF code = req[r].of
       THEN req' = [req EXCEPT ![r] = Asking("match", req[r].of)] /\ UNCHANGED tries
       ELSE Answered(r) /\ tries' = tries + 1
    /\ UNCHANGED <<rows, code, codes, opened, limiter, shared>>

\* A right one is deleted - whatever is there by now - and opens a session of the
\* admin, if still one.
EnterWithCode(r) ==
    /\ req[r].pc = "match"
    /\ code' = 0
    /\ opened' = [opened EXCEPT ![req[r].of] = opened[req[r].of] + 1]
    /\ IF active THEN Open ELSE HandOut
    /\ Answered(r)
    /\ UNCHANGED <<active, spent, codes, tries, limiter, shared>>

-----------------------------------------------------------------------------
(* Staying in                                                              *)

\* refresh_tokens: an active admin's token is looked up ...
RefreshRead(r, t) ==
    /\ req[r] = Idle /\ active
    /\ LET s == Found(t)
       IN req' = [req EXCEPT ![r] = [pc |-> "refresh", of |-> t, found |-> s,
                      ok |-> s # 0 /\ ~session[s].revoked /\ ~session[s].over]]
    /\ shared' = IF \E q \in Requests \ {r} : req[q].pc = "refresh" /\ req[q].of = t
                 THEN shared \cup {<<"token", t>>} ELSE shared
    /\ UNCHANGED <<rows, otp, limiter>>

\* A mistake for UsedOnce to catch: the session keeps its token.
NotRotated(r) ==
    /\ req[r].pc = "refresh"
    /\ IF ~req[r].ok THEN UNCHANGED spent
       ELSE spent' = [spent EXCEPT ![req[r].of] = spent[req[r].of] + 1]
    /\ Answered(r)
    /\ UNCHANGED <<session, tokens, loose, active, otp, limiter, shared>>

\* ... and the row gets the next token, whatever happened to it since.
RefreshWrite(r) ==
    /\ req[r].pc = "refresh"
    /\ IF ~req[r].ok THEN UNCHANGED <<session, tokens, spent>>
       ELSE /\ tokens < MaxTokens
            /\ tokens' = tokens + 1
            /\ session' = [session EXCEPT ![req[r].found] =
                              [session[req[r].found] EXCEPT !.token = tokens + 1]]
            /\ spent' = [spent EXCEPT ![req[r].of] = spent[req[r].of] + 1]
    /\ Answered(r)
    /\ UNCHANGED <<active, loose, otp, limiter, shared>>

\* While the admin is switched off no session is looked up and none is rotated: any
\* token, traded or revoked before, buys another one, as often as it is shown.
RefreshOff(t) ==
    /\ ~active
    /\ t <= tokens
    /\ HandOut
    /\ UNCHANGED <<active, spent, otp, limiter, req, shared>>

\* revoke_refresh: only the session whose current token this is.
LogoutRead(r, t) ==
    /\ req[r] = Idle
    /\ Found(t) # 0
    /\ req' = [req EXCEPT ![r] = [pc |-> "logout", of |-> t, found |-> Found(t), ok |-> TRUE]]
    /\ UNCHANGED <<rows, otp, limiter, shared>>

LogoutWrite(r) ==
    /\ req[r].pc = "logout"
    /\ session' = [session EXCEPT ![req[r].found] = [session[req[r].found] EXCEPT !.revoked = TRUE]]
    /\ Answered(r)
    /\ UNCHANGED <<active, tokens, spent, loose, otp, limiter, shared>>

\* Time passes over a session; another admin switches this one off or on.
SessionOver(s) ==
    /\ Exists(s) /\ ~session[s].over
    /\ session' = [session EXCEPT ![s] = [session[s] EXCEPT !.over = TRUE]]
    /\ UNCHANGED <<active, tokens, spent, loose, otp, limiter, req, shared>>

SwitchActive ==
    /\ active' = ~active
    /\ UNCHANGED <<session, tokens, spent, loose, otp, limiter, req, shared>>

\* A request dies with its process, or is given up.
Die(r) ==
    /\ req[r] # Idle
    /\ died' = (died \/ req[r].pc = "limit")
    /\ Answered(r)
    /\ UNCHANGED <<rows, otp, hits, ttl, shared>>

-----------------------------------------------------------------------------
Init ==
    /\ session = [s \in Sessions |-> NoSession]
    /\ active = TRUE
    /\ tokens = 0
    /\ code = 0 /\ codes = 0 /\ tries = 0
    /\ hits = 0 /\ ttl = FALSE
    /\ req = [r \in Requests |-> Idle]
    /\ spent = [t \in Tokens |-> 0]
    /\ opened = [c \in Codes |-> 0]
    /\ shared = {}
    /\ died = FALSE
    /\ loose = {}

Request(r) ==
    \/ Incr(r) \/ Expire(r) \/ PasswordLogin(r) \/ CompareCode(r) \/ EnterWithCode(r)
    \/ \E c \in Codes : TryCode(r, c)
    \/ \E t \in Tokens : RefreshRead(r, t) \/ LogoutRead(r, t)
    \/ RefreshWrite(r) \/ LogoutWrite(r) \/ Die(r)

Next ==
    \/ \E r \in Requests : Request(r)
    \/ Window \/ IssueCode \/ ForgetCode \/ SwitchActive
    \/ \E s \in Sessions : SessionOver(s)
    \/ \E t \in Tokens : RefreshOff(t)

Spec == Init /\ [][Next]_vars

-----------------------------------------------------------------------------
(* Properties                                                              *)

TypeOK ==
    /\ session \in [Sessions -> Session]
    /\ active \in BOOLEAN
    /\ tokens \in 0..MaxTokens
    /\ code \in 0..MaxCodes /\ codes \in 0..MaxCodes
    /\ tries \in Nat
    /\ hits \in 0..(Limit + 2) /\ ttl \in BOOLEAN
    /\ req \in [Requests -> Req \cup {Idle}]
    /\ spent \in [Tokens -> Nat] /\ opened \in [Codes -> Nat]
    /\ shared \subseteq {"token", "code"} \X Nat
    /\ died \in BOOLEAN
    /\ loose \subseteq Tokens

\* services/auth.py:168-170, "revoking a session really does log that browser out;
\* the old jti is rotated on every use".  It is true of sessions: one grants a refresh
\* token at most one trade, through refreshes, logouts, switches off and on in any
\* order - unless two requests read it before either had written.  It is not true of
\* tokens: as long as the admin is switched off, any buys another.  But none of
\* those is ever good for a session, also once the admin is switched on again.  A
\* one-time code lets in once, whatever is issued, guessed or forgotten around it -
\* unless two requests compared it before either had deleted it.
UsedOnce ==
    /\ \A t \in Tokens : spent[t] <= 1 \/ <<"token", t>> \in shared
    /\ \A t \in loose : spent[t] = 0
    /\ \A c \in Codes : opened[c] <= 1 \/ <<"code", c>> \in shared

\* Who is turned away is let in again after a minute: a counter that stands has an
\* expiry, or the request that will set it is on its way, or it died there.
LimiterRecovers ==
    hits > 0 /\ ~ttl => died \/ \E r \in Requests : req[r].pc = "limit"

-----------------------------------------------------------------------------
(* Bounds for model checking: what a long history would repeat             *)

Few ==
    /\ tries <= MaxTries /\ Cardinality(shared) <= 1
    /\ codes + tokens + hits <= IF hits > 0 \/ shared # {} THEN 3 ELSE 4
    /\ tries > 0 => hits = 0 /\ tokens <= 1
    /\ tokens = 3 => hits = 0
    /\ shared # {} => hits = 0
    /\ Cardinality({s \in Sessions : session[s].over \/ session[s].revoked}) <= 1
    /\ ~active => hits = 0
=============================================================================
