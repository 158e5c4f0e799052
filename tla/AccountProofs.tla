--------------------------- MODULE AccountProofs ----------------------------
(***************************************************************************)
(* Theorems about how people get in: AdminSessions, for any requests and   *)
(* any number of sessions, tokens, codes and tries, and Referrals, for any *)
(* players, customs and updates, and any finite number of rows.            *)
(***************************************************************************)
EXTENDS AdminSessions, FiniteSetTheorems, TLAPS

CONSTANTS Users, Events, Global, Rows, Updates, Processes, Nobody

VARIABLES links, count, ref, accepted, onboarded, tx, raced

Invites == INSTANCE Referrals

-----------------------------------------------------------------------------
(* The inductive invariant                                                 *)

\* Tokens are handed out one after the other: each session has one of its own.
TokensOwn ==
    /\ \A s \in Sessions : session[s].token <= tokens
    /\ \A s, q \in Sessions : Exists(s) /\ session[s].token = session[q].token => s = q

\* A token that was traded is no session's any more.
TokensGone ==
    \A t \in Tokens : spent[t] > 0 => t <= tokens /\ \A s \in Sessions : session[s].token # t

\* A token made without a session stays without one, and no request is welcome with it.
LooseOut ==
    \A t \in loose :
        /\ t <= tokens /\ spent[t] = 0 /\ \A s \in Sessions : session[s].token # t
        /\ \A r \in Requests : req[r].pc = "refresh" /\ req[r].ok => req[r].of # t

\* Requests that look at the same token have been noticed; one that is alone with
\* the token it was welcomed with is the first to trade it.
TokenInHand ==
    \A r \in Requests : req[r].pc = "refresh" =>
        /\ \A q \in Requests \ {r} : req[q].pc = "refresh" /\ req[q].of = req[r].of
              => <<"token", req[r].of>> \in shared
        /\ req[r].ok =>
              /\ req[r].of \in Tokens /\ req[r].found \in Sessions /\ req[r].of <= tokens
              /\ \A s \in Sessions \ {req[r].found} : session[s].token # req[r].of
              /\ spent[req[r].of] = 0 \/ <<"token", req[r].of>> \in shared

\* A code that has opened a session is gone, and never comes again.
CodesGone ==
    /\ code <= codes
    /\ \A c \in Codes : opened[c] > 0 => c <= codes /\ code # c

\* Requests that try the same code have been noticed; one that is alone with the
\* code it matched is the first to use it.
CodeInHand ==
    \A r \in Requests : req[r].pc \in {"code", "match"} =>
        /\ req[r].of \in Codes
        /\ \A q \in Requests \ {r} : req[q].pc \in {"code", "match"} /\ req[q].of = req[r].of
              => <<"code", req[r].of>> \in shared
        /\ req[r].pc = "match" =>
              /\ req[r].of <= codes
              /\ opened[req[r].of] = 0 \/ <<"code", req[r].of>> \in shared

\* A logout has found its session.
LogoutInHand == \A r \in Requests : req[r].pc = "logout" => req[r].found \in Sessions

IInv ==
    /\ TypeOK /\ TokensOwn /\ TokensGone /\ LooseOut /\ TokenInHand
    /\ CodesGone /\ CodeInHand /\ LogoutInHand /\ UsedOnce /\ LimiterRecovers

-----------------------------------------------------------------------------
(* Requests                                                                *)

TokenSide == TokensOwn /\ TokensGone /\ LooseOut /\ TokenInHand /\ LogoutInHand

CodeSide == CodesGone /\ CodeInHand

\* A request that goes on, and the others, which do not.
LEMMA Replaced ==
    ASSUME TypeOK, NEW r \in Requests, NEW x \in Req \cup {Idle}, req' = [req EXCEPT ![r] = x]
    PROVE  /\ req' \in [Requests -> Req \cup {Idle}] /\ req'[r] = x
           /\ \A q \in Requests \ {r} : req'[q] = req[q]
  BY DEF TypeOK

LEMMA AskingTyped ==
    ASSUME NEW pc \in {"limit", "password", "code", "match", "refresh", "logout"},
           NEW of \in 0..(MaxTokens + MaxCodes), AdmissionConstants
    PROVE  Asking(pc, of) \in Req /\ Asking(pc, of).pc = pc /\ Asking(pc, of).of = of
  BY DEF Asking, Req, AdmissionConstants

LEMMA ReqTyped ==
    ASSUME TypeOK, NEW r \in Requests, req[r] # Idle
    PROVE  /\ req[r] \in Req /\ req[r].of \in Nat /\ req[r].of \in 0..(MaxTokens + MaxCodes)
           /\ req[r].found \in 0..MaxSessions /\ req[r].ok \in BOOLEAN
  BY DEF TypeOK, Req

LEMMA SessionTyped ==
    ASSUME TypeOK, NEW s \in Sessions
    PROVE  session[s] \in Session /\ session[s].token \in 0..MaxTokens
  BY DEF TypeOK, Session

\* The token that is found is that session's, and nobody else's.
LEMMA FoundRight ==
    ASSUME TypeOK, TokensOwn, NEW t \in Tokens, Found(t) # 0
    PROVE  /\ Found(t) \in Sessions /\ session[Found(t)].token = t
           /\ \A s \in Sessions \ {Found(t)} : session[s].token # t
<1> DEFINE hit == {s \in Sessions : t # 0 /\ session[s].token = t}
<1>1. hit # {} /\ Found(t) = CHOOSE s \in hit : TRUE
  BY DEF Found
<1>2. Found(t) \in hit
  BY <1>1
<1> QED
  BY <1>2 DEF TokensOwn, Exists, Tokens

\* Steps that leave the tokens where they are.
LEMMA TokensStay ==
    ASSUME TokenSide, tokens' = tokens, spent' = spent, loose' = loose, shared \subseteq shared',
           \A s \in Sessions : session'[s].token = session[s].token,
           \A q \in Requests : req'[q].pc \in {"refresh", "logout"} => req'[q] = req[q]
    PROVE  TokenSide'
<1>1. TokensOwn' /\ TokensGone'
  BY DEF TokenSide, TokensOwn, TokensGone, Exists
<1>2. TokenInHand'
  BY DEF TokenSide, TokenInHand
<1>3. LogoutInHand'
  BY DEF TokenSide, LogoutInHand
<1>4. LooseOut'
  BY DEF TokenSide, LooseOut
<1> QED
  BY <1>1, <1>2, <1>3, <1>4 DEF TokenSide

\* A session is opened, with the next token.
LEMMA OpenKeeps ==
    ASSUME AdmissionConstants, TypeOK, TokenSide, Open, spent' = spent, shared \subseteq shared',
           \A q \in Requests : req'[q].pc \in {"refresh", "logout"} => req'[q] = req[q]
    PROVE  /\ TokenSide' /\ session' \in [Sessions -> Session] /\ tokens' \in 0..MaxTokens
           /\ loose' = loose
<1> DEFINE new == [token |-> tokens + 1, revoked |-> FALSE, over |-> FALSE]
<1>1. PICK s \in Sessions : ~Exists(s) /\ session' = [session EXCEPT ![s] = new]
  BY DEF Open
<1>2. tokens' = tokens + 1 /\ tokens \in Nat /\ tokens' \in 0..MaxTokens
  BY DEF Open, TypeOK, AdmissionConstants
<1>3. new \in Session /\ new.token = tokens + 1
  BY <1>2 DEF Session
<1> HIDE DEF new
<1>4. /\ session' \in [Sessions -> Session] /\ session'[s] = new
      /\ \A q \in Sessions \ {s} : session'[q] = session[q]
  BY <1>1, <1>3 DEF TypeOK
<1>5. \A q \in Sessions : session[q].token \in Nat /\ session[q].token <= tokens
  BY SessionTyped DEF TokenSide, TokensOwn
<1>6. TokensOwn'
  BY <1>2, <1>3, <1>4, <1>5 DEF TokenSide, TokensOwn, Exists
<1>7. TokensGone'
  BY <1>2, <1>3, <1>4, <1>5 DEF TokenSide, TokensGone, Tokens
<1>8. TokenInHand'
  <2> SUFFICES ASSUME NEW r \in Requests, req'[r].pc = "refresh"
               PROVE  /\ \A q \in Requests \ {r} : req'[q].pc = "refresh" /\ req'[q].of = req'[r].of
                            => <<"token", req'[r].of>> \in shared'
                      /\ req'[r].ok =>
                            /\ req'[r].of \in Tokens /\ req'[r].found \in Sessions
                            /\ req'[r].of <= tokens'
                            /\ \A q \in Sessions \ {req'[r].found} : session'[q].token # req'[r].of
                            /\ spent'[req'[r].of] = 0 \/ <<"token", req'[r].of>> \in shared'
    BY DEF TokenInHand
  <2>1. req'[r] = req[r]
    OBVIOUS
  <2>2. \A q \in Requests \ {r} : req'[q].pc = "refresh" /\ req'[q].of = req'[r].of
            => <<"token", req'[r].of>> \in shared'
    BY <2>1 DEF TokenSide, TokenInHand
  <2>3. ASSUME req'[r].ok
        PROVE  /\ req'[r].of \in Tokens /\ req'[r].found \in Sessions
               /\ req'[r].of <= tokens'
               /\ \A q \in Sessions \ {req'[r].found} : session'[q].token # req'[r].of
               /\ spent'[req'[r].of] = 0 \/ <<"token", req'[r].of>> \in shared'
    <3>1. /\ req[r].of \in Tokens /\ req[r].found \in Sessions /\ req[r].of <= tokens
          /\ \A q \in Sessions \ {req[r].found} : session[q].token # req[r].of
          /\ spent[req[r].of] = 0 \/ <<"token", req[r].of>> \in shared
      BY <2>1, <2>3 DEF TokenSide, TokenInHand
    <3>2. \A q \in Sessions \ {req[r].found} : session'[q].token # req[r].of
      BY <1>2, <1>3, <1>4, <3>1 DEF Tokens
    <3> QED
      BY <1>2, <2>1, <3>1, <3>2 DEF Tokens
  <2> QED
    BY <2>2, <2>3
<1>9. LogoutInHand'
  BY DEF TokenSide, LogoutInHand
<1>10. loose' = loose
  BY DEF Open
<1>11. LooseOut'
  <2>1. \A t \in loose : t \in Nat
    <3>1. loose \subseteq Tokens
      BY DEF TypeOK
    <3>2. Tokens \subseteq Nat
      BY DEF Tokens, AdmissionConstants
    <3> QED
      BY <3>1, <3>2
  <2> QED
    BY <1>2, <1>3, <1>4, <1>10, <2>1 DEF TokenSide, LooseOut
<1> QED
  BY <1>2, <1>4, <1>6, <1>7, <1>8, <1>9, <1>10, <1>11 DEF TokenSide

\* The next token is handed out without a session.
LEMMA HandOutKeeps ==
    ASSUME AdmissionConstants, TypeOK, TokenSide, UsedOnce, HandOut, spent' = spent,
           shared \subseteq shared',
           \A q \in Requests : req'[q].pc \in {"refresh", "logout"} => req'[q] = req[q]
    PROVE  /\ TokenSide' /\ session' = session /\ tokens' \in 0..MaxTokens
           /\ loose' \subseteq Tokens /\ \A t \in loose' : spent'[t] = 0
<1> DEFINE new == tokens + 1
<1>1. /\ session' = session /\ tokens' = new /\ loose' = loose \cup {new}
      /\ tokens \in Nat /\ new \in Nat /\ new \in Tokens /\ new > tokens /\ new \in 0..MaxTokens
  BY DEF HandOut, TypeOK, AdmissionConstants, Tokens
<1>2. /\ spent[new] = 0
      /\ \A s \in Sessions : session[s].token # new
      /\ \A r \in Requests : req[r].pc = "refresh" /\ req[r].ok => req[r].of # new
  <2>1. spent[new] \in Nat /\ ~(spent[new] > 0)
    BY <1>1 DEF TypeOK, TokenSide, TokensGone
  <2>2. \A s \in Sessions : session[s].token \in Nat /\ session[s].token <= tokens
    BY SessionTyped DEF TokenSide, TokensOwn
  <2>3. \A r \in Requests : req[r].pc = "refresh" /\ req[r].ok => req[r].of <= tokens
    BY DEF TokenSide, TokenInHand
  <2> HIDE DEF new
  <2> QED
    BY <1>1, <2>1, <2>2, <2>3
<1> HIDE DEF new
<1>3. \A t \in loose : t \in Nat /\ t <= tokens /\ spent[t] = 0
  BY DEF TypeOK, Tokens, TokenSide, LooseOut
<1>4. LooseOut'
  BY <1>1, <1>2, <1>3 DEF TokenSide, LooseOut
<1>5. TokensOwn'
  <2>1. \A s \in Sessions : session[s].token \in Nat
    BY SessionTyped
  <2> QED
    BY <1>1, <2>1 DEF TokenSide, TokensOwn, Exists
<1>6. TokensGone'
  <2>1. \A t \in Tokens : t \in Nat
    BY DEF Tokens
  <2> QED
    BY <1>1, <2>1 DEF TokenSide, TokensGone
<1>7. TokenInHand'
  <2>1. \A t \in Tokens : t <= tokens => t <= new
    BY <1>1 DEF Tokens
  <2> QED
    BY <1>1, <2>1 DEF TokenSide, TokenInHand
<1>8. LogoutInHand'
  BY DEF TokenSide, LogoutInHand
<1>9. loose' \subseteq Tokens
  BY <1>1 DEF TypeOK
<1> QED
  BY <1>1, <1>2, <1>3, <1>4, <1>5, <1>6, <1>7, <1>8, <1>9 DEF TokenSide

\* Steps that leave the codes where they are, or forget the last one.
LEMMA CodesStay ==
    ASSUME TypeOK, CodeSide, codes' = codes, opened' = opened, code' \in {code, 0},
           shared \subseteq shared',
           \A q \in Requests : req'[q].pc \in {"code", "match"} => req'[q] = req[q]
    PROVE  CodeSide'
<1>1. code \in Nat /\ codes \in Nat
  BY DEF TypeOK
<1>2. CodesGone'
  BY <1>1 DEF CodeSide, CodesGone, Codes
<1>3. CodeInHand'
  BY DEF CodeSide, CodeInHand
<1> QED
  BY <1>2, <1>3 DEF CodeSide

LEMMA UsedStays ==
    ASSUME UsedOnce, spent' = spent, loose' = loose, opened' = opened, shared \subseteq shared'
    PROVE  UsedOnce'
  BY DEF UsedOnce

LEMMA LimitStays ==
    ASSUME LimiterRecovers, hits' = hits, ttl' = ttl, died' = died,
           \A q \in Requests : req[q].pc = "limit" => req'[q].pc = "limit"
    PROVE  LimiterRecovers'
  BY DEF LimiterRecovers

-----------------------------------------------------------------------------
(* The invariant, step by step                                             *)

\* What is left to show when the tokens and the codes are where they were.
LEMMA Gathered ==
    ASSUME TypeOK', TokenSide', CodeSide', UsedOnce', LimiterRecovers'
    PROVE  IInv'
  BY DEF IInv, TokenSide, CodeSide

LEMMA InitInv == ASSUME AdmissionConstants, Init PROVE IInv
<1>1. TypeOK
  <2>1. NoSession \in Session
    BY DEF AdmissionConstants, NoSession, Session
  <2>2. /\ session \in [Sessions -> Session] /\ req \in [Requests -> Req \cup {Idle}]
        /\ spent \in [Tokens -> Nat] /\ opened \in [Codes -> Nat] /\ shared = {} /\ loose = {}
    BY <2>1 DEF Init
  <2>3. /\ tokens \in 0..MaxTokens /\ code \in 0..MaxCodes /\ codes \in 0..MaxCodes
        /\ tries \in Nat /\ hits \in 0..(Limit + 2)
    BY DEF Init, AdmissionConstants
  <2>4. active \in BOOLEAN /\ ttl \in BOOLEAN /\ died \in BOOLEAN
    BY DEF Init
  <2> QED
    BY <2>2, <2>3, <2>4 DEF TypeOK
<1>2. TokensOwn /\ TokensGone /\ LooseOut /\ TokenInHand /\ LogoutInHand
  BY DEF Init, TokensOwn, TokensGone, LooseOut, TokenInHand, LogoutInHand, Exists, NoSession, Idle
<1>3. CodesGone /\ CodeInHand /\ UsedOnce /\ LimiterRecovers
  BY DEF Init, CodesGone, CodeInHand, UsedOnce, LimiterRecovers, Idle
<1> QED
  BY <1>1, <1>2, <1>3 DEF IInv

\* The rate limit counts, and sets its expiry later.
LEMMA LimitInv ==
    ASSUME AdmissionConstants, IInv, NEW r \in Requests, Incr(r) \/ Expire(r)
    PROVE  IInv'
<1>1. PICK x \in Req \cup {Idle} : /\ req' = [req EXCEPT ![r] = x]
                                   /\ x.pc \in {"limit", "password", "idle"}
                                   /\ Incr(r) /\ hits = 0 => x.pc = "limit"
  <2>1. 0 \in 0..(MaxTokens + MaxCodes)
    BY DEF AdmissionConstants
  <2>2. /\ Asking("limit", 0) \in Req /\ Asking("limit", 0).pc = "limit"
        /\ Asking("password", 0) \in Req /\ Asking("password", 0).pc = "password"
    BY <2>1, AskingTyped
  <2>3. CASE Incr(r)
    <3>1. CASE hits = 0
      <4>1. req' = [req EXCEPT ![r] = Asking("limit", 0)]
        BY <2>3, <3>1 DEF Incr
      <4> QED
        BY <2>2, <4>1
    <3>2. CASE hits # 0 /\ hits < Limit
      <4>1. req' = [req EXCEPT ![r] = Asking("password", 0)]
        BY <2>3, <3>2 DEF Incr
      <4> QED
        BY <2>2, <3>2, <4>1
    <3>3. CASE hits # 0 /\ ~(hits < Limit)
      <4>1. req' = [req EXCEPT ![r] = Idle]
        BY <2>3, <3>3 DEF Incr
      <4> QED
        BY <3>3, <4>1 DEF Idle
    <3> QED
      BY <3>1, <3>2, <3>3
  <2>4. CASE Expire(r)
    <3>1. req[r] # Idle /\ req' = [req EXCEPT ![r] = Asking("password", 0)]
      BY <2>4 DEF Expire, Idle
    <3>2. ~Incr(r)
      BY <3>1 DEF Incr, Counted
    <3> QED
      BY <2>2, <3>1, <3>2
  <2> QED
    BY <2>3, <2>4
<1>2. TypeOK /\ UNCHANGED <<session, active, tokens, spent, loose, code, codes, tries, opened, shared, died>>
  BY DEF IInv, Incr, Expire, rows, otp
<1>3. /\ req' \in [Requests -> Req \cup {Idle}] /\ req'[r] = x
      /\ \A q \in Requests \ {r} : req'[q] = req[q]
  BY <1>1, <1>2, Replaced
<1>4. hits' \in 0..(Limit + 2) /\ ttl' \in BOOLEAN /\ hits \in Nat
  <2>1. hits \in Nat /\ hits \in 0..(Limit + 2) /\ Limit \in Nat /\ ttl \in BOOLEAN
    BY <1>2 DEF TypeOK, AdmissionConstants
  <2>2. hits' = hits \/ (hits < Limit + 2 /\ hits' = hits + 1)
    BY DEF Incr, Expire, Counted
  <2>3. ttl' = ttl \/ ttl' = (ttl \/ hits > 0)
    BY DEF Incr, Expire
  <2>4. ttl' \in BOOLEAN
    BY <2>1, <2>3
  <2> QED
    BY <2>1, <2>2, <2>4
<1>5. TypeOK'
  BY <1>2, <1>3, <1>4 DEF TypeOK
<1>6. TokenSide' /\ CodeSide' /\ UsedOnce'
  BY <1>1, <1>2, <1>3, TokensStay, CodesStay, UsedStays DEF IInv, TokenSide, CodeSide
<1>7. LimiterRecovers'
  <2>1. CASE Incr(r) /\ hits = 0
    BY <1>1, <1>3, <2>1 DEF LimiterRecovers
  <2>2. CASE Incr(r) /\ hits # 0
    <3>1. ttl' = ttl /\ hits > 0 /\ req[r] = Idle
      BY <1>4, <2>2 DEF Incr, Counted
    <3>2. \A q \in Requests : req[q].pc = "limit" => req'[q].pc = "limit"
      BY <1>3, <3>1 DEF Idle
    <3> QED
      BY <1>2, <3>1, <3>2 DEF IInv, LimiterRecovers
  <2>3. CASE Expire(r)
    BY <2>3, <1>4 DEF Expire, LimiterRecovers, limiter
  <2> QED
    BY <2>1, <2>2, <2>3
<1> QED
  BY <1>5, <1>6, <1>7, Gathered

\* What happens without a request.
LEMMA AroundInv ==
    ASSUME AdmissionConstants, IInv,
           \/ Window \/ IssueCode \/ ForgetCode \/ SwitchActive
           \/ \E s \in Sessions : SessionOver(s)
           \/ \E t \in Tokens : RefreshOff(t)
    PROVE  IInv'
<1>1. TypeOK /\ TokenSide /\ CodeSide /\ UsedOnce /\ LimiterRecovers
  BY DEF IInv, TokenSide, CodeSide
<1>2. CASE Window
  <2>1. /\ UNCHANGED <<session, active, tokens, spent, loose, code, codes, tries, opened, req, shared, died>>
        /\ hits' = 0 /\ ttl' = FALSE
    BY <1>2 DEF Window, rows, otp
  <2>2. hits' \in 0..(Limit + 2) /\ ttl' \in BOOLEAN
    <3>1. 0 \in 0..(Limit + 2)
      BY DEF AdmissionConstants
    <3> QED
      BY <2>1, <3>1
  <2>5. TypeOK'
    BY <1>1, <2>1, <2>2 DEF TypeOK
  <2>3. TokenSide' /\ CodeSide' /\ UsedOnce'
    BY <1>1, <2>1, TokensStay, CodesStay, UsedStays
  <2>4. LimiterRecovers'
    BY <2>1 DEF LimiterRecovers
  <2> QED
    BY <2>3, <2>4, <2>5, Gathered
<1>3. CASE IssueCode
  <2>1. /\ UNCHANGED <<session, active, tokens, spent, loose, opened, hits, ttl, died, req, shared>>
        /\ codes < MaxCodes /\ codes' = codes + 1 /\ code' = codes + 1 /\ tries' = 0
    BY <1>3 DEF IssueCode, rows, limiter
  <2>2. codes \in Nat /\ codes' \in 0..MaxCodes /\ code' \in 0..MaxCodes
    BY <1>1, <2>1 DEF TypeOK, AdmissionConstants
  <2>3. TypeOK'
    BY <1>1, <2>1, <2>2 DEF TypeOK
  <2>4. TokenSide' /\ UsedOnce' /\ LimiterRecovers'
    BY <1>1, <2>1, TokensStay, UsedStays, LimitStays
  <2>5. CodesGone'
    BY <1>1, <2>1, <2>2 DEF CodeSide, CodesGone, Codes
  <2>6. CodeInHand'
    BY <1>1, <2>1, <2>2 DEF CodeSide, CodeInHand, Codes
  <2> QED
    BY <2>3, <2>4, <2>5, <2>6, Gathered DEF CodeSide
<1>4. CASE ForgetCode
  <2>1. /\ UNCHANGED <<session, active, tokens, spent, loose, codes, opened, tries, hits, ttl, died, req,
                       shared>>
        /\ code' = 0
    BY <1>4 DEF ForgetCode, rows, limiter
  <2>2. TypeOK'
    BY <1>1, <2>1 DEF TypeOK, AdmissionConstants
  <2>3. TokenSide' /\ UsedOnce' /\ LimiterRecovers' /\ CodeSide'
    BY <1>1, <2>1, TokensStay, UsedStays, LimitStays, CodesStay
  <2> QED
    BY <2>2, <2>3, Gathered
<1>5. CASE SwitchActive
  <2>1. /\ UNCHANGED <<session, tokens, spent, loose, code, codes, opened, tries, hits, ttl, died, req,
                       shared>>
        /\ active' = ~active
    BY <1>5 DEF SwitchActive, otp, limiter
  <2>2. active' \in BOOLEAN
    BY <2>1
  <2>3. TypeOK'
    BY <1>1, <2>1, <2>2 DEF TypeOK
  <2>4. TokenSide' /\ UsedOnce' /\ LimiterRecovers' /\ CodeSide'
    BY <1>1, <2>1, TokensStay, UsedStays, LimitStays, CodesStay
  <2> QED
    BY <2>3, <2>4, Gathered
<1>6. ASSUME NEW s \in Sessions, SessionOver(s)
      PROVE  IInv'
  <2>1. /\ UNCHANGED <<active, tokens, spent, loose, code, codes, opened, tries, hits, ttl, died, req,
                       shared>>
        /\ session' = [session EXCEPT ![s] = [session[s] EXCEPT !.over = TRUE]]
    BY <1>6 DEF SessionOver, otp, limiter
  <2>2. /\ session' \in [Sessions -> Session]
        /\ \A q \in Sessions : session'[q].token = session[q].token
    BY <1>1, <2>1 DEF TypeOK, Session
  <2>3. TypeOK'
    BY <1>1, <2>1, <2>2 DEF TypeOK
  <2>4. TokenSide' /\ UsedOnce' /\ LimiterRecovers' /\ CodeSide'
    BY <1>1, <2>1, <2>2, TokensStay, UsedStays, LimitStays, CodesStay
  <2> QED
    BY <2>3, <2>4, Gathered
<1>7. ASSUME NEW t \in Tokens, RefreshOff(t)
      PROVE  IInv'
  <2>1. /\ UNCHANGED <<active, spent, code, codes, opened, tries, hits, ttl, died, req, shared>>
        /\ HandOut
    BY <1>7 DEF RefreshOff, otp, limiter
  <2>2. /\ TokenSide' /\ session' = session /\ tokens' \in 0..MaxTokens
        /\ loose' \subseteq Tokens /\ \A u \in loose' : spent'[u] = 0
    BY <1>1, <2>1, HandOutKeeps
  <2>3. TypeOK'
    BY <1>1, <2>1, <2>2 DEF TypeOK
  <2>4. UsedOnce'
    BY <1>1, <2>1, <2>2 DEF UsedOnce
  <2>5. LimiterRecovers' /\ CodeSide'
    BY <1>1, <2>1, LimitStays, CodesStay
  <2> QED
    BY <2>2, <2>3, <2>4, <2>5, Gathered
<1> QED
  BY <1>2, <1>3, <1>4, <1>5, <1>6, <1>7

\* A request that is answered: a login, a wrong code, a refused refresh, a stop.
LEMMA PasswordInv ==
    ASSUME AdmissionConstants, IInv, NEW r \in Requests, PasswordLogin(r)
    PROVE  IInv'
<1>1. /\ TypeOK /\ TokenSide /\ CodeSide /\ UsedOnce /\ LimiterRecovers
      /\ UNCHANGED <<active, spent, code, codes, opened, tries, hits, ttl, died, shared>>
      /\ req[r].pc = "password" /\ req' = [req EXCEPT ![r] = Idle]
  BY DEF IInv, TokenSide, CodeSide, PasswordLogin, Answered, otp, limiter
<1>2. /\ req' \in [Requests -> Req \cup {Idle}] /\ req'[r] = Idle
      /\ \A q \in Requests \ {r} : req'[q] = req[q]
  BY <1>1, Replaced
<1>3. \A q \in Requests : req'[q] # Idle => req'[q] = req[q]
  BY <1>2
<1>4. /\ TokenSide' /\ session' \in [Sessions -> Session] /\ tokens' \in 0..MaxTokens
      /\ loose' = loose
  <2>1. CASE Open
    BY <1>1, <1>2, <2>1, OpenKeeps DEF Idle
  <2>2. CASE UNCHANGED <<session, tokens, loose>>
    BY <1>1, <1>2, <2>2, TokensStay DEF Idle, TypeOK
  <2> QED
    BY <2>1, <2>2 DEF PasswordLogin
<1>5. TypeOK'
  BY <1>1, <1>2, <1>4 DEF TypeOK
<1>6. CodeSide' /\ UsedOnce'
  BY <1>1, <1>2, <1>4, CodesStay, UsedStays DEF Idle
<1>7. LimiterRecovers'
  BY <1>1, <1>2, LimitStays
<1> QED
  BY <1>4, <1>5, <1>6, <1>7, Gathered

LEMMA DieInv ==
    ASSUME AdmissionConstants, IInv, NEW r \in Requests, Die(r)
    PROVE  IInv'
<1>1. /\ TypeOK /\ TokenSide /\ CodeSide /\ UsedOnce /\ LimiterRecovers
      /\ UNCHANGED <<session, active, tokens, spent, loose, code, codes, opened, tries, hits, ttl, shared>>
      /\ req' = [req EXCEPT ![r] = Idle]
      /\ died' = (died \/ req[r].pc = "limit")
  BY DEF IInv, TokenSide, CodeSide, Die, Answered, rows, otp
<1>2. /\ req' \in [Requests -> Req \cup {Idle}] /\ req'[r] = Idle
      /\ \A q \in Requests \ {r} : req'[q] = req[q]
  BY <1>1, Replaced
<1>3. died' \in BOOLEAN
  BY <1>1
<1>4. TypeOK'
  BY <1>1, <1>2, <1>3 DEF TypeOK
<1>5. TokenSide' /\ CodeSide' /\ UsedOnce'
  BY <1>1, <1>2, TokensStay, CodesStay, UsedStays DEF Idle
<1>6. LimiterRecovers'
  BY <1>1, <1>2 DEF LimiterRecovers
<1> QED
  BY <1>4, <1>5, <1>6, Gathered

\* A code is tried and compared.
LEMMA TryInv ==
    ASSUME AdmissionConstants, IInv, NEW r \in Requests,
           (\E c \in Codes : TryCode(r, c)) \/ CompareCode(r)
    PROVE  IInv'
<1>1. TypeOK /\ TokenSide /\ CodeSide /\ UsedOnce /\ LimiterRecovers
  BY DEF IInv, TokenSide, CodeSide
<1>2. ASSUME NEW c \in Codes, TryCode(r, c)
      PROVE  IInv'
  <2> DEFINE rival == \E q \in Requests \ {r} : req[q].pc \in {"code", "match"} /\ req[q].of = c
  <2>1. /\ req[r] = Idle /\ req' = [req EXCEPT ![r] = Asking("code", c)]
        /\ shared' = IF rival THEN shared \cup {<<"code", c>>} ELSE shared
        /\ UNCHANGED <<session, active, tokens, spent, loose, code, codes, opened, tries, hits, ttl, died>>
    BY <1>2 DEF TryCode, rows, otp, limiter
  <2>2. c \in 0..(MaxTokens + MaxCodes) /\ c \in Nat
    BY DEF Codes, AdmissionConstants
  <2>3. Asking("code", c) \in Req /\ Asking("code", c).pc = "code" /\ Asking("code", c).of = c
    BY <2>2, AskingTyped
  <2>4. /\ req' \in [Requests -> Req \cup {Idle}] /\ req'[r].pc = "code" /\ req'[r].of = c
        /\ \A q \in Requests \ {r} : req'[q] = req[q]
    BY <1>1, <2>1, <2>3, Replaced
  <2>5. shared \subseteq shared' /\ (rival => <<"code", c>> \in shared')
        /\ shared' \subseteq {"token", "code"} \X Nat
    BY <1>1, <2>1, <2>2 DEF TypeOK
  <2>6. TypeOK'
    BY <1>1, <2>1, <2>4, <2>5 DEF TypeOK
  <2>7. TokenSide' /\ UsedOnce'
    BY <1>1, <2>1, <2>4, <2>5, TokensStay, UsedStays
  <2>8. CodesGone'
    BY <1>1, <2>1 DEF CodeSide, CodesGone
  <2>9. CodeInHand'
    <3> SUFFICES ASSUME NEW p \in Requests, req'[p].pc \in {"code", "match"}
                 PROVE  /\ req'[p].of \in Codes
                        /\ \A q \in Requests \ {p} :
                              req'[q].pc \in {"code", "match"} /\ req'[q].of = req'[p].of
                              => <<"code", req'[p].of>> \in shared'
                        /\ req'[p].pc = "match" =>
                              /\ req'[p].of <= codes'
                              /\ opened'[req'[p].of] = 0 \/ <<"code", req'[p].of>> \in shared'
      BY DEF CodeInHand
    <3>1. CASE p = r
      BY <2>1, <2>4, <2>5, <3>1
    <3>2. CASE p # r
      <4>1. /\ req'[p] = req[p] /\ req[p].of \in Codes
            /\ \A q \in Requests \ {p} : req[q].pc \in {"code", "match"} /\ req[q].of = req[p].of
                  => <<"code", req[p].of>> \in shared
            /\ req[p].pc = "match" =>
                  /\ req[p].of <= codes
                  /\ opened[req[p].of] = 0 \/ <<"code", req[p].of>> \in shared
        BY <1>1, <2>4, <3>2 DEF CodeSide, CodeInHand
      <4>2. ASSUME NEW q \in Requests \ {p}, req'[q].pc \in {"code", "match"},
                   req'[q].of = req'[p].of
            PROVE  <<"code", req'[p].of>> \in shared'
        <5>1. CASE q = r
          BY <2>4, <2>5, <3>2, <4>1, <4>2, <5>1
        <5>2. CASE q # r
          BY <2>4, <2>5, <4>1, <4>2, <5>2
        <5> QED
          BY <5>1, <5>2
      <4> QED
        BY <2>1, <2>5, <4>1, <4>2
    <3> QED
      BY <3>1, <3>2
  <2>10. LimiterRecovers'
    BY <1>1, <2>1, <2>4, LimitStays DEF Idle
  <2> QED
    BY <2>6, <2>7, <2>8, <2>9, <2>10, Gathered DEF CodeSide
<1>3. CASE CompareCode(r)
  <2> DEFINE right == code = req[r].of
             x == IF right THEN Asking("match", req[r].of) ELSE Idle
  <2>1. /\ req[r].pc = "code" /\ req' = [req EXCEPT ![r] = x]
        /\ tries' \in {tries, tries + 1}
        /\ UNCHANGED <<session, active, tokens, spent, loose, code, codes, opened, hits, ttl, died, shared>>
    BY <1>3 DEF CompareCode, Answered, rows, limiter
  <2>2. req[r] # Idle /\ req[r].of \in 0..(MaxTokens + MaxCodes) /\ code \in Nat /\ codes \in Nat
    BY <1>1, <2>1, ReqTyped DEF Idle, TypeOK
  <2>3. /\ x \in Req \cup {Idle} /\ x.pc \in {"match", "idle"}
        /\ x.pc = "match" => right /\ x.of = req[r].of
    BY <2>2, AskingTyped DEF Idle
  <2> HIDE DEF x
  <2>4. /\ req' \in [Requests -> Req \cup {Idle}] /\ req'[r] = x
        /\ \A q \in Requests \ {r} : req'[q] = req[q]
    BY <1>1, <2>1, <2>3, Replaced
  <2>5. TypeOK'
    BY <1>1, <2>1, <2>4 DEF TypeOK
  <2>6. TokenSide' /\ UsedOnce'
    BY <1>1, <2>1, <2>3, <2>4, TokensStay, UsedStays
  <2>7. CodesGone'
    BY <1>1, <2>1 DEF CodeSide, CodesGone
  <2>8. \A q \in Requests : req'[q].pc \in {"code", "match"} =>
            req[q].pc \in {"code", "match"} /\ req'[q].of = req[q].of
    BY <2>1, <2>3, <2>4
  <2>9. right => req[r].of <= codes /\ opened[req[r].of] = 0
    <3>1. req[r].of \in Codes /\ opened[req[r].of] \in Nat
      BY <1>1, <2>1 DEF CodeSide, CodeInHand, TypeOK
    <3> QED
      BY <1>1, <2>2, <3>1 DEF CodeSide, CodesGone
  <2>10. CodeInHand'
    <3> SUFFICES ASSUME NEW p \in Requests, req'[p].pc \in {"code", "match"}
                 PROVE  /\ req'[p].of \in Codes
                        /\ \A q \in Requests \ {p} :
                              req'[q].pc \in {"code", "match"} /\ req'[q].of = req'[p].of
                              => <<"code", req'[p].of>> \in shared'
                        /\ req'[p].pc = "match" =>
                              /\ req'[p].of <= codes'
                              /\ opened'[req'[p].of] = 0 \/ <<"code", req'[p].of>> \in shared'
      BY DEF CodeInHand
    <3>1. /\ req[p].pc \in {"code", "match"} /\ req'[p].of = req[p].of /\ req[p].of \in Codes
          /\ \A q \in Requests \ {p} : req[q].pc \in {"code", "match"} /\ req[q].of = req[p].of
                => <<"code", req[p].of>> \in shared
      BY <1>1, <2>8 DEF CodeSide, CodeInHand
    <3>2. \A q \in Requests \ {p} : req'[q].pc \in {"code", "match"} /\ req'[q].of = req'[p].of
                => <<"code", req'[p].of>> \in shared'
      BY <2>1, <2>8, <3>1
    <3>3. ASSUME req'[p].pc = "match"
          PROVE  /\ req'[p].of <= codes'
                 /\ opened'[req'[p].of] = 0 \/ <<"code", req'[p].of>> \in shared'
      <4>1. CASE p = r
        BY <2>1, <2>3, <2>4, <2>9, <3>1, <3>3, <4>1
      <4>2. CASE p # r
        BY <1>1, <2>1, <2>4, <3>3, <4>2 DEF CodeSide, CodeInHand
      <4> QED
        BY <4>1, <4>2
    <3> QED
      BY <3>1, <3>2, <3>3
  <2>11. LimiterRecovers'
    BY <1>1, <2>1, <2>4, LimitStays
  <2> QED
    BY <2>5, <2>6, <2>7, <2>10, <2>11, Gathered DEF CodeSide
<1> QED
  BY <1>2, <1>3

\* The code that matched is deleted, and a session opens, or a token goes out without.
LEMMA EnterInv ==
    ASSUME AdmissionConstants, IInv, NEW r \in Requests, EnterWithCode(r)
    PROVE  IInv'
<1>1. /\ TypeOK /\ TokenSide /\ CodeSide /\ UsedOnce /\ LimiterRecovers
      /\ UNCHANGED <<active, spent, codes, tries, hits, ttl, died, shared>>
      /\ req[r].pc = "match" /\ req' = [req EXCEPT ![r] = Idle] /\ code' = 0
  BY DEF IInv, TokenSide, CodeSide, EnterWithCode, Answered, limiter
<1>2. /\ req' \in [Requests -> Req \cup {Idle}] /\ req'[r] = Idle
      /\ \A q \in Requests \ {r} : req'[q] = req[q]
  BY <1>1, Replaced
<1>3. /\ TokenSide' /\ session' \in [Sessions -> Session] /\ tokens' \in 0..MaxTokens
      /\ loose' \subseteq Tokens /\ \A t \in loose' : spent'[t] = 0
  <2>1. CASE Open
    BY <1>1, <1>2, <2>1, OpenKeeps DEF Idle, TypeOK, UsedOnce
  <2>2. CASE HandOut
    BY <1>1, <1>2, <2>2, HandOutKeeps DEF Idle, TypeOK
  <2> QED
    BY <2>1, <2>2 DEF EnterWithCode
<1> DEFINE c == req[r].of
<1>5. /\ c \in Codes /\ c <= codes
      /\ opened[c] = 0 \/ <<"code", c>> \in shared
  BY <1>1 DEF CodeSide, CodeInHand
<1>6. \A q \in Requests \ {r} : req[q].pc \in {"code", "match"} /\ req[q].of = c
          => <<"code", c>> \in shared
  BY <1>1 DEF CodeSide, CodeInHand
<1>7. /\ opened' \in [Codes -> Nat] /\ opened'[c] \in {opened[c], opened[c] + 1}
      /\ \A d \in Codes \ {c} : opened'[d] = opened[d]
  BY <1>1, <1>5 DEF EnterWithCode, TypeOK
<1> HIDE DEF c
<1>8. codes \in Nat /\ code' \in 0..MaxCodes /\ \A d \in Codes : opened[d] \in Nat /\ d > 0
  BY <1>1 DEF TypeOK, AdmissionConstants, Codes
<1>9. TypeOK'
  BY <1>1, <1>2, <1>3, <1>7, <1>8 DEF TypeOK
<1>10. CodesGone'
  BY <1>1, <1>5, <1>7, <1>8 DEF CodeSide, CodesGone
<1>11. CodeInHand'
  <2> SUFFICES ASSUME NEW p \in Requests, req'[p].pc \in {"code", "match"}
               PROVE  /\ req'[p].of \in Codes
                      /\ \A q \in Requests \ {p} :
                            req'[q].pc \in {"code", "match"} /\ req'[q].of = req'[p].of
                            => <<"code", req'[p].of>> \in shared'
                      /\ req'[p].pc = "match" =>
                            /\ req'[p].of <= codes'
                            /\ opened'[req'[p].of] = 0 \/ <<"code", req'[p].of>> \in shared'
    BY DEF CodeInHand
  <2>1. p # r /\ req'[p] = req[p]
    BY <1>2 DEF Idle
  <2>2. /\ req[p].of \in Codes
        /\ \A q \in Requests \ {p} : req[q].pc \in {"code", "match"} /\ req[q].of = req[p].of
              => <<"code", req[p].of>> \in shared
        /\ req[p].pc = "match" =>
              /\ req[p].of <= codes
              /\ opened[req[p].of] = 0 \/ <<"code", req[p].of>> \in shared
    BY <1>1, <2>1 DEF CodeSide, CodeInHand
  <2>3. \A q \in Requests : req'[q].pc \in {"code", "match"} => req'[q] = req[q]
    BY <1>2 DEF Idle
  <2>4. CASE req[p].of = c
    BY <1>1, <1>6, <2>1, <2>2, <2>4
  <2>5. CASE req[p].of # c
    BY <1>1, <1>7, <2>1, <2>2, <2>3, <2>5
  <2> QED
    BY <2>4, <2>5
<1>12. UsedOnce'
  BY <1>1, <1>3, <1>5, <1>7, <1>8 DEF UsedOnce
<1>13. LimiterRecovers'
  BY <1>1, <1>2, LimitStays
<1> QED
  BY <1>3, <1>9, <1>10, <1>11, <1>12, <1>13, Gathered DEF CodeSide

\* A refresh looks its token up; a request that holds the same one is noticed.
LEMMA RefreshReadInv ==
    ASSUME AdmissionConstants, IInv, NEW r \in Requests, NEW t \in Tokens, RefreshRead(r, t)
    PROVE  IInv'
<1> DEFINE s == Found(t)
           x == [pc |-> "refresh", of |-> t, found |-> s,
                 ok |-> s # 0 /\ ~session[s].revoked /\ ~session[s].over]
           rival == \E q \in Requests \ {r} : req[q].pc = "refresh" /\ req[q].of = t
<1>1. /\ TypeOK /\ TokenSide /\ CodeSide /\ UsedOnce /\ LimiterRecovers
      /\ UNCHANGED <<session, active, tokens, spent, loose, code, codes, opened, tries, hits, ttl, died>>
      /\ req[r] = Idle /\ req' = [req EXCEPT ![r] = x]
      /\ shared' = IF rival THEN shared \cup {<<"token", t>>} ELSE shared
  BY DEF IInv, TokenSide, CodeSide, RefreshRead, rows, otp, limiter
<1>2. s # 0 => /\ s \in Sessions /\ session[s].token = t
               /\ \A q \in Sessions \ {s} : session[q].token # t
  BY <1>1, FoundRight DEF TokenSide
<1>3. s \in 0..MaxSessions /\ t \in Nat /\ t \in 0..(MaxTokens + MaxCodes)
  <2>1. t \in Nat /\ t \in 0..(MaxTokens + MaxCodes)
    BY DEF Tokens, AdmissionConstants
  <2>2. s = 0 => s \in 0..MaxSessions
    BY DEF AdmissionConstants
  <2>3. s # 0 => s \in 0..MaxSessions
    BY <1>2 DEF Sessions, AdmissionConstants
  <2> QED
    BY <2>1, <2>2, <2>3
<1>4. /\ x \in Req /\ x.pc = "refresh" /\ x.of = t /\ x.found = s
      /\ x.ok => s # 0
  <2>1. x.ok \in BOOLEAN
    OBVIOUS
  <2> QED
    BY <1>3, <2>1 DEF Req
<1> HIDE DEF x, s
<1>5. /\ req' \in [Requests -> Req \cup {Idle}] /\ req'[r] = x
      /\ \A q \in Requests \ {r} : req'[q] = req[q]
  BY <1>1, <1>4, Replaced
<1>6. shared \subseteq shared' /\ (rival => <<"token", t>> \in shared')
      /\ shared' \subseteq {"token", "code"} \X Nat
  BY <1>1, <1>3 DEF TypeOK
<1>7. TypeOK'
  BY <1>1, <1>5, <1>6 DEF TypeOK
<1>8. TokensOwn' /\ TokensGone'
  BY <1>1 DEF TokenSide, TokensOwn, TokensGone, Exists
<1>9. LogoutInHand' /\ LooseOut'
  <2>1. s # 0 => t \notin loose
    BY <1>1, <1>2 DEF TokenSide, LooseOut
  <2> QED
    BY <1>1, <1>4, <1>5, <2>1 DEF TokenSide, LogoutInHand, LooseOut
<1>10. TokenInHand'
  <2> SUFFICES ASSUME NEW p \in Requests, req'[p].pc = "refresh"
               PROVE  /\ \A q \in Requests \ {p} : req'[q].pc = "refresh" /\ req'[q].of = req'[p].of
                            => <<"token", req'[p].of>> \in shared'
                      /\ req'[p].ok =>
                            /\ req'[p].of \in Tokens /\ req'[p].found \in Sessions
                            /\ req'[p].of <= tokens'
                            /\ \A q \in Sessions \ {req'[p].found} : session'[q].token # req'[p].of
                            /\ spent'[req'[p].of] = 0 \/ <<"token", req'[p].of>> \in shared'
    BY DEF TokenInHand
  <2>1. CASE p = r
    <3>1. \A q \in Requests \ {p} : req'[q].pc = "refresh" /\ req'[q].of = req'[p].of
            => <<"token", req'[p].of>> \in shared'
      BY <1>4, <1>5, <1>6, <2>1
    <3>2. ASSUME req'[p].ok
          PROVE  /\ t \in Tokens /\ s \in Sessions /\ t <= tokens
                 /\ \A q \in Sessions \ {s} : session[q].token # t
                 /\ spent[t] = 0
      <4>1. s \in Sessions /\ session[s].token = t /\ \A q \in Sessions \ {s} : session[q].token # t
        BY <1>2, <1>4, <1>5, <2>1, <3>2
      <4>2. t <= tokens
        BY <1>1, <4>1 DEF TokenSide, TokensOwn
      <4>3. spent[t] \in Nat /\ ~(spent[t] > 0)
        BY <1>1, <4>1 DEF TokenSide, TokensGone, TypeOK
      <4> QED
        BY <4>1, <4>2, <4>3
    <3> QED
      BY <1>1, <1>4, <1>5, <2>1, <3>1, <3>2
  <2>2. CASE p # r
    <3>1. req'[p] = req[p] /\ req[p].pc = "refresh"
      BY <1>5, <2>2
    <3>2. /\ \A q \in Requests \ {p} : req[q].pc = "refresh" /\ req[q].of = req[p].of
              => <<"token", req[p].of>> \in shared
          /\ req[p].ok =>
              /\ req[p].of \in Tokens /\ req[p].found \in Sessions /\ req[p].of <= tokens
              /\ \A q \in Sessions \ {req[p].found} : session[q].token # req[p].of
              /\ spent[req[p].of] = 0 \/ <<"token", req[p].of>> \in shared
      BY <1>1, <3>1 DEF TokenSide, TokenInHand
    <3>3. ASSUME NEW q \in Requests \ {p}, req'[q].pc = "refresh", req'[q].of = req'[p].of
          PROVE  <<"token", req'[p].of>> \in shared'
      <4>1. CASE q = r
        BY <1>4, <1>5, <1>6, <2>2, <3>1, <3>3, <4>1
      <4>2. CASE q # r
        BY <1>5, <1>6, <3>1, <3>2, <3>3, <4>2
      <4> QED
        BY <4>1, <4>2
    <3> QED
      BY <1>1, <1>6, <3>1, <3>2, <3>3
  <2> QED
    BY <2>1, <2>2
<1>11. CodeSide' /\ UsedOnce'
  <2>1. \A q \in Requests : req'[q].pc \in {"code", "match"} => req'[q] = req[q]
    BY <1>4, <1>5
  <2>2. code' \in {code, 0}
    BY <1>1
  <2> QED
    BY <1>1, <1>6, <2>1, <2>2, CodesStay, UsedStays
<1>12. LimiterRecovers'
  <2>1. \A q \in Requests : req[q].pc = "limit" => req'[q].pc = "limit"
    BY <1>1, <1>5 DEF Idle
  <2> QED
    BY <1>1, <2>1, LimitStays
<1> QED
  BY <1>7, <1>8, <1>9, <1>10, <1>11, <1>12, Gathered DEF TokenSide

\* The session gets the next token, and the one that was traded is gone.
LEMMA RefreshWriteInv ==
    ASSUME AdmissionConstants, IInv, NEW r \in Requests, RefreshWrite(r)
    PROVE  IInv'
<1>1. /\ TypeOK /\ TokenSide /\ CodeSide /\ UsedOnce /\ LimiterRecovers
      /\ UNCHANGED <<active, loose, code, codes, opened, tries, hits, ttl, died, shared>>
      /\ req[r].pc = "refresh" /\ req' = [req EXCEPT ![r] = Idle]
  BY DEF IInv, TokenSide, CodeSide, RefreshWrite, Answered, otp, limiter
<1>2. /\ req' \in [Requests -> Req \cup {Idle}] /\ req'[r] = Idle
      /\ \A q \in Requests \ {r} : req'[q] = req[q]
  BY <1>1, Replaced
<1>3. CodeSide' /\ LimiterRecovers'
  BY <1>1, <1>2, CodesStay, LimitStays DEF Idle
<1>4. CASE ~req[r].ok
  <2>1. UNCHANGED <<session, tokens, spent>>
    BY <1>4 DEF RefreshWrite
  <2>2. TypeOK'
    BY <1>1, <1>2, <2>1 DEF TypeOK
  <2>3. TokenSide' /\ UsedOnce'
    BY <1>1, <1>2, <2>1, TokensStay, UsedStays DEF Idle
  <2> QED
    BY <1>3, <2>2, <2>3, Gathered
<1>5. CASE req[r].ok
  <2> DEFINE t == req[r].of
             s == req[r].found
             new == [session[s] EXCEPT !.token = tokens + 1]
  <2>1. /\ tokens < MaxTokens /\ tokens' = tokens + 1
        /\ session' = [session EXCEPT ![s] = new]
        /\ spent' = [spent EXCEPT ![t] = spent[t] + 1]
    BY <1>5 DEF RefreshWrite
  <2>2. /\ t \in Tokens /\ s \in Sessions /\ t <= tokens
        /\ \A q \in Sessions \ {s} : session[q].token # t
        /\ spent[t] = 0 \/ <<"token", t>> \in shared
    BY <1>1, <1>5 DEF TokenSide, TokenInHand
  <2>3. \A q \in Requests \ {r} : req[q].pc = "refresh" /\ req[q].of = t
            => <<"token", t>> \in shared
    BY <1>1 DEF TokenSide, TokenInHand
  <2>4. tokens \in Nat /\ tokens' \in 0..MaxTokens /\ t \in Nat /\ t > 0
    <3>1. tokens \in 0..MaxTokens /\ MaxTokens \in Nat
      BY <1>1 DEF TypeOK, AdmissionConstants
    <3>2. t \in Nat /\ t > 0
      BY <2>2, <3>1 DEF Tokens
    <3> QED
      BY <2>1, <3>1, <3>2
  <2>5. new \in Session /\ new.token = tokens + 1
    <3>1. session[s] \in Session
      BY <1>1, <2>2, SessionTyped
    <3> QED
      BY <2>1, <2>4, <3>1 DEF Session
  <2> HIDE DEF new, s, t
  <2>6. /\ session' \in [Sessions -> Session] /\ session'[s] = new
        /\ \A q \in Sessions \ {s} : session'[q] = session[q]
    BY <1>1, <2>1, <2>2, <2>5 DEF TypeOK
  <2>7. /\ spent' \in [Tokens -> Nat] /\ spent'[t] = spent[t] + 1 /\ spent[t] \in Nat
        /\ \A u \in Tokens \ {t} : spent'[u] = spent[u]
    BY <1>1, <2>1, <2>2 DEF TypeOK
  <2>8. TypeOK'
    BY <1>1, <1>2, <2>4, <2>6, <2>7 DEF TypeOK
  <2>9. \A q \in Sessions : session[q].token \in Nat /\ session[q].token <= tokens
    BY <1>1, SessionTyped DEF TokenSide, TokensOwn
  <2>10. TokensOwn'
    BY <1>1, <2>1, <2>4, <2>5, <2>6, <2>9 DEF TokenSide, TokensOwn, Exists
  <2>11. TokensGone'
    <3> SUFFICES ASSUME NEW u \in Tokens, spent'[u] > 0
                 PROVE  u <= tokens' /\ \A q \in Sessions : session'[q].token # u
      BY DEF TokensGone
    <3>1. u \in Nat
      BY DEF Tokens
    <3>2. u <= tokens /\ \A q \in Sessions \ {s} : session[q].token # u
      <4>1. CASE u = t
        BY <2>2, <4>1
      <4>2. CASE u # t
        BY <1>1, <2>7, <4>2 DEF TokenSide, TokensGone
      <4> QED
        BY <4>1, <4>2
    <3> QED
      BY <2>1, <2>4, <2>5, <2>6, <3>1, <3>2
  <2>12. LogoutInHand'
    BY <1>1, <1>2 DEF TokenSide, LogoutInHand, Idle
  <2>13. TokenInHand'
    <3> SUFFICES ASSUME NEW p \in Requests, req'[p].pc = "refresh"
                 PROVE  /\ \A q \in Requests \ {p} :
                              req'[q].pc = "refresh" /\ req'[q].of = req'[p].of
                              => <<"token", req'[p].of>> \in shared'
                        /\ req'[p].ok =>
                              /\ req'[p].of \in Tokens /\ req'[p].found \in Sessions
                              /\ req'[p].of <= tokens'
                              /\ \A q \in Sessions \ {req'[p].found} :
                                    session'[q].token # req'[p].of
                              /\ spent'[req'[p].of] = 0 \/ <<"token", req'[p].of>> \in shared'
      BY DEF TokenInHand
    <3>1. p # r /\ req'[p] = req[p] /\ req[p].pc = "refresh"
      BY <1>2 DEF Idle
    <3>2. /\ \A q \in Requests \ {p} : req[q].pc = "refresh" /\ req[q].of = req[p].of
              => <<"token", req[p].of>> \in shared
          /\ req[p].ok =>
              /\ req[p].of \in Tokens /\ req[p].found \in Sessions /\ req[p].of <= tokens
              /\ \A q \in Sessions \ {req[p].found} : session[q].token # req[p].of
              /\ spent[req[p].of] = 0 \/ <<"token", req[p].of>> \in shared
      BY <1>1, <3>1 DEF TokenSide, TokenInHand
    <3>3. \A q \in Requests \ {p} : req'[q].pc = "refresh" /\ req'[q].of = req'[p].of
              => <<"token", req'[p].of>> \in shared'
      <4>1. \A q \in Requests : req'[q].pc = "refresh" => req'[q] = req[q]
        BY <1>2 DEF Idle
      <4> QED
        BY <1>1, <3>1, <3>2, <4>1
    <3>4. ASSUME req'[p].ok
          PROVE  /\ req[p].of <= tokens'
                 /\ \A q \in Sessions \ {req[p].found} : session'[q].token # req[p].of
                 /\ spent'[req[p].of] = 0 \/ <<"token", req[p].of>> \in shared
      <4>1. req[p].of \in Nat /\ req[p].of <= tokens /\ req[p].of \in Tokens
        BY <3>1, <3>2, <3>4 DEF Tokens
      <4>2. \A q \in Sessions \ {req[p].found} : session'[q].token # req[p].of
        BY <2>4, <2>5, <2>6, <3>1, <3>2, <3>4, <4>1
      <4>3. spent'[req[p].of] = 0 \/ <<"token", req[p].of>> \in shared
        BY <2>3, <2>7, <3>1, <3>2, <3>4, <4>1
      <4> QED
        BY <2>1, <2>4, <4>1, <4>2, <4>3
    <3> QED
      BY <1>1, <3>1, <3>2, <3>3, <3>4
  <2>14. LooseOut'
    <3> SUFFICES ASSUME NEW u \in loose
                 PROVE  /\ u <= tokens' /\ spent'[u] = 0
                        /\ \A q \in Sessions : session'[q].token # u
                        /\ \A p \in Requests : req'[p].pc = "refresh" /\ req'[p].ok
                                               => req'[p].of # u
      BY <1>1 DEF LooseOut
    <3>1. u \in Nat /\ u \in Tokens
      BY <1>1 DEF TypeOK, Tokens
    <3>2. /\ u <= tokens /\ spent[u] = 0 /\ \A q \in Sessions : session[q].token # u
          /\ \A p \in Requests : req[p].pc = "refresh" /\ req[p].ok => req[p].of # u
      BY <1>1 DEF TokenSide, LooseOut
    <3>3. t # u
      BY <1>1, <1>5, <3>2 DEF t
    <3>4. u <= tokens' /\ spent'[u] = 0
      BY <2>1, <2>4, <2>7, <3>1, <3>2, <3>3
    <3>5. \A q \in Sessions : session'[q].token # u
      BY <2>4, <2>5, <2>6, <3>1, <3>2
    <3>6. \A p \in Requests : req'[p].pc = "refresh" /\ req'[p].ok => req'[p].of # u
      BY <1>2, <3>2 DEF Idle
    <3> QED
      BY <3>4, <3>5, <3>6
  <2>15. UsedOnce'
    <3>1. \A u \in loose' : spent'[u] = 0
      BY <2>14 DEF LooseOut
    <3> QED
      BY <1>1, <2>2, <2>7, <3>1 DEF UsedOnce
  <2> QED
    BY <1>3, <2>8, <2>10, <2>11, <2>12, <2>13, <2>14, <2>15, Gathered DEF TokenSide
<1>6. req[r].ok \in BOOLEAN
  BY <1>1, ReqTyped DEF Idle
<1> QED
  BY <1>4, <1>5

\* A logout finds its session, and revokes it.
LEMMA LogoutInv ==
    ASSUME AdmissionConstants, IInv, NEW r \in Requests,
           (\E t \in Tokens : LogoutRead(r, t)) \/ LogoutWrite(r)
    PROVE  IInv'
<1>1. TypeOK /\ TokenSide /\ CodeSide /\ UsedOnce /\ LimiterRecovers
  BY DEF IInv, TokenSide, CodeSide
<1>2. ASSUME NEW t \in Tokens, LogoutRead(r, t)
      PROVE  IInv'
  <2> DEFINE x == [pc |-> "logout", of |-> t, found |-> Found(t), ok |-> TRUE]
  <2>1. /\ req[r] = Idle /\ Found(t) # 0 /\ req' = [req EXCEPT ![r] = x]
        /\ UNCHANGED <<session, active, tokens, spent, loose, code, codes, opened, tries, hits, ttl, died,
                       shared>>
    BY <1>2 DEF LogoutRead, rows, otp, limiter
  <2>2. Found(t) \in Sessions
    BY <1>1, <2>1, FoundRight DEF TokenSide
  <2>3. Found(t) \in 0..MaxSessions /\ t \in 0..(MaxTokens + MaxCodes)
    BY <2>2 DEF Sessions, Tokens, AdmissionConstants
  <2>4. x \in Req /\ x.pc = "logout" /\ x.found = Found(t)
    BY <2>3 DEF Req
  <2> HIDE DEF x
  <2>5. /\ req' \in [Requests -> Req \cup {Idle}] /\ req'[r] = x
        /\ \A q \in Requests \ {r} : req'[q] = req[q]
    BY <1>1, <2>1, <2>4, Replaced
  <2>6. TypeOK'
    BY <1>1, <2>1, <2>5 DEF TypeOK
  <2>7. TokensOwn' /\ TokensGone'
    BY <1>1, <2>1 DEF TokenSide, TokensOwn, TokensGone, Exists
  <2>8. TokenInHand'
    <3>1. \A q \in Requests : req'[q].pc = "refresh" => req'[q] = req[q]
      BY <2>4, <2>5
    <3> QED
      BY <1>1, <2>1, <3>1 DEF TokenSide, TokenInHand
  <2>9. LogoutInHand' /\ LooseOut'
    BY <1>1, <2>1, <2>2, <2>4, <2>5 DEF TokenSide, LogoutInHand, LooseOut
  <2>10. CodeSide' /\ UsedOnce'
    BY <1>1, <2>1, <2>4, <2>5, CodesStay, UsedStays
  <2>11. LimiterRecovers'
    BY <1>1, <2>1, <2>5, LimitStays DEF Idle
  <2> QED
    BY <2>6, <2>7, <2>8, <2>9, <2>10, <2>11, Gathered DEF TokenSide
<1>3. CASE LogoutWrite(r)
  <2> DEFINE s == req[r].found
  <2>1. /\ req[r].pc = "logout" /\ req' = [req EXCEPT ![r] = Idle]
        /\ session' = [session EXCEPT ![s] = [session[s] EXCEPT !.revoked = TRUE]]
        /\ UNCHANGED <<active, tokens, spent, loose, code, codes, opened, tries, hits, ttl, died, shared>>
    BY <1>3 DEF LogoutWrite, Answered, otp, limiter
  <2>2. s \in Sessions
    BY <1>1, <2>1 DEF TokenSide, LogoutInHand
  <2> HIDE DEF s
  <2>3. /\ session' \in [Sessions -> Session]
        /\ \A q \in Sessions : session'[q].token = session[q].token
    BY <1>1, <2>1, <2>2 DEF TypeOK, Session
  <2>4. /\ req' \in [Requests -> Req \cup {Idle}] /\ req'[r] = Idle
        /\ \A q \in Requests \ {r} : req'[q] = req[q]
    BY <1>1, <2>1, Replaced
  <2>5. TypeOK'
    BY <1>1, <2>1, <2>3, <2>4 DEF TypeOK
  <2>6. TokenSide' /\ CodeSide' /\ UsedOnce'
    BY <1>1, <2>1, <2>3, <2>4, TokensStay, CodesStay, UsedStays DEF Idle
  <2>7. LimiterRecovers'
    BY <1>1, <2>1, <2>4, LimitStays
  <2> QED
    BY <2>5, <2>6, <2>7, Gathered
<1> QED
  BY <1>2, <1>3

LEMMA NextInv == ASSUME AdmissionConstants, IInv, [Next]_vars PROVE IInv'
<1>1. ASSUME NEW r \in Requests, Request(r) PROVE IInv'
  BY <1>1, LimitInv, PasswordInv, TryInv, EnterInv, RefreshReadInv, RefreshWriteInv, LogoutInv,
     DieInv DEF Request
<1>2. CASE \/ Window \/ IssueCode \/ ForgetCode \/ SwitchActive
           \/ \E s \in Sessions : SessionOver(s)
           \/ \E t \in Tokens : RefreshOff(t)
  BY <1>2, AroundInv
<1>3. CASE UNCHANGED vars
  BY <1>3 DEF vars, IInv, TypeOK, TokensOwn, TokensGone, LooseOut, TokenInHand, CodesGone,
     CodeInHand, LogoutInHand, UsedOnce, LimiterRecovers, Exists
<1> QED
  BY <1>1, <1>2, <1>3 DEF Next

-----------------------------------------------------------------------------
(* Theorems                                                                *)

\* Tokens, codes and limits keep to the invariant, whatever requests do at once.
THEOREM Invariant == ASSUME AdmissionConstants PROVE Spec => []IInv
<1>1. Init => IInv
  BY InitInv
<1>2. IInv /\ [Next]_vars => IInv'
  BY NextInv
<1> QED
  BY <1>1, <1>2, PTL DEF Spec

\* Every row, counter and request is of its type.
THEOREM TypeCorrect == ASSUME AdmissionConstants PROVE Spec => []TypeOK
<1>1. IInv => TypeOK
  BY DEF IInv
<1> QED
  BY <1>1, Invariant, PTL

\* A session grants a refresh token one trade, a token made without a session is
\* never good for one, and a one-time code serves once, unless two requests had read
\* the token or code before either wrote (refresh_tokens, verify_otp).
THEOREM TradedOnce == ASSUME AdmissionConstants PROVE Spec => []UsedOnce
<1>1. IInv => UsedOnce
  BY DEF IInv
<1> QED
  BY <1>1, Invariant, PTL

\* A rate limit that counts has an expiry, or a request that will set it, or a
\* process died in between.
THEOREM LimitEnds == ASSUME AdmissionConstants PROVE Spec => []LimiterRecovers
<1>1. IInv => LimiterRecovers
  BY DEF IInv
<1> QED
  BY <1>1, Invariant, PTL

-----------------------------------------------------------------------------
(***************************************************************************)
(* The invitations of Referrals                                            *)
(***************************************************************************)

-----------------------------------------------------------------------------
(* The inductive invariant                                                 *)

\* A row that counts, or may come to count, is somebody else's invitation.
NoSelf ==
    \A r \in Rows : ref[r].is \in {"pending_onboarding", "valid"} => ref[r].to # ref[r].link[1]

\* A session adds and marks rows of its own player.
OwnPlayer ==
    \A h \in Updates : tx[h] # Invites!Idle =>
        /\ tx[h].adds # Invites!NoRow =>
              /\ tx[h].adds.to = tx[h].of
              /\ tx[h].adds.is # "valid"
              /\ tx[h].adds.is = "pending_onboarding" => tx[h].adds.link[1] # tx[h].of
        /\ tx[h].at # "passed" => tx[h].marks = {}
        /\ "own" \in tx[h].marks => tx[h].adds.is = "pending_onboarding"
        /\ \A r \in Rows \cap tx[h].marks :
              ref[r].to = tx[h].of /\ ref[r].is \in {"pending_onboarding", "valid"}

\* Two sessions of one player have been noticed; what a session that is alone has
\* read still holds.
AloneOrRaced ==
    /\ \A g, h \in Updates :
          g # h /\ Invites!Connected(g) /\ Invites!Connected(h) /\ tx[g].of = tx[h].of => tx[h].of \in raced
    /\ \A h \in Updates : Invites!Connected(h) /\ tx[h].of \notin raced =>
          /\ \A r \in Rows \cap tx[h].marks : ref[r].is = "pending_onboarding"
          /\ tx[h].adds.is = "pending_onboarding" => ~Invites!Taken(tx[h].of, tx[h].adds.link[2])

\* One row per player and custom; without a custom one that may count, unless two
\* sessions raced.
KeysHeld ==
    \A r, q \in Rows :
        (r # q /\ ref[r] # Invites!NoRow /\ ref[q] # Invites!NoRow /\ ref[r].to = ref[q].to
           /\ ref[r].link[2] = ref[q].link[2])
        => /\ ref[r].link[2] = Global
           /\ \/ ref[r].is = "self_referral" \/ ref[q].is = "self_referral"
              \/ ref[r].to \in raced

\* The counter of a link.
CountHeld(l) ==
    /\ count[l] >= Cardinality(Invites!Invited(l))
    /\ (\A r \in Invites!Invited(l) : ref[r].to \notin raced) => count[l] = Cardinality(Invites!Invited(l))

InviteIInv ==
    /\ Invites!TypeOK /\ NoSelf /\ OwnPlayer /\ AloneOrRaced /\ KeysHeld
    /\ \A l \in Invites!Links : CountHeld(l)

-----------------------------------------------------------------------------
(* Types                                                                   *)

\* The instance has the operators of FiniteSets under its own name.
LEMMA SameFinite == ASSUME NEW S PROVE Invites!IsFiniteSet(S) <=> IsFiniteSet(S)
  BY DEF Invites!IsFiniteSet, IsFiniteSet

LEMMA SameSize == ASSUME NEW S PROVE Invites!Cardinality(S) = Cardinality(S)
  BY DEF Invites!Cardinality, Cardinality

LEMMA SessionFields ==
    ASSUME Invites!TypeOK, NEW h \in Updates
    PROVE  /\ tx[h] \in Invites!Tx /\ Invites!Idle.at = "idle"
           /\ tx[h] # Invites!Idle <=> tx[h].at \in {"loaded", "open", "passed"}
           /\ Invites!Connected(h) => tx[h] # Invites!Idle
           /\ tx[h] # Invites!Idle => /\ tx[h].of \in Users /\ tx[h].link \in Invites!Links \cup {Invites!NoRow.link}
                              /\ tx[h].adds \in Invites!Row \cup {Invites!NoRow}
                              /\ tx[h].marks \subseteq Rows \cup {"own"}
                              /\ tx[h].in \in Processes
                              /\ tx[h].accepts \in BOOLEAN /\ tx[h].onboarded \in BOOLEAN
<1>1. tx[h] \in Invites!Tx
  BY DEF Invites!TypeOK
<1>2. Invites!Idle.at = "idle"
  BY DEF Invites!Idle
<1>3. CASE tx[h] = Invites!Idle
  BY <1>1, <1>2, <1>3 DEF Invites!Connected
<1>4. CASE tx[h] # Invites!Idle
  <2>1. tx[h] \in [at : {"loaded", "open", "passed"}, in : Processes, of : Users,
                   accepts : BOOLEAN, onboarded : BOOLEAN, link : Invites!Links \cup {Invites!NoRow.link},
                   adds : Invites!Row \cup {Invites!NoRow}, marks : SUBSET (Rows \cup {"own"})]
    BY <1>1, <1>4 DEF Invites!Tx
  <2> QED
    BY <1>1, <1>2, <1>4, <2>1 DEF Invites!Connected
<1> QED
  BY <1>3, <1>4

LEMMA RowFields ==
    /\ Invites!NoRow.is = "none" /\ Invites!NoRow.to = Nobody /\ Invites!NoRow \notin Invites!Row
    /\ \A x \in Invites!Row : /\ x.link \in Invites!Links /\ x.to \in Users /\ x # Invites!NoRow
                      /\ x.is \in {"self_referral", "pending_onboarding", "valid"}
<1>1. Invites!NoRow.is = "none" /\ Invites!NoRow.to = Nobody
  BY DEF Invites!NoRow
<1>2. \A x \in Invites!Row : /\ x.link \in Invites!Links /\ x.to \in Users
                     /\ x.is \in {"self_referral", "pending_onboarding", "valid"}
  BY DEF Invites!Row
<1> QED
  BY <1>1, <1>2

LEMMA InviteInitInv == ASSUME Invites!ReferralConstants, Invites!Init PROVE InviteIInv
<1>1. Invites!TypeOK
  <2>1. tx \in [Updates -> Invites!Tx] /\ ref \in [Rows -> Invites!Row \cup {Invites!NoRow}]
    BY DEF Invites!Init, Invites!Tx
  <2> QED
    BY <2>1 DEF Invites!Init, Invites!TypeOK
<1>2. \A r \in Rows : ref[r] = Invites!NoRow /\ ref[r].is = "none"
  BY RowFields DEF Invites!Init
<1>3. \A h \in Updates : tx[h] = Invites!Idle /\ ~Invites!Connected(h)
  BY DEF Invites!Init, Invites!Idle, Invites!Connected
<1>4. \A l \in Invites!Links : CountHeld(l)
  <2>1. SUFFICES ASSUME NEW l \in Invites!Links PROVE CountHeld(l)
    OBVIOUS
  <2>2. Invites!Invited(l) = {} /\ count[l] = 0
    BY <1>2 DEF Invites!Invited, Invites!Init
  <2> QED
    BY <2>2, FS_EmptySet DEF CountHeld
<1>5. NoSelf /\ OwnPlayer /\ KeysHeld
  BY <1>2, <1>3 DEF NoSelf, OwnPlayer, KeysHeld
<1>6. AloneOrRaced
  BY <1>3 DEF AloneOrRaced
<1> QED
  BY <1>1, <1>4, <1>5, <1>6 DEF InviteIInv

-----------------------------------------------------------------------------
(* The steps                                                               *)

\* Where no row, counter or race changes, the counters hold.
LEMMA CountsKept ==
    ASSUME \A l \in Invites!Links : CountHeld(l), UNCHANGED <<ref, count>>, raced \subseteq raced'
    PROVE  \A l \in Invites!Links : CountHeld(l)'
<1>1. SUFFICES ASSUME NEW l \in Invites!Links PROVE CountHeld(l)'
  OBVIOUS
<1>2. Invites!Invited(l)' = Invites!Invited(l)
  BY DEF Invites!Invited
<1> QED
  BY <1>2 DEF CountHeld

\* Where no row changes and races are only added, the keys hold.
LEMMA RowsKept ==
    ASSUME NoSelf, KeysHeld, UNCHANGED ref, raced \subseteq raced' PROVE NoSelf' /\ KeysHeld'
<1>1. NoSelf'
  BY DEF NoSelf
<1>2. KeysHeld'
  BY DEF KeysHeld
<1> QED
  BY <1>1, <1>2

LEMMA GetLinkInv ==
    ASSUME InviteIInv, NEW l \in Invites!Links, Invites!GetLink(l)
    PROVE  InviteIInv'
<1>1. /\ links' = links \cup {l} /\ UNCHANGED <<count, ref, accepted, onboarded, tx, raced>>
      /\ Invites!TypeOK /\ NoSelf /\ KeysHeld /\ OwnPlayer /\ AloneOrRaced /\ \A m \in Invites!Links : CountHeld(m)
  BY DEF Invites!GetLink, InviteIInv
<1>2. Invites!TypeOK'
  BY <1>1 DEF Invites!TypeOK
<1>3. NoSelf' /\ KeysHeld' /\ \A m \in Invites!Links : CountHeld(m)'
  BY <1>1, RowsKept, CountsKept
<1>4. OwnPlayer' /\ AloneOrRaced'
  BY <1>1 DEF OwnPlayer, AloneOrRaced, Invites!Connected, Invites!Taken
<1> QED
  BY <1>2, <1>3, <1>4 DEF InviteIInv

\* One session becomes idle, or one that has read nothing yet.
LEMMA NotConnectedInv ==
    ASSUME InviteIInv, NEW h \in Updates, NEW x \in Invites!Tx, tx' = [tx EXCEPT ![h] = x],
           x = Invites!Idle \/ (x.at = "loaded" /\ x.adds = Invites!NoRow /\ x.marks = {}),
           UNCHANGED <<Invites!tables, raced>>
    PROVE  InviteIInv'
<1>1. /\ Invites!TypeOK /\ NoSelf /\ KeysHeld /\ OwnPlayer /\ AloneOrRaced
      /\ \A m \in Invites!Links : CountHeld(m)
      /\ UNCHANGED <<links, count, ref, accepted, onboarded, raced>>
  BY DEF InviteIInv, Invites!tables
<1>2. tx' \in [Updates -> Invites!Tx] /\ tx'[h] = x /\ \A g \in Updates : g # h => tx'[g] = tx[g]
  BY <1>1 DEF Invites!TypeOK
<1>3. Invites!TypeOK'
  BY <1>1, <1>2 DEF Invites!TypeOK
<1>4. NoSelf' /\ KeysHeld' /\ \A m \in Invites!Links : CountHeld(m)'
  BY <1>1, RowsKept, CountsKept
<1>5. \A g \in Updates : Invites!Connected(g)' => g # h /\ Invites!Connected(g)
  BY <1>2 DEF Invites!Connected, Invites!Idle
<1>6. OwnPlayer'
  BY <1>1, <1>2, RowFields DEF OwnPlayer
<1>7. AloneOrRaced'
  BY <1>1, <1>2, <1>5 DEF AloneOrRaced, Invites!Taken
<1> QED
  BY <1>3, <1>4, <1>6, <1>7 DEF InviteIInv

LEMMA LoadInv ==
    ASSUME InviteIInv, NEW h \in Updates, NEW p \in Processes, NEW u \in Users,
           NEW accepts \in BOOLEAN, NEW l \in Invites!Links \cup {Invites!NoRow.link}, Invites!Load(h, p, u, accepts, l)
    PROVE  InviteIInv'
<1> DEFINE x == [at |-> "loaded", in |-> p, of |-> u, accepts |-> accepts \/ u \in accepted,
                 onboarded |-> u \in onboarded, link |-> l, adds |-> Invites!NoRow, marks |-> {}]
<1>1. x \in Invites!Tx
  <2>1. (accepts \/ u \in accepted) \in BOOLEAN /\ (u \in onboarded) \in BOOLEAN
    OBVIOUS
  <2> QED
    BY <2>1 DEF Invites!Tx
<1>2. /\ tx' = [tx EXCEPT ![h] = x] /\ UNCHANGED <<Invites!tables, raced>>
      /\ x.at = "loaded" /\ x.adds = Invites!NoRow /\ x.marks = {}
  BY DEF Invites!Load
<1> QED
  BY <1>1, <1>2, NotConnectedInv

LEMMA RollbackInv == ASSUME InviteIInv, NEW h \in Updates, Invites!Rollback(h) PROVE InviteIInv'
<1>1. Invites!Idle \in Invites!Tx
  BY DEF Invites!Tx
<1> QED
  BY <1>1, NotConnectedInv DEF Invites!Rollback

LEMMA OpenInv == ASSUME InviteIInv, NEW h \in Updates, Invites!Open(h) PROVE InviteIInv'
<1> DEFINE new == Invites!Invitation(tx[h].of, tx[h].link)
           x   == [tx[h] EXCEPT !.at = "open", !.adds = new]
<1>1. /\ Invites!TypeOK /\ NoSelf /\ KeysHeld /\ OwnPlayer /\ AloneOrRaced
      /\ \A m \in Invites!Links : CountHeld(m)
      /\ UNCHANGED <<links, count, ref, accepted, onboarded>>
      /\ tx[h].at = "loaded" /\ tx[h] # Invites!Idle /\ tx[h] \in Invites!Tx /\ tx[h].of \in Users
      /\ tx[h].marks = {}
  BY SessionFields DEF InviteIInv, Invites!tables, Invites!Open, OwnPlayer
<1>2. /\ new \in Invites!Row \cup {Invites!NoRow}
      /\ new # Invites!NoRow =>
            /\ new.to = tx[h].of /\ new.is \in {"self_referral", "pending_onboarding"}
            /\ new.is = "pending_onboarding" =>
                  new.link[1] # tx[h].of /\ ~Invites!Taken(tx[h].of, new.link[2])
  <2>1. links \subseteq Invites!Links
    BY <1>1 DEF Invites!TypeOK
  <2> QED
    BY <1>1, <2>1 DEF Invites!Invitation, Invites!Row
<1>3. /\ x \in Invites!Tx /\ x.at = "open" /\ x.adds = new /\ x.of = tx[h].of /\ x.marks = {}
      /\ x # Invites!Idle
  <2>1. tx[h] \in [at : {"loaded", "open", "passed"}, in : Processes, of : Users,
                   accepts : BOOLEAN, onboarded : BOOLEAN, link : Invites!Links \cup {Invites!NoRow.link},
                   adds : Invites!Row \cup {Invites!NoRow}, marks : SUBSET (Rows \cup {"own"})]
    BY <1>1 DEF Invites!Tx
  <2> HIDE DEF new
  <2>2. x \in [at : {"loaded", "open", "passed"}, in : Processes, of : Users,
               accepts : BOOLEAN, onboarded : BOOLEAN, link : Invites!Links \cup {Invites!NoRow.link},
               adds : Invites!Row \cup {Invites!NoRow}, marks : SUBSET (Rows \cup {"own"})]
    BY <1>2, <2>1
  <2> QED
    BY <1>1, <2>1, <2>2 DEF Invites!Tx, Invites!Idle
<1>4. /\ tx' = [tx EXCEPT ![h] = x]
      /\ raced' = IF \E g \in Updates : Invites!Connected(g) /\ tx[g].of = tx[h].of
                  THEN raced \cup {tx[h].of} ELSE raced
  BY DEF Invites!Open
<1> HIDE DEF new, x
<1>5. tx' \in [Updates -> Invites!Tx] /\ tx'[h] = x /\ \A g \in Updates : g # h => tx'[g] = tx[g]
  BY <1>1, <1>3, <1>4 DEF Invites!TypeOK
<1>6. raced \subseteq raced' /\ raced' \subseteq Users
  BY <1>1, <1>4 DEF Invites!TypeOK
<1>7. Invites!TypeOK'
  BY <1>1, <1>5, <1>6 DEF Invites!TypeOK
<1>8. NoSelf' /\ KeysHeld' /\ \A m \in Invites!Links : CountHeld(m)'
  BY <1>1, <1>6, RowsKept, CountsKept
<1>9. OwnPlayer'
  <2>1. \A g \in Updates : g # h => tx'[g] = tx[g] /\ ref' = ref
    BY <1>1, <1>5
  <2>2. new = Invites!NoRow => new.is = "none"
    BY RowFields
  <2> QED
    BY <1>1, <1>2, <1>3, <1>5, <2>1, <2>2 DEF OwnPlayer
<1>10. AloneOrRaced'
  <2>1. \A g \in Updates : g # h => (Invites!Connected(g)' <=> Invites!Connected(g)) /\ tx'[g] = tx[g]
    BY <1>5 DEF Invites!Connected
  <2>2. ~Invites!Connected(h)
    BY <1>1 DEF Invites!Connected
  <2>3. ASSUME NEW g \in Updates, NEW k \in Updates, g # k, Invites!Connected(g)', Invites!Connected(k)',
               tx'[g].of = tx'[k].of
        PROVE  tx'[k].of \in raced'
    <3>1. CASE g # h /\ k # h
      BY <1>1, <1>6, <2>1, <2>3, <3>1 DEF AloneOrRaced
    <3>2. CASE g = h \/ k = h
      BY <1>3, <1>4, <1>5, <2>1, <2>3, <3>2
    <3> QED
      BY <3>1, <3>2
  <2>4. ASSUME NEW g \in Updates, Invites!Connected(g)', tx'[g].of \notin raced'
        PROVE  /\ \A r \in Rows \cap tx'[g].marks : ref'[r].is = "pending_onboarding"
               /\ tx'[g].adds.is = "pending_onboarding"
                     => ~Invites!Taken(tx'[g].of, tx'[g].adds.link[2])
    <3>1. CASE g = h
      <4>1. new.is = "pending_onboarding" => new # Invites!NoRow
        BY RowFields
      <4> QED
        BY <1>2, <1>3, <1>5, <3>1, <4>1
    <3>2. CASE g # h
      BY <1>1, <1>6, <2>1, <2>4, <3>2 DEF AloneOrRaced
    <3> QED
      BY <3>1, <3>2
  <2>5. \A u, c : Invites!Taken(u, c)' <=> Invites!Taken(u, c)
    BY <1>1 DEF Invites!Taken
  <2> QED
    BY <2>3, <2>4, <2>5 DEF AloneOrRaced
<1> QED
  BY <1>7, <1>8, <1>9, <1>10 DEF InviteIInv

LEMMA PassInv ==
    ASSUME Invites!ReferralConstants, InviteIInv, NEW h \in Updates, Invites!Pass(h)
    PROVE  InviteIInv'
<1> DEFINE x == [tx[h] EXCEPT !.at = "passed", !.marks = Invites!Pending(h)]
<1>1. /\ Invites!TypeOK /\ NoSelf /\ KeysHeld /\ OwnPlayer /\ AloneOrRaced
      /\ \A m \in Invites!Links : CountHeld(m)
      /\ UNCHANGED <<links, count, ref, accepted, onboarded, raced>>
      /\ tx[h].at = "open" /\ tx[h] # Invites!Idle /\ tx[h] \in Invites!Tx /\ tx' = [tx EXCEPT ![h] = x]
  BY SessionFields DEF InviteIInv, Invites!tables, Invites!Pass
<1>2. /\ Invites!Pending(h) \subseteq Rows \cup {"own"}
      /\ "own" \in Invites!Pending(h) => tx[h].adds.is = "pending_onboarding"
      /\ \A r \in Rows \cap Invites!Pending(h) : ref[r].to = tx[h].of /\ ref[r].is = "pending_onboarding"
  BY DEF Invites!Pending, Invites!ReferralConstants
<1>3. /\ x \in Invites!Tx /\ x.at = "passed" /\ x.adds = tx[h].adds /\ x.of = tx[h].of
      /\ x.marks = Invites!Pending(h) /\ x # Invites!Idle
  <2>1. tx[h] \in [at : {"loaded", "open", "passed"}, in : Processes, of : Users,
                   accepts : BOOLEAN, onboarded : BOOLEAN, link : Invites!Links \cup {Invites!NoRow.link},
                   adds : Invites!Row \cup {Invites!NoRow}, marks : SUBSET (Rows \cup {"own"})]
    BY <1>1 DEF Invites!Tx
  <2>2. x \in [at : {"loaded", "open", "passed"}, in : Processes, of : Users,
               accepts : BOOLEAN, onboarded : BOOLEAN, link : Invites!Links \cup {Invites!NoRow.link},
               adds : Invites!Row \cup {Invites!NoRow}, marks : SUBSET (Rows \cup {"own"})]
    BY <1>2, <2>1
  <2> QED
    BY <1>1, <2>1, <2>2 DEF Invites!Tx, Invites!Idle
<1> HIDE DEF x
<1>4. tx' \in [Updates -> Invites!Tx] /\ tx'[h] = x /\ \A g \in Updates : g # h => tx'[g] = tx[g]
  BY <1>1, <1>3 DEF Invites!TypeOK
<1>5. Invites!TypeOK'
  BY <1>1, <1>4 DEF Invites!TypeOK
<1>6. NoSelf' /\ KeysHeld' /\ \A m \in Invites!Links : CountHeld(m)'
  BY <1>1, RowsKept, CountsKept
<1>7. OwnPlayer'
  BY <1>1, <1>2, <1>3, <1>4 DEF OwnPlayer
<1>8. AloneOrRaced'
  <2>1. Invites!Connected(h) /\ \A g \in Updates : (Invites!Connected(g)' <=> Invites!Connected(g)) /\ tx'[g].of = tx[g].of
                                           /\ tx'[g].adds = tx[g].adds
    BY <1>1, <1>3, <1>4 DEF Invites!Connected
  <2>2. \A u, c : Invites!Taken(u, c)' <=> Invites!Taken(u, c)
    BY <1>1 DEF Invites!Taken
  <2> QED
    BY <1>1, <1>2, <1>3, <1>4, <2>1, <2>2 DEF AloneOrRaced
<1> QED
  BY <1>5, <1>6, <1>7, <1>8 DEF InviteIInv

\* What a commit makes of the rows: those it marks, and at most one it adds.
LEMMA CommitStep ==
    ASSUME Invites!ReferralConstants, InviteIInv, NEW h \in Updates, Invites!Commit(h)
    PROVE  \E put \in SUBSET Rows :
              /\ tx[h].adds = Invites!NoRow => put = {}
              /\ tx[h].adds # Invites!NoRow => \E r \in Rows : put = {r} /\ ref[r] = Invites!NoRow
              /\ ref' \in [Rows -> Invites!Row \cup {Invites!NoRow}]
              /\ \A r \in put :
                    /\ ref'[r].to = tx[h].of /\ ref'[r].link = tx[h].adds.link
                    /\ ref'[r].is = IF "own" \in tx[h].marks THEN "valid" ELSE tx[h].adds.is
                    /\ ref'[r] # Invites!NoRow /\ ref[r] = Invites!NoRow
              /\ \A r \in Rows \ put :
                    /\ ref'[r].to = ref[r].to /\ ref'[r].link = ref[r].link
                    /\ ref'[r].is = IF r \in tx[h].marks THEN "valid" ELSE ref[r].is
                    /\ ref'[r] = Invites!NoRow <=> ref[r] = Invites!NoRow
                    /\ r \notin tx[h].marks => ref'[r] = ref[r]
<1>1. /\ Invites!TypeOK /\ OwnPlayer /\ tx[h] # Invites!Idle /\ tx[h].adds \in Invites!Row \cup {Invites!NoRow}
  BY SessionFields DEF InviteIInv, Invites!Commit
<1>2. /\ ref \in [Rows -> Invites!Row \cup {Invites!NoRow}]
      /\ \A r \in Rows \cap tx[h].marks :
            ref[r] \in Invites!Row /\ ref[r].is \in {"pending_onboarding", "valid"}
  BY <1>1, RowFields DEF Invites!TypeOK, OwnPlayer
<1>3. \A r \in Rows :
          /\ Invites!Marked(h)[r] \in Invites!Row \cup {Invites!NoRow}
          /\ Invites!Marked(h)[r].to = ref[r].to /\ Invites!Marked(h)[r].link = ref[r].link
          /\ Invites!Marked(h)[r].is = IF r \in tx[h].marks THEN "valid" ELSE ref[r].is
          /\ Invites!Marked(h)[r] = Invites!NoRow <=> ref[r] = Invites!NoRow
          /\ r \notin tx[h].marks => Invites!Marked(h)[r] = ref[r]
  <2>1. SUFFICES ASSUME NEW r \in Rows
                 PROVE  /\ Invites!Marked(h)[r] \in Invites!Row \cup {Invites!NoRow}
                        /\ Invites!Marked(h)[r].to = ref[r].to /\ Invites!Marked(h)[r].link = ref[r].link
                        /\ Invites!Marked(h)[r].is = IF r \in tx[h].marks THEN "valid" ELSE ref[r].is
                        /\ Invites!Marked(h)[r] = Invites!NoRow <=> ref[r] = Invites!NoRow
                        /\ r \notin tx[h].marks => Invites!Marked(h)[r] = ref[r]
    OBVIOUS
  <2>2. CASE r \in tx[h].marks
    <3>1. Invites!Marked(h)[r] = [ref[r] EXCEPT !.is = "valid"]
      BY <2>2 DEF Invites!Marked
    <3>2. ref[r] \in Invites!Row
      BY <1>2, <2>2
    <3>3. [ref[r] EXCEPT !.is = "valid"] \in Invites!Row
      BY <3>2 DEF Invites!Row
    <3> QED
      BY <2>2, <3>1, <3>2, <3>3, RowFields DEF Invites!Row
  <2>3. CASE r \notin tx[h].marks
    BY <1>2, <2>3 DEF Invites!Marked
  <2> QED
    BY <2>2, <2>3
<1>4. CASE tx[h].adds = Invites!NoRow
  <2>1. ref' = Invites!Marked(h)
    BY <1>4 DEF Invites!Commit
  <2>2. ref' \in [Rows -> Invites!Row \cup {Invites!NoRow}]
    BY <1>3, <2>1 DEF Invites!Marked
  <2> WITNESS {} \in SUBSET Rows
  <2> QED
    BY <1>3, <1>4, <2>1, <2>2
<1>5. CASE tx[h].adds # Invites!NoRow
  <2>1. PICK r0 \in Rows : ref[r0] = Invites!NoRow /\ ref' = [Invites!Marked(h) EXCEPT ![r0] = Invites!OwnRow(h)]
    BY <1>5 DEF Invites!Commit
  <2>2. /\ Invites!OwnRow(h) \in Invites!Row /\ Invites!OwnRow(h).to = tx[h].of /\ Invites!OwnRow(h).link = tx[h].adds.link
        /\ Invites!OwnRow(h).is = IF "own" \in tx[h].marks THEN "valid" ELSE tx[h].adds.is
    BY <1>1, <1>5 DEF Invites!OwnRow, OwnPlayer, Invites!Row
  <2>3. Invites!Marked(h) = [r \in Rows |-> Invites!Marked(h)[r]]
    BY DEF Invites!Marked
  <2>4. ref'[r0] = Invites!OwnRow(h) /\ \A r \in Rows \ {r0} : ref'[r] = Invites!Marked(h)[r]
    BY <2>1, <2>3
  <2>5. ref' \in [Rows -> Invites!Row \cup {Invites!NoRow}]
    BY <1>3, <2>1, <2>2, <2>3
  <2> WITNESS {r0} \in SUBSET Rows
  <2> QED
    BY <1>3, <1>5, <2>1, <2>2, <2>4, <2>5, RowFields
<1> QED
  BY <1>4, <1>5

LEMMA CommitInv ==
    ASSUME Invites!ReferralConstants, InviteIInv, NEW h \in Updates, Invites!Commit(h)
    PROVE  InviteIInv'
<1> DEFINE u     == tx[h].of
           new   == tx[h].adds
           marks == tx[h].marks
<1>1. /\ Invites!TypeOK /\ NoSelf /\ KeysHeld /\ OwnPlayer /\ AloneOrRaced
      /\ \A m \in Invites!Links : CountHeld(m)
      /\ UNCHANGED <<links, raced>> /\ Invites!Connected(h) /\ ~Invites!KeyBroken(h)
      /\ tx[h] # Invites!Idle /\ tx' = [tx EXCEPT ![h] = Invites!Idle] /\ count' = Invites!Counted(h)
      /\ accepted' \in {accepted, accepted \cup {u}}
      /\ onboarded' \in {onboarded, onboarded \cup {u}}
  BY SessionFields DEF InviteIInv, Invites!Commit
<1>2. /\ u \in Users /\ new \in Invites!Row \cup {Invites!NoRow} /\ marks \subseteq Rows \cup {"own"}
      /\ new # Invites!NoRow => new.to = u /\ new.is \in {"self_referral", "pending_onboarding"}
      /\ new.is = "pending_onboarding" => new # Invites!NoRow /\ new.link[1] # u
      /\ "own" \in marks => new.is = "pending_onboarding"
      /\ \A r \in Rows \cap marks : ref[r].to = u /\ ref[r].is \in {"pending_onboarding", "valid"}
  BY <1>1, SessionFields, RowFields DEF OwnPlayer
<1>3. PICK put \in SUBSET Rows :
          /\ new = Invites!NoRow => put = {}
          /\ new # Invites!NoRow => \E r \in Rows : put = {r} /\ ref[r] = Invites!NoRow
          /\ ref' \in [Rows -> Invites!Row \cup {Invites!NoRow}]
          /\ \A r \in put :
                /\ ref'[r].to = u /\ ref'[r].link = new.link
                /\ ref'[r].is = IF "own" \in marks THEN "valid" ELSE new.is
                /\ ref'[r] # Invites!NoRow /\ ref[r] = Invites!NoRow
          /\ \A r \in Rows \ put :
                /\ ref'[r].to = ref[r].to /\ ref'[r].link = ref[r].link
                /\ ref'[r].is = IF r \in marks THEN "valid" ELSE ref[r].is
                /\ ref'[r] = Invites!NoRow <=> ref[r] = Invites!NoRow
                /\ r \notin marks => ref'[r] = ref[r]
  BY CommitStep
<1>4. /\ tx' \in [Updates -> Invites!Tx] /\ tx'[h] = Invites!Idle
      /\ \A g \in Updates : g # h => tx'[g] = tx[g] /\ (Invites!Connected(g)' <=> Invites!Connected(g))
      /\ ~Invites!Connected(h)'
  BY <1>1 DEF Invites!TypeOK, Invites!Tx, Invites!Idle, Invites!Connected
<1>5. u \notin raced =>
          /\ \A r \in Rows \cap marks : ref[r].is = "pending_onboarding"
          /\ new.is = "pending_onboarding" => ~Invites!Taken(u, new.link[2])
          /\ \A g \in Updates : g # h /\ Invites!Connected(g) => tx[g].of # u
  BY <1>1 DEF AloneOrRaced
<1>6. new # Invites!NoRow /\ new.link[2] # Global => ~Invites!Taken(u, new.link[2])
  BY <1>1, <1>2 DEF Invites!KeyBroken
<1>7. marks \cap put = {} /\ \A r \in put : r \in Rows /\ new # Invites!NoRow
  BY <1>2, <1>3, RowFields
<1> HIDE DEF u, new, marks
<1>8. NoSelf'
  <2>1. SUFFICES ASSUME NEW r \in Rows, ref'[r].is \in {"pending_onboarding", "valid"}
                 PROVE  ref'[r].to # ref'[r].link[1]
    BY DEF NoSelf
  <2>2. CASE r \in put
    BY <1>2, <1>3, <1>7, <2>1, <2>2
  <2>3. CASE r \notin put
    BY <1>1, <1>2, <1>3, <2>1, <2>3 DEF NoSelf
  <2> QED
    BY <2>2, <2>3
<1>9. OwnPlayer'
  <2>1. SUFFICES ASSUME NEW g \in Updates, g # h, tx[g] # Invites!Idle
                 PROVE  \A r \in Rows \cap tx[g].marks :
                            /\ ref'[r].to = tx[g].of
                            /\ ref'[r].is \in {"pending_onboarding", "valid"}
    BY <1>1, <1>4 DEF OwnPlayer
  <2>2. \A r \in Rows \cap tx[g].marks :
            ref[r].to = tx[g].of /\ ref[r].is \in {"pending_onboarding", "valid"}
    BY <1>1, <2>1 DEF OwnPlayer
  <2> QED
    BY <1>3, <2>2, RowFields
<1>10. AloneOrRaced'
  <2>1. ASSUME NEW g \in Updates, g # h, Invites!Connected(g), tx[g].of \notin raced
        PROVE  /\ \A r \in Rows \cap tx[g].marks : ref'[r].is = "pending_onboarding"
               /\ tx[g].adds.is = "pending_onboarding"
                     => ~Invites!Taken(tx[g].of, tx[g].adds.link[2])'
    <3>1. tx[g].of # u
      BY <1>1, <2>1 DEF AloneOrRaced, u
    <3>2. /\ \A r \in Rows \cap tx[g].marks : ref[r].is = "pending_onboarding"
          /\ tx[g].adds.is = "pending_onboarding" => ~Invites!Taken(tx[g].of, tx[g].adds.link[2])
          /\ \A r \in Rows \cap tx[g].marks : ref[r].to = tx[g].of
      BY <1>1, <2>1, SessionFields DEF AloneOrRaced, OwnPlayer
    <3>3. \A r \in Rows \cap tx[g].marks : r \notin put /\ r \notin marks
      BY <1>2, <1>3, <3>1, <3>2, RowFields
    <3>4. \A c : (\E r \in Rows : ref'[r].to = tx[g].of /\ ref'[r].link[2] = c)
                     => Invites!Taken(tx[g].of, c)
      BY <1>3, <3>1 DEF Invites!Taken
    <3>5. \A r \in Rows \cap tx[g].marks : ref'[r].is = "pending_onboarding"
      BY <1>3, <3>2, <3>3
    <3>6. tx[g].adds.is = "pending_onboarding" => ~Invites!Taken(tx[g].of, tx[g].adds.link[2])'
      BY <1>4, <2>1, <3>2, <3>4 DEF Invites!Taken
    <3> QED
      BY <3>5, <3>6
  <2> QED
    BY <1>1, <1>4, <2>1 DEF AloneOrRaced
<1>11. KeysHeld'
  <2>1. SUFFICES ASSUME NEW r \in Rows, NEW q \in Rows, r # q, ref'[r] # Invites!NoRow, ref'[q] # Invites!NoRow,
                        ref'[r].to = ref'[q].to, ref'[r].link[2] = ref'[q].link[2]
                 PROVE  /\ ref'[r].link[2] = Global
                        /\ \/ ref'[r].is = "self_referral" \/ ref'[q].is = "self_referral"
                           \/ ref'[r].to \in raced
    BY <1>1 DEF KeysHeld
  <2>2. ~(r \in put /\ q \in put)
    BY <1>3, <2>1
  <2>3. CASE r \notin put /\ q \notin put
    <3>1. /\ ref[r] # Invites!NoRow /\ ref[q] # Invites!NoRow /\ ref[r].to = ref[q].to
          /\ ref[r].link[2] = ref[q].link[2]
      BY <1>3, <2>1, <2>3
    <3>2. /\ ref[r].link[2] = Global
          /\ \/ ref[r].is = "self_referral" \/ ref[q].is = "self_referral"
             \/ ref[r].to \in raced
      BY <1>1, <2>1, <3>1 DEF KeysHeld
    <3>3. \A k \in {r, q} : ref[k].is = "self_referral" => ref'[k].is = "self_referral"
      BY <1>2, <1>3, <2>3
    <3> QED
      BY <1>3, <2>3, <3>2, <3>3
  <2>4. ASSUME NEW k \in Rows, NEW j \in Rows, k \in put, j \notin put, {k, j} = {r, q}
        PROVE  /\ ref'[r].link[2] = Global
               /\ \/ ref'[r].is = "self_referral" \/ ref'[q].is = "self_referral"
                  \/ ref'[r].to \in raced
    <3>1. /\ ref'[j].to = u /\ ref[j].to = u /\ ref[j].link[2] = new.link[2]
          /\ ref'[k].to = u /\ ref'[k].link[2] = new.link[2] /\ new # Invites!NoRow
      BY <1>3, <1>7, <2>1, <2>4
    <3>2. Invites!Taken(u, new.link[2])
      BY <2>4, <3>1 DEF Invites!Taken
    <3>3. new.link[2] = Global
      BY <1>6, <3>1, <3>2
    <3>4. u \in raced \/ new.is = "self_referral"
      BY <1>2, <1>5, <3>1, <3>2
    <3>5. new.is = "self_referral" => ref'[k].is = "self_referral"
      BY <1>2, <1>3, <2>4
    <3> QED
      BY <2>1, <2>4, <3>1, <3>3, <3>4, <3>5
  <2> QED
    BY <2>2, <2>3, <2>4
<1>12. \A l \in Invites!Links : CountHeld(l)'
  <2>1. SUFFICES ASSUME NEW l \in Invites!Links PROVE CountHeld(l)'
    OBVIOUS
  <2> DEFINE A   == {r \in marks \cap Rows : ref[r].link = l}
             own == "own" \in marks /\ new.link = l
             O   == {r \in put : own}
  <2>2. count[l] \in Nat /\ count'[l] = count[l] + Cardinality(A) + (IF own THEN 1 ELSE 0)
    BY <1>1, SameSize DEF Invites!Counted, Invites!TypeOK, marks, new
  <2>3. /\ IsFiniteSet(A) /\ IsFiniteSet(Invites!Invited(l)) /\ IsFiniteSet(O)
        /\ IsFiniteSet(Invites!Invited(l) \cup A) /\ IsFiniteSet(Invites!Invited(l)')
    <3>1. /\ A \subseteq Rows /\ Invites!Invited(l) \subseteq Rows /\ O \subseteq Rows
          /\ Invites!Invited(l) \cup A \subseteq Rows /\ Invites!Invited(l)' \subseteq Rows
      BY DEF Invites!Invited
    <3> QED
      BY <3>1, SameFinite, FS_Subset DEF Invites!ReferralConstants
  <2>4. Invites!Invited(l)' = (Invites!Invited(l) \cup A) \cup O
    <3>1. ASSUME NEW r \in Rows
          PROVE  r \in Invites!Invited(l)' <=> r \in Invites!Invited(l) \/ r \in A \/ r \in O
      <4>1. CASE r \in put
        BY <1>2, <1>3, <1>7, <4>1, RowFields DEF Invites!Invited
      <4>2. CASE r \notin put
        BY <1>3, <4>2 DEF Invites!Invited
      <4> QED
        BY <4>1, <4>2
    <3>2. Invites!Invited(l)' \subseteq Rows /\ Invites!Invited(l) \subseteq Rows /\ O \subseteq Rows
      BY DEF Invites!Invited
    <3> QED
      BY <3>1, <3>2
  <2>5. (Invites!Invited(l) \cup A) \cap O = {}
    BY <1>3, <1>7, RowFields DEF Invites!Invited
  <2>6. Cardinality(O) = IF own THEN 1 ELSE 0
    <3>1. CASE own
      <4>1. \E r \in Rows : put = {r}
        BY <1>2, <1>3, <3>1
      <4>2. PICK r \in Rows : O = {r}
        BY <3>1, <4>1
      <4> QED
        BY <3>1, <4>2, FS_Singleton
    <3>2. CASE ~own
      <4>1. O = {}
        BY <3>2
      <4> QED
        BY <3>2, <4>1, FS_EmptySet
    <3> QED
      BY <3>1, <3>2
  <2> HIDE DEF A, O, own
  <2>7. Cardinality(Invites!Invited(l)') = Cardinality(Invites!Invited(l) \cup A) + Cardinality(O)
    <3>1. Cardinality((Invites!Invited(l) \cup A) \cup O)
             = Cardinality(Invites!Invited(l) \cup A) + Cardinality(O)
                   - Cardinality((Invites!Invited(l) \cup A) \cap O)
      BY <2>3, FS_Union
    <3>2. /\ Cardinality({}) = 0 /\ Cardinality(O) \in Nat
          /\ Cardinality(Invites!Invited(l) \cup A) \in Nat
      BY <2>3, FS_EmptySet, FS_CardinalityType
    <3>3. Cardinality((Invites!Invited(l) \cup A) \cap O) = 0
      BY <2>5, <3>2
    <3>4. Cardinality((Invites!Invited(l) \cup A) \cup O) = Cardinality(Invites!Invited(l) \cup A) + Cardinality(O)
      BY <3>1, <3>2, <3>3
    <3> QED
      BY <2>4, <3>4
  <2>8. /\ Cardinality(Invites!Invited(l) \cup A) <= Cardinality(Invites!Invited(l)) + Cardinality(A)
        /\ A \cap Invites!Invited(l) = {} =>
              Cardinality(Invites!Invited(l) \cup A) = Cardinality(Invites!Invited(l)) + Cardinality(A)
    <3>1. Cardinality(Invites!Invited(l) \cup A)
             = Cardinality(Invites!Invited(l)) + Cardinality(A) - Cardinality(Invites!Invited(l) \cap A)
      BY <2>3, FS_Union
    <3>2. /\ Cardinality(Invites!Invited(l)) \in Nat /\ Cardinality(A) \in Nat
          /\ Cardinality(Invites!Invited(l) \cap A) \in Nat /\ Cardinality({}) = 0
      BY <2>3, FS_Intersection, FS_EmptySet, FS_CardinalityType
    <3>3. A \cap Invites!Invited(l) = {} => Cardinality(Invites!Invited(l) \cap A) = 0
      <4>1. A \cap Invites!Invited(l) = {} => Invites!Invited(l) \cap A = {}
        OBVIOUS
      <4> QED
        BY <3>2, <4>1
    <3> QED
      BY <3>1, <3>2, <3>3
  <2>9. /\ Cardinality(Invites!Invited(l)) \in Nat /\ Cardinality(A) \in Nat
        /\ Cardinality(Invites!Invited(l) \cup A) \in Nat /\ Cardinality(O) \in Nat
    BY <2>3, FS_CardinalityType
  <2>10. count'[l] >= Cardinality(Invites!Invited(l)')
    <3>1. count[l] >= Cardinality(Invites!Invited(l))
      BY <1>1 DEF CountHeld
    <3> QED
      BY <2>2, <2>6, <2>7, <2>8, <2>9, <3>1
  <2>11. ASSUME \A r \in Invites!Invited(l)' : ref'[r].to \notin raced
         PROVE  count'[l] = Cardinality(Invites!Invited(l)')
    <3>1. \A r \in Invites!Invited(l) : ref[r].to \notin raced
      <4>1. ASSUME NEW r \in Invites!Invited(l) PROVE ref[r].to \notin raced
        <5>1. r \in Rows /\ ref[r].is = "valid"
          BY DEF Invites!Invited
        <5>2. r \notin put
          BY <1>3, <5>1, RowFields
        <5> QED
          BY <1>3, <2>4, <2>11, <5>1, <5>2
      <4> QED
        BY <4>1
    <3>2. count[l] = Cardinality(Invites!Invited(l))
      BY <1>1, <3>1 DEF CountHeld
    <3>3. A \cap Invites!Invited(l) = {}
      <4>1. ASSUME NEW r \in A PROVE r \notin Invites!Invited(l)
        <5>1. r \in Rows \cap marks /\ ref[r].to = u
          BY <1>2 DEF A
        <5>2. r \notin put /\ ref'[r].to = u /\ r \in Invites!Invited(l)'
          BY <1>3, <1>7, <2>4, <5>1
        <5>3. u \notin raced
          BY <2>11, <5>2
        <5> QED
          BY <1>5, <5>1, <5>3 DEF Invites!Invited
      <4> QED
        BY <4>1
    <3> QED
      BY <2>2, <2>6, <2>7, <2>8, <2>9, <3>2, <3>3
  <2> QED
    BY <1>1, <2>10, <2>11 DEF CountHeld
<1>13. Invites!TypeOK'
  <2>1. count' \in [Invites!Links -> Nat]
    <3>1. ASSUME NEW l \in Invites!Links PROVE count'[l] \in Nat
      <4>1. IsFiniteSet({r \in tx[h].marks \cap Rows : ref[r].link = l})
        <5>1. {r \in tx[h].marks \cap Rows : ref[r].link = l} \subseteq Rows
          OBVIOUS
        <5> QED
          BY <5>1, SameFinite, FS_Subset DEF Invites!ReferralConstants
      <4>2. Cardinality({r \in tx[h].marks \cap Rows : ref[r].link = l}) \in Nat
        BY <4>1, FS_CardinalityType
      <4> QED
        BY <1>1, <4>2, SameSize DEF Invites!Counted, Invites!TypeOK
    <3> QED
      BY <1>1, <3>1 DEF Invites!Counted
  <2>2. accepted' \subseteq Users /\ onboarded' \subseteq Users
    BY <1>1, <1>2 DEF Invites!TypeOK
  <2> QED
    BY <1>1, <1>3, <1>4, <2>1, <2>2 DEF Invites!TypeOK
<1> QED
  BY <1>8, <1>9, <1>10, <1>11, <1>12, <1>13 DEF InviteIInv

LEMMA InviteNextInv ==
    ASSUME Invites!ReferralConstants, InviteIInv, [Invites!Next]_(Invites!vars)
    PROVE  InviteIInv'
<1>1. CASE UNCHANGED Invites!vars
  <2>1. UNCHANGED <<links, count, ref, accepted, onboarded, tx, raced>>
    BY <1>1 DEF Invites!vars, Invites!tables
  <2>2. /\ Invites!TypeOK /\ NoSelf /\ KeysHeld /\ OwnPlayer /\ AloneOrRaced
        /\ \A m \in Invites!Links : CountHeld(m)
    BY DEF InviteIInv
  <2>3. NoSelf' /\ KeysHeld' /\ \A m \in Invites!Links : CountHeld(m)'
    BY <2>1, <2>2, RowsKept, CountsKept
  <2>4. Invites!TypeOK' /\ OwnPlayer' /\ AloneOrRaced'
    BY <2>1, <2>2 DEF Invites!TypeOK, OwnPlayer, AloneOrRaced, Invites!Connected, Invites!Taken
  <2> QED
    BY <2>3, <2>4 DEF InviteIInv
<1>2. CASE \E l \in Invites!Links : Invites!GetLink(l)
  BY <1>2, GetLinkInv
<1>3. ASSUME NEW h \in Updates, Invites!Handler(h) PROVE InviteIInv'
  <2>1. ASSUME NEW p \in Processes, NEW u \in Users,
               (\E l \in Invites!Links : Invites!StartRef(h, p, u, l)) \/ Invites!AcceptTos(h, p, u) \/ Invites!AnyButton(h, p, u)
        PROVE  InviteIInv'
    BY <2>1, LoadInv DEF Invites!StartRef, Invites!AcceptTos, Invites!AnyButton
  <2> QED
    BY <1>3, <2>1, OpenInv, PassInv, CommitInv, RollbackInv DEF Invites!Handler
<1> QED
  BY <1>1, <1>2, <1>3 DEF Invites!Next

-----------------------------------------------------------------------------
(* Theorems                                                                *)

\* Rows, counters and sessions keep to the invariant, whichever updates of
\* whichever processes interleave.
THEOREM InviteInvariant == ASSUME Invites!ReferralConstants PROVE Invites!Spec => []InviteIInv
<1>1. Invites!Init => InviteIInv
  BY InviteInitInv
<1>2. InviteIInv /\ [Invites!Next]_(Invites!vars) => InviteIInv'
  BY InviteNextInv
<1> QED
  BY <1>1, <1>2, PTL DEF Invites!Spec

LEMMA InvitesCount == ASSUME InviteIInv PROVE Invites!CountIsRows
<1>1. NoSelf /\ KeysHeld /\ (\A l \in Invites!Links : CountHeld(l)) /\ Invites!TypeOK
  BY DEF InviteIInv
<1>2. ASSUME NEW l \in Invites!Links
      PROVE  /\ count[l] >= Cardinality(Invites!Invited(l))
             /\ \A r \in Invites!Invited(l) : ref[r].to # l[1]
             /\ (\A r \in Invites!Invited(l) : ref[r].to \notin raced) =>
                   count[l] = Cardinality(Invites!Invited(l))
  BY <1>1 DEF CountHeld, NoSelf, Invites!Invited
<1>3. ASSUME NEW r \in Rows, NEW q \in Rows, r # q, ref[r].is = "valid", ref[q].is = "valid",
             ref[r].to = ref[q].to, ref[r].link[2] = ref[q].link[2]
      PROVE  ref[r].to \in raced /\ ref[r].link[2] = Global
  <2>1. ref[r] # Invites!NoRow /\ ref[q] # Invites!NoRow
    BY <1>3, RowFields
  <2> QED
    BY <1>1, <1>3, <2>1 DEF KeysHeld
<1> QED
  BY <1>2, <1>3, SameSize DEF Invites!CountIsRows

\* Every row, counter and session is of its type.
THEOREM InviteTypeCorrect ==
    ASSUME Invites!ReferralConstants
    PROVE  Invites!Spec => []Invites!TypeOK
<1>1. InviteIInv => Invites!TypeOK
  BY DEF InviteIInv
<1> QED
  BY <1>1, InviteInvariant, PTL

\* The counter of a link is the number of rows that count, and above it only
\* through a player whom two processes onboarded at once; nobody counts twice in
\* a custom, and nobody for himself.
THEOREM CountRight == ASSUME Invites!ReferralConstants PROVE Invites!Spec => []Invites!CountIsRows
<1>1. InviteIInv => Invites!CountIsRows
  BY InvitesCount
<1> QED
  BY <1>1, InviteInvariant, PTL
=============================================================================
