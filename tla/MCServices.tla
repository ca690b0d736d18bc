------------------------------ MODULE MCServices ------------------------------
(***************************************************************************)
(* Four services behind the API on small instances: accounts and sessions, *)
(* the credentials that belong to sessions, the rate limiter in front of   *)
(* everything, and the Event Pack Factory.  They share no state here, so a *)
(* behaviour exercises one of them.                                        *)
(***************************************************************************)
EXTENDS Accounts, Credentials, RateLimiter, EventPackFactory, TLC

CONSTANTS e1, p1, p2, l1, l2, x, y, ip, s1, s2, login, t1, t2, f1, g1, h1

VARIABLE part
serviceVars == <<part, accountVars, credentialVars, limiterVars, factoryVars>>

Plain(k, n) == [key |-> k, limit |-> n, protected |-> FALSE]
Guarded(k, n) == [key |-> k, limit |-> n, protected |-> TRUE]
\* a write of either session, an authentication request, one with both
Requests == {<<Plain(ip, 2), Plain(s1, 1)>>, <<Plain(ip, 2), Plain(s2, 1)>>,
             <<Guarded(login, 2)>>, <<Plain(s1, 1), Guarded(login, 2)>>}

Symmetry == Permutations(Passwords) \cup Permutations(SourceIds)

Init ==
    /\ part \in {"accounts", "credentials", "limiter", "factory"}
    /\ AccountsInit /\ CredentialsInit /\ LimiterInit /\ FactoryInit
    /\ part = "credentials" \/ masterKey = x
    /\ part = "limiter" \/ hasStore

Next ==
    \/ /\ part = "accounts" /\ AccountsNext
       /\ UNCHANGED <<part, credentialVars, limiterVars, factoryVars>>
    \/ /\ part = "credentials" /\ CredentialsNext
       /\ UNCHANGED <<part, accountVars, limiterVars, factoryVars>>
    \/ /\ part = "limiter" /\ LimiterNext
       /\ UNCHANGED <<part, accountVars, credentialVars, factoryVars>>
    \/ /\ part = "factory" /\ FactoryNext
       /\ UNCHANGED <<part, accountVars, credentialVars, limiterVars>>

Spec == Init /\ [][Next]_serviceVars

\* Every value of the four services has its type.
ServicesTypeOK == AccountsTypeOK /\ CredentialsTypeOK /\ LimiterTypeOK /\ FactoryTypeOK
=============================================================================
