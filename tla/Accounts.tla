------------------------------ MODULE Accounts ------------------------------
(***************************************************************************)
(* Accounts of auth/service.py and auth/repository.py behind the           *)
(* middleware of main.py: verification codes by mail, registration,        *)
(* password reset, login, sessions, the legal gate, suspension, deletion.  *)
(* One event loop runs the handlers, so what a handler does between two    *)
(* awaits is one step; it waits for the mail server, and between the       *)
(* middleware, which authenticates the session, and the endpoint, which    *)
(* runs with what the middleware found.  The process may stop between two  *)
(* transactions of one handler.                                            *)
(***************************************************************************)
EXTENDS Naturals, FiniteSets

CONSTANTS
    Emails,             \* normalised addresses; the administrator has none of them
    Passwords,
    MaxChallenges, MaxSessions, MaxRequests, MaxClock,  \* bounds of the model
    Cooldown,           \* resendCooldown
    ChallengeLife,      \* challengeLifetime
    Hour, HourQuota,    \* codes of one purpose an address may have in an hour
    MaxAttempts,        \* maximumCodeAttempts
    SessionLife, IdleTimeout

ASSUME AccountsAssumption ==
    /\ {MaxChallenges, MaxSessions, MaxRequests, MaxClock, Cooldown} \subseteq Nat
    /\ {ChallengeLife, Hour, HourQuota, MaxAttempts, SessionLife, IdleTimeout}
          \subseteq Nat \ {0}

VARIABLES
    clock,
    users,          \* auth_users with the acceptance of the current terms, by address
    challenges,     \* auth_challenges
    mails,          \* challenges whose mail is being sent
    known,          \* challenges whose code has reached the address
    sessions,       \* auth_sessions
    requests,       \* requests between the middleware and their endpoint
    issued          \* how many codes and sessions there have been

accountVars == <<clock, users, challenges, mails, known, sessions, requests, issued>>

Purposes == {"REGISTER", "RESET_PASSWORD"}
Ops == {"accept", "revoke", "delete", "logout", "leave", "work"}
\* endpoints the legal gate lets pass without acceptance (LEGAL_GATE_EXEMPT_PATHS)
Exempt == {"accept", "logout", "leave", "delete"}

NoUser == [status |-> "NONE"]
Account == [status : {"ACTIVE", "DISABLED"}, password : Passwords, legal : BOOLEAN]
\* wrong and right are history: the guesses compared with the code
Challenge == [id : 1..MaxChallenges, email : Emails, purpose : Purposes,
              created : 0..MaxClock, used : BOOLEAN, attempts : Nat,
              wrong : Nat, right : Nat]
\* password is history: the one the session was opened with
Session == [id : 1..MaxSessions, email : Emails, password : Passwords,
            opened : 0..MaxClock, seen : 0..MaxClock, revoked : BOOLEAN]

AccountsTypeOK ==
    /\ clock \in 0..MaxClock
    /\ users \in [Emails -> {NoUser} \cup Account]
    /\ challenges \subseteq Challenge /\ sessions \subseteq Session
    /\ mails \subseteq 1..MaxChallenges /\ known \subseteq 1..MaxChallenges
    /\ issued \in [codes : 0..MaxChallenges, sessions : 0..MaxSessions]
    /\ requests \subseteq [session : 1..MaxSessions, op : Ops]

AccountsInit ==
    /\ clock = 0 /\ users = [e \in Emails |-> NoUser]
    /\ challenges = {} /\ mails = {} /\ known = {} /\ sessions = {} /\ requests = {}
    /\ issued = [codes |-> 0, sessions |-> 0]


Exists(e) == users[e] # NoUser

CodesOf(e, purpose) == {c \in challenges : c.email = e /\ c.purpose = purpose}

Latest(e, purpose) ==
    {c \in CodesOf(e, purpose) : \A d \in CodesOf(e, purpose) : d.id <= c.id}

Supersede(e, purpose) ==
    {IF c \in CodesOf(e, purpose) THEN [c EXCEPT !.used = TRUE] ELSE c : c \in challenges}

\* a code is asked for: quota of the hour, cooldown of the code in force,
\* then the mail is sent if the address can use the code
RequestCode(e, purpose) ==
    /\ issued.codes < MaxChallenges /\ issued' = [issued EXCEPT !.codes = @ + 1]
    /\ Cardinality({c \in CodesOf(e, purpose) : c.created + Hour >= clock}) < HourQuota
    /\ \A c \in CodesOf(e, purpose) : c.used \/ c.created + Cooldown <= clock
    /\ LET id == issued.codes + 1
       IN  /\ challenges' = Supersede(e, purpose) \cup
                 {[id |-> id, email |-> e, purpose |-> purpose, created |-> clock,
                   used |-> FALSE, attempts |-> 0, wrong |-> 0, right |-> 0]}
           /\ mails' = IF Exists(e) <=> purpose = "RESET_PASSWORD"
                       THEN mails \cup {id} ELSE mails
    /\ UNCHANGED <<clock, users, known, sessions, requests>>

MailDelivered(id) ==
    /\ id \in mails
    /\ mails' = mails \ {id} /\ known' = known \cup {id}
    /\ UNCHANGED <<clock, users, challenges, sessions, requests, issued>>

\* the mail server refuses or does not answer in time, though it may deliver
MailFailed(id) ==
    /\ id \in mails
    /\ mails' = mails \ {id}
    /\ known' \in {known, known \cup {id}}
    /\ challenges' = {IF c.id = id THEN [c EXCEPT !.used = TRUE] ELSE c : c \in challenges}
    /\ UNCHANGED <<clock, users, sessions, requests, issued>>

Usable(c) == /\ ~c.used /\ c.created + ChallengeLife > clock
             /\ c.attempts < MaxAttempts

\* a wrong code: the failed attempt is committed, then the error is raised
WrongCode(e, purpose) ==
    /\ \E c \in Latest(e, purpose) :
          /\ Usable(c)
          /\ challenges' = (challenges \ {c}) \cup
                {[c EXCEPT !.attempts = @ + 1, !.wrong = @ + 1]}
    /\ UNCHANGED <<clock, users, mails, known, sessions, requests, issued>>

Consume(c) == (challenges \ {c}) \cup {[c EXCEPT !.used = TRUE, !.right = @ + 1]}

Open(e, p) ==
    /\ issued.sessions < MaxSessions /\ issued' = [issued EXCEPT !.sessions = @ + 1]
    /\ sessions' = sessions \cup
          {[id |-> issued.sessions + 1, email |-> e, password |-> p, opened |-> clock,
            seen |-> clock, revoked |-> FALSE]}

\* mutant: sessions survive
KeepSessions(e) == sessions

Revoked(e) == {IF s.email = e THEN [s EXCEPT !.revoked = TRUE] ELSE s : s \in sessions}

\* the code, the account and the acceptance are one transaction; the login
\* that follows is another, which a crash or the session bound may prevent
Register(e, p) ==
    /\ ~Exists(e)
    /\ \E c \in Latest(e, "REGISTER") :
          Usable(c) /\ c.id \in known /\ challenges' = Consume(c)
    /\ users' = [users EXCEPT ![e] = [status |-> "ACTIVE", password |-> p, legal |-> TRUE]]
    /\ UNCHANGED <<sessions, issued>> \/ Open(e, p)
    /\ UNCHANGED <<clock, mails, known, requests>>

\* the code is consumed in one transaction, the password changed and the
\* sessions closed in the next; a crash may come between the two
ResetPassword(e, p) ==
    /\ \E c \in Latest(e, "RESET_PASSWORD") :
          Usable(c) /\ c.id \in known /\ challenges' = Consume(c)
    /\ \/ UNCHANGED <<users, sessions, issued>>
       \/ /\ Exists(e)
          /\ users' = [users EXCEPT ![e].password = p]
          /\ sessions' = Revoked(e)
    /\ UNCHANGED <<clock, mails, known, requests, issued>>

Login(e, p) ==
    /\ Exists(e) /\ users[e].status = "ACTIVE" /\ users[e].password = p
    /\ Open(e, p)
    /\ UNCHANGED <<clock, users, challenges, mails, known, requests>>

Active(s) ==
    /\ ~s.revoked /\ s.opened + SessionLife > clock /\ s.seen + IdleTimeout > clock
    /\ Exists(s.email) /\ users[s.email].status = "ACTIVE"

PassesGate(s, op) == op \in Exempt \/ users[s.email].legal

\* the middleware: authenticate, touch the session, legal gate
Authenticate(s, op) ==
    /\ s \in sessions /\ Active(s) /\ op # "leave"
    /\ Cardinality(requests) < MaxRequests
    /\ sessions' = (sessions \ {s}) \cup {[s EXCEPT !.seen = clock]}
    /\ requests' = IF PassesGate(s, op)
                   THEN requests \cup {[session |-> s.id, op |-> op]} ELSE requests
    /\ UNCHANGED <<clock, users, challenges, mails, known, issued>>

\* the rows of a session, none once its account is deleted
RowOf(r) == {s \in sessions : s.id = r.session}

Handled(r, op) == r \in requests /\ r.op = op /\ requests' = requests \ {r}

Accept(r) ==
    /\ Handled(r, "accept")
    /\ \E s \in RowOf(r) : users' = [users EXCEPT ![s.email].legal = TRUE]
    /\ UNCHANGED <<clock, challenges, mails, known, sessions, issued>>

\* any other endpoint, and those that fail because the account is gone
Work(r) ==
    /\ \/ Handled(r, "work")
       \/ RowOf(r) = {} /\ r.op # "logout" /\ Handled(r, r.op)
    /\ UNCHANGED <<clock, users, challenges, mails, known, sessions, issued>>

RevokeSession(r, id) ==
    /\ Handled(r, "revoke")
    /\ \E s \in RowOf(r) :
          sessions' = {IF t.id = id /\ t.email = s.email THEN [t EXCEPT !.revoked = TRUE]
                       ELSE t : t \in sessions}
    /\ UNCHANGED <<clock, users, challenges, mails, known, issued>>

\* logout waits for clearPrincipal before it revokes the session
LogoutBegins(r) ==
    /\ r \in requests /\ r.op = "logout"
    /\ requests' = (requests \ {r}) \cup {[r EXCEPT !.op = "leave"]}
    /\ UNCHANGED <<clock, users, challenges, mails, known, sessions, issued>>

LogoutEnds(r) ==
    /\ Handled(r, "leave")
    /\ sessions' = {IF s.id = r.session THEN [s EXCEPT !.revoked = TRUE] ELSE s : s \in sessions}
    /\ UNCHANGED <<clock, users, challenges, mails, known, issued>>

\* deletion asks for the password again; a wrong one changes nothing
DeleteAccount(r, p) ==
    /\ Handled(r, "delete")
    /\ \E s \in RowOf(r) :
          LET e == s.email
          IN  IF users[e].password = p
              THEN /\ users' = [users EXCEPT ![e] = NoUser]
                   /\ sessions' = {t \in sessions : t.email # e}
                   /\ challenges' = {c \in challenges : c.email # e}
              ELSE UNCHANGED <<users, sessions, challenges>>
    /\ UNCHANGED <<clock, mails, known, issued>>

\* an administrator suspends the account, which closes its sessions, or readmits it
SetUserStatus(e, status) ==
    /\ Exists(e)
    /\ users' = [users EXCEPT ![e].status = status]
    /\ sessions' = IF status = "DISABLED" THEN Revoked(e) ELSE sessions
    /\ UNCHANGED <<clock, challenges, mails, known, requests, issued>>

\* the process restarts, perhaps as a release with new terms: what was in
\* flight is lost, mails included
Restart(newTerms) ==
    /\ users' = [e \in Emails |-> IF Exists(e) /\ newTerms
                                  THEN [users[e] EXCEPT !.legal = FALSE] ELSE users[e]]
    /\ mails' = {} /\ requests' = {}
    /\ UNCHANGED <<clock, challenges, known, sessions, issued>>

Tick == /\ clock < MaxClock /\ clock' = clock + 1
        /\ UNCHANGED <<users, challenges, mails, known, sessions, requests, issued>>

CodeNext ==
    \/ \E e \in Emails, purpose \in Purposes :
          RequestCode(e, purpose) \/ WrongCode(e, purpose)
    \/ \E id \in mails : MailDelivered(id) \/ MailFailed(id)
    \/ \E e \in Emails, p \in Passwords : Register(e, p) \/ ResetPassword(e, p)

AccountsNext ==
    \/ CodeNext
    \/ \E e \in Emails, p \in Passwords : Login(e, p)
    \/ \E e \in Emails, status \in {"ACTIVE", "DISABLED"} : SetUserStatus(e, status)
    \/ \E s \in sessions, op \in Ops : Authenticate(s, op)
    \/ \E r \in requests :
          \/ Accept(r) \/ Work(r) \/ LogoutBegins(r) \/ LogoutEnds(r)
          \/ \E p \in Passwords : DeleteAccount(r, p)
          \/ \E s \in sessions : RevokeSession(r, s.id)
    \/ \E newTerms \in BOOLEAN : Restart(newTerms)
    \/ Tick

AccountsSpec == AccountsInit /\ [][AccountsNext]_accountVars
-----------------------------------------------------------------------------
\* A session that is not revoked belongs to an active account and was opened
\* with its present password: a reset, a suspension and a deletion close every
\* session, in whatever order they meet logins and requests under way.
SessionsMatchAccount ==
    \A s \in sessions : ~s.revoked =>
        /\ Exists(s.email) /\ users[s.email].status = "ACTIVE"
        /\ users[s.email].password = s.password

\* At most one code of a purpose is in force for an address, even when the
\* mail of an earlier one fails after a later one was issued.
OneCodeInForce ==
    \A c, d \in challenges :
        ~c.used /\ ~d.used /\ c.email = d.email /\ c.purpose = d.purpose => c = d

\* A code is compared with at most MaxAttempts wrong guesses and is accepted
\* at most once, whatever fails after it was accepted.
CodesAreSpent ==
    \A c \in challenges : c.wrong <= MaxAttempts /\ c.right <= 1

\* No more codes than the quota in any hour, used and failed ones included.
HourQuotaKept ==
    \A e \in Emails, purpose \in Purposes :
        Cardinality({c \in challenges : /\ c.email = e /\ c.purpose = purpose
                                        /\ c.created + Hour >= clock}) <= HourQuota

\* What waits behind the legal gate belongs to an account that has accepted
\* the current terms (or that has been deleted meanwhile).
GateHolds ==
    \A r \in requests : r.op \notin Exempt =>
        \A s \in RowOf(r) : users[s.email].legal

\* An account is only reached with its present credentials: by a session that its
\* password opened, by one code at a time that was mailed and is spent once, and
\* past the gate after the terms were accepted.
AccessIsEarned ==
    /\ SessionsMatchAccount /\ GateHolds
    /\ OneCodeInForce /\ CodesAreSpent /\ HourQuotaKept
=============================================================================
