------------------------------ MODULE AuthSessions ------------------------------
(***************************************************************************)
(* Logins to the web interface: AuthService with the handlers of           *)
(* api/routes/auth.py and users.py, the limiter of logins, and the         *)
(* browsers that keep the cookies.                                         *)
(*                                                                         *)
(* A refresh token is good for one refresh, which revokes it in one        *)
(* transaction and issues its successor in the next.  The tokens that      *)
(* descend from one login form a chain.  Tabs of a browser share its       *)
(* cookies and may send requests at the same time; a response may be lost. *)
(*                                                                         *)
(* A password is the number of its change.  No code of the server          *)
(* deactivates or deletes a user.  The limiter's bucket is that of one     *)
(* client address.  A response that arrives late, after that of a later    *)
(* request, is left out.                                                   *)
(***************************************************************************)
EXTENDS Naturals, FiniteSets, Sequences

CONSTANTS
  User, Admin,     \* user names, and the one of WEB_ADMIN_USERNAME
  Token,           \* values of refresh tokens in the order they are issued
  Browser, Request,
  NoUser, NoToken,
  Limit, Window,   \* web_login_rate_limit, web_login_rate_window_seconds
  MaxTime, MaxRequests, MaxPasswords, MaxCrashes  \* bounds

ASSUME AuthAssumption ==
  /\ Admin \in User /\ NoUser \notin User
  /\ Token \subseteq Nat /\ Request \subseteq Nat /\ NoToken \notin Token
  /\ Limit \in Nat \ {0} /\ Window \in Nat
  /\ MaxTime \in Nat /\ MaxRequests \in Nat /\ MaxPasswords \in Nat /\ MaxCrashes \in Nat

VARIABLES
  users,     \* password of each row of users
  tokens,    \* refresh_tokens
  jar,       \* refresh token in the cookies of each browser
  access,    \* user of the access token in the cookies
  up,        \* whether the web process runs
  bucket,    \* times of logins the limiter remembers
  request,   \* what the web process is doing in each slot
  now, begun, latest, crashes,
  \* Observations.
  admitted,  \* times of all logins the process let through
  overlap,   \* chains with two requests at the same time
  lost,      \* chains with a response lost, or a refresh cut short
  left,      \* chains that were logged out
  reset      \* chains there were when the script set the user's password

rows == <<users, tokens>>
cookies == <<jar, access>>
limiter == <<bucket, admitted>>
clock == <<now, begun, latest, crashes>>
seen == <<overlap, lost, left, reset>>
vars == <<rows, cookies, up, limiter, request, clock, seen>>

-----------------------------------------------------------------------------
Unused == [is |-> "unused"]
Idle == [op |-> "idle"]

Row == [is : {"row"}, user : User, pw : Nat, chain : Token, live : BOOLEAN, expired : BOOLEAN]

\* A refresh token is revoked, expired, or good for a refresh.
Good(t) == tokens[t].is = "row" /\ tokens[t].live /\ ~tokens[t].expired

Live(c) == {t \in Token : tokens[t].is = "row" /\ tokens[t].chain = c /\ tokens[t].live}

Chains(u) == {tokens[t].chain : t \in {s \in Token : tokens[s].is = "row" /\ tokens[s].user = u}}

\* Slots of requests are alike.
Free(r) ==
  /\ up /\ begun < MaxRequests
  /\ request[r] = Idle /\ \A q \in Request : q < r => request[q] # Idle

Busy == {r \in Request : request[r] # Idle}

\* A request is about a chain, or about every chain of the user.
Meets(q, user, chain) ==
  /\ q.op # "idle" /\ q.user = user
  /\ chain = NoToken \/ q.chain \in {chain, NoToken}

\* A request on a chain begins.  Those at work on the same are observed.
Begin(r, q) ==
  LET met == {p \in Request : Meets(request[p], q.user, q.chain)} IN
  /\ Free(r)
  /\ begun' = begun + 1
  /\ request' = [p \in Request |->
       IF p = r THEN [q EXCEPT !.met = met # {}]
       ELSE IF p \in met THEN [request[p] EXCEPT !.met = TRUE] ELSE request[p]]
  /\ overlap' = overlap \cup ({IF request[p].chain = NoToken THEN q.chain ELSE request[p].chain
                               : p \in met} \ {NoToken})
                        \cup (IF met = {} THEN {} ELSE {q.chain} \ {NoToken})
  /\ UNCHANGED <<now, latest, crashes, lost, left, reset, up>>

End(r) == request' = [request EXCEPT ![r] = Idle]

-----------------------------------------------------------------------------
(* The process.                                                            *)

\* ensure_bootstrap_admin creates a user only when there is none.
Start ==
  /\ ~up /\ up' = TRUE
  /\ users' = IF \A u \in User : users[u] = Unused
              THEN [users EXCEPT ![Admin] = [is |-> "row", pw |-> 0]] ELSE users
  /\ UNCHANGED <<tokens, cookies, limiter, request, clock, seen>>

\* The limiter forgets; a token that was revoked for a refresh has no successor.
Crash ==
  /\ up /\ up' = FALSE
  /\ crashes < MaxCrashes /\ crashes' = crashes + 1
  /\ bucket' = <<>> /\ admitted' = <<>>
  /\ lost' = lost \cup ({request[r].chain : r \in {p \in Busy : request[p].op = "issue"}} \ {NoToken})
  /\ request' = [r \in Request |-> Idle]
  /\ UNCHANGED <<rows, cookies, now, begun, latest, overlap, left, reset>>

Tick ==
  /\ now < MaxTime /\ now' = now + 1
  /\ UNCHANGED <<rows, cookies, up, limiter, request, begun, latest, crashes, seen>>

Expires(t) ==
  /\ Good(t)
  /\ tokens' = [tokens EXCEPT ![t].expired = TRUE]
  /\ UNCHANGED <<users, cookies, up, limiter, request, clock, seen>>

AccessExpires(b) ==
  /\ access[b] # NoUser
  /\ access' = [access EXCEPT ![b] = NoUser]
  /\ UNCHANGED <<rows, jar, up, limiter, request, clock, seen>>

-----------------------------------------------------------------------------
(* Logins.                                                                 *)

\* Mutant: a login as old as the window is forgotten, and so is one more.
Remembered_Short(t) == t + Window > now

Remembered(t) == t + Window >= now

\* allow forgets attempts from the oldest on, up to the first that is remembered.
Forgets(n) ==
  /\ \A i \in 1..n : ~Remembered(bucket[i])
  /\ n < Len(bucket) => Remembered(bucket[n + 1])

Kept(n) == SubSeq(bucket, n + 1, Len(bucket))

Allow ==
  /\ \E n \in 0..Len(bucket) :
       /\ Forgets(n) /\ Len(Kept(n)) < Limit
       /\ bucket' = Append(Kept(n), now)
  /\ admitted' = Append(admitted, now)

Deny ==
  /\ \E n \in 0..Len(bucket) :
       Forgets(n) /\ Len(Kept(n)) >= Limit /\ bucket' = Kept(n)
  /\ UNCHANGED admitted

\* allow, then authenticate, whose commit writes nothing that anyone reads.
Login(r, b, u, pw) ==
  /\ Allow
  /\ users[u] = [is |-> "row", pw |-> pw]
  /\ Begin(r, [op |-> "issue", browser |-> b, user |-> u, pw |-> pw, chain |-> NoToken,
               met |-> FALSE])
  /\ UNCHANGED <<rows, cookies>>

\* Too many attempts, or a wrong name or password, which has used up one.
LoginFails ==
  /\ up /\ begun < MaxRequests /\ begun' = begun + 1
  /\ Allow \/ Deny
  /\ UNCHANGED <<rows, cookies, up, request, now, latest, crashes, seen>>

\* issue_tokens, and the response with both cookies if it arrives.
Issue(r) ==
  LET q == request[r] IN
  /\ q.op = "issue"
  /\ \E t \in Token, arrives \in BOOLEAN :
       LET chain == IF q.chain = NoToken THEN t ELSE q.chain IN
       /\ tokens[t] = Unused /\ \A s \in Token : s < t => tokens[s] # Unused
       /\ tokens' = [tokens EXCEPT ![t] = [is |-> "row", user |-> q.user, pw |-> q.pw,
                       chain |-> chain, live |-> TRUE, expired |-> FALSE]]
       /\ IF arrives
          THEN /\ jar' = [jar EXCEPT ![q.browser] = t]
               /\ access' = [access EXCEPT ![q.browser] = q.user]
          ELSE UNCHANGED cookies
       /\ lost' = IF arrives THEN lost ELSE lost \cup {chain}
       /\ overlap' = IF q.met THEN overlap \cup {chain} ELSE overlap
  /\ End(r)
  /\ UNCHANGED <<users, up, limiter, clock, left, reset>>

-----------------------------------------------------------------------------
(* Refresh and logout.                                                     *)

\* refresh reads the token; one that is not good is answered with 401.
RefreshRead(r, b) ==
  /\ jar[b] # NoToken /\ Good(jar[b])
  /\ LET t == jar[b] IN
     Begin(r, [op |-> "refresh", browser |-> b, user |-> tokens[t].user, pw |-> tokens[t].pw,
               token |-> t, chain |-> tokens[t].chain, met |-> FALSE])
  /\ UNCHANGED <<rows, cookies, limiter>>

\* Mutant: the old token stays good.
Spent_Kept(t) == tokens

Spent(t) == [tokens EXCEPT ![t].live = FALSE]

\* The first commit of refresh: the token it read is revoked, again if need be.
RefreshCommit(r) ==
  LET q == request[r] IN
  /\ q.op = "refresh"
  /\ tokens' = Spent(q.token)
  /\ request' = [request EXCEPT ![r] =
       [op |-> "issue", browser |-> q.browser, user |-> q.user, pw |-> q.pw,
        chain |-> q.chain, met |-> q.met]]
  /\ UNCHANGED <<users, cookies, up, limiter, clock, seen>>

Cleared(b) ==
  /\ jar' = [jar EXCEPT ![b] = NoToken]
  /\ access' = [access EXCEPT ![b] = NoUser]

\* revoke_refresh has nothing to do for a token that is not known or is revoked.
LogoutAtOnce(b) ==
  /\ up
  /\ \/ jar[b] = NoToken /\ access[b] # NoUser
     \/ jar[b] # NoToken /\ ~tokens[jar[b]].live
  /\ Cleared(b)
  /\ left' = IF jar[b] = NoToken THEN left ELSE left \cup {tokens[jar[b]].chain}
  /\ overlap' = IF jar[b] = NoToken THEN overlap
                ELSE overlap \cup {request[p].chain : p \in {r \in Busy :
                       request[r].chain = tokens[jar[b]].chain}}
  /\ UNCHANGED <<rows, up, limiter, request, clock, lost, reset>>

LogoutRead(r, b) ==
  /\ jar[b] # NoToken /\ tokens[jar[b]].live
  /\ LET t == jar[b] IN
     Begin(r, [op |-> "logout", browser |-> b, user |-> tokens[t].user, token |-> t,
               chain |-> tokens[t].chain, met |-> FALSE])
  /\ UNCHANGED <<rows, cookies, limiter>>

Revoked(q) == [tokens EXCEPT ![q.token].live = FALSE]

LogoutCommit(r) ==
  LET q == request[r] IN
  /\ q.op = "logout"
  /\ tokens' = Revoked(q)
  /\ left' = left \cup {q.chain}
  /\ Cleared(q.browser) \/ UNCHANGED cookies
  /\ End(r)
  /\ UNCHANGED <<users, up, limiter, clock, overlap, lost, reset>>

-----------------------------------------------------------------------------
(* Passwords and users.                                                    *)

\* Mutant: the tokens of all users.
Open_Anyone(u) == {t \in Token : tokens[t].is = "row" /\ tokens[t].live}

Open(u) == {t \in Token : tokens[t].is = "row" /\ tokens[t].user = u /\ tokens[t].live}

\* change_password: the access token names the user; the current password is checked
\* and the tokens that are not revoked are selected, after the row of the user was
\* written: it stays locked until the commit.
ChangeRead(r, b) ==
  /\ access[b] # NoUser
  /\ \A q \in Busy : request[q].op = "change" => request[q].user # access[b]
  /\ LET u == access[b] IN
     Begin(r, [op |-> "change", browser |-> b, user |-> u, chain |-> NoToken, met |-> FALSE,
               found |-> Open(u)])
  /\ UNCHANGED <<rows, cookies, limiter>>

\* Mutant: only the token of this browser is revoked.
Ended_Own(q) == {jar[q.browser]} \cap q.found

Ended(q) == q.found

ChangeCommit(r) ==
  LET q == request[r] IN
  /\ q.op = "change" /\ latest < MaxPasswords
  /\ latest' = latest + 1
  /\ users' = [users EXCEPT ![q.user].pw = latest']
  /\ tokens' = [t \in Token |-> IF t \in Ended(q) THEN [tokens[t] EXCEPT !.live = FALSE]
                                ELSE tokens[t]]
  /\ End(r)
  /\ UNCHANGED <<cookies, up, limiter, now, begun, crashes, seen>>

\* create_user by an administrator; its first password is new to everyone.
CreateUser(b, u) ==
  /\ up /\ begun < MaxRequests /\ begun' = begun + 1
  /\ access[b] = Admin /\ users[u] = Unused
  /\ latest < MaxPasswords /\ latest' = latest + 1
  /\ users' = [users EXCEPT ![u] = [is |-> "row", pw |-> latest']]
  /\ UNCHANGED <<tokens, cookies, up, limiter, request, now, crashes, seen>>

\* scripts/create_admin.py sets the password and leaves the tokens as they are.
AdminScript(u) ==
  /\ latest < MaxPasswords /\ latest' = latest + 1
  /\ users' = [users EXCEPT ![u] = [is |-> "row", pw |-> latest']]
  /\ reset' = reset \cup Chains(u)
  /\ request' = [r \in Request |->
       IF request[r] # Idle /\ request[r].user = u THEN [request[r] EXCEPT !.met = TRUE]
       ELSE request[r]]
  /\ UNCHANGED <<tokens, cookies, up, limiter, now, begun, crashes, overlap, lost, left>>

-----------------------------------------------------------------------------
Init ==
  /\ users = [u \in User |-> Unused] /\ tokens = [t \in Token |-> Unused]
  /\ jar = [b \in Browser |-> NoToken] /\ access = [b \in Browser |-> NoUser]
  /\ up = FALSE /\ bucket = <<>> /\ admitted = <<>>
  /\ request = [r \in Request |-> Idle]
  /\ now = 0 /\ begun = 0 /\ latest = 0 /\ crashes = 0
  /\ overlap = {} /\ lost = {} /\ left = {} /\ reset = {}

Next ==
  \/ Start \/ Crash \/ Tick \/ LoginFails
  \/ \E t \in Token : Expires(t)
  \/ \E b \in Browser : AccessExpires(b) \/ LogoutAtOnce(b)
  \/ \E b \in Browser, u \in User : CreateUser(b, u)
  \/ \E u \in User : AdminScript(u)
  \/ \E r \in Request :
       \/ Issue(r) \/ RefreshCommit(r) \/ LogoutCommit(r) \/ ChangeCommit(r)
       \/ \E b \in Browser :
            \/ \E u \in User, pw \in 0..MaxPasswords : Login(r, b, u, pw)
            \/ RefreshRead(r, b) \/ LogoutRead(r, b) \/ ChangeRead(r, b)

Spec == Init /\ [][Next]_vars

-----------------------------------------------------------------------------
(* What must hold.                                                         *)

\* Rows are complete, a chain is named by its first token, and cookies hold tokens that
\* were issued.
TypeOK ==
  /\ users \in [User -> {Unused} \cup [is : {"row"}, pw : 0..latest]]
  /\ tokens \in [Token -> {Unused} \cup Row]
  /\ \A b \in Browser : jar[b] # NoToken => jar[b] \in Token /\ tokens[jar[b]] # Unused
  /\ access \in [Browser -> User \cup {NoUser}]
  /\ \A t \in Token : tokens[t] # Unused => tokens[tokens[t].chain] # Unused
  /\ \A r \in Busy : request[r].op \in {"issue", "refresh", "logout", "change"}

\* A login leaves one refresh token that is not revoked, however often it is refreshed;
\* refreshes at the same time, which both read the token before either revoked it, leave
\* more of them.
OneLivePerLogin ==
  \A c \in Token : c \notin overlap => Cardinality(Live(c)) <= 1

\* A session that was ended cannot be refreshed: a live token of a login that nobody was
\* at work for at the same time was not logged out, unless its token never reached the
\* browser, and descends from the current password of its user, unless the script set
\* the password.  change_password ends all sessions of the user, revoke_refresh one.
EndedSessionsStayEnded ==
  \A t \in Token :
    tokens[t].is = "row" /\ tokens[t].live /\ tokens[t].chain \notin overlap =>
      /\ tokens[t].chain \in left => tokens[t].chain \in lost
      /\ tokens[t].pw # users[tokens[t].user].pw => tokens[t].chain \in reset

\* A browser does not lose its session: its token is good until it expires, unless the
\* password was changed, the session was logged out, two requests met, or a response or
\* a successor was lost.
SessionsLast ==
  \A b \in Browser :
    jar[b] # NoToken /\ ~tokens[jar[b]].live =>
      \/ tokens[jar[b]].chain \in overlap \cup lost \cup left
      \/ tokens[jar[b]].pw # users[tokens[jar[b]].user].pw
      \/ \E r \in Busy : request[r].op = "issue" /\ request[r].chain = tokens[jar[b]].chain

\* In no window are more logins let through than the limit; the window counts from the
\* start of the process, which keeps the attempts in memory.
LoginsBounded ==
  \A i \in 1..Len(admitted) :
    i + Limit <= Len(admitted) => admitted[i + Limit] > admitted[i] + Window
=============================================================================
