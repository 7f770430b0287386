-------------------------- MODULE AuthSessionsProofs --------------------------
(***************************************************************************)
(* Proofs about AuthSessions: for any number of users, browsers, tokens,   *)
(* requests at the same time, crashes and changes of passwords.            *)
(***************************************************************************)
EXTENDS AuthSessions, FiniteSetTheorems, SequenceTheorems, TLAPS

-----------------------------------------------------------------------------
(* The inductive invariant. *)

\* What the web process holds in a slot.
Requests ==
  {Idle}
  \cup [op : {"issue"}, browser : Browser, user : User, pw : Nat,
        chain : Token \cup {NoToken}, met : BOOLEAN]
  \cup [op : {"refresh"}, browser : Browser, user : User, pw : Nat, token : Token,
        chain : Token, met : BOOLEAN]
  \cup [op : {"logout"}, browser : Browser, user : User, token : Token,
        chain : Token, met : BOOLEAN]
  \cup [op : {"change"}, browser : Browser, user : User, chain : {NoToken},
        found : SUBSET Token, met : BOOLEAN]

TypeInv ==
  /\ latest \in Nat
  /\ users \in [User -> {Unused} \cup [is : {"row"}, pw : 0..latest]]
  /\ tokens \in [Token -> {Unused} \cup Row]
  /\ jar \in [Browser -> Token \cup {NoToken}]
  /\ access \in [Browser -> User \cup {NoUser}]
  /\ request \in [Request -> Requests]

IsRow(t) == tokens[t].is = "row"

LiveToken(t) == tokens[t].is = "row" /\ tokens[t].live

At(r, ops) == request[r].op \in ops

AtWork == {"issue", "refresh", "logout", "change"}

\* Chains, cookies and requests name what exists, and a chain has one user.
ChainInv ==
  /\ \A t \in Token : IsRow(t) =>
       /\ IsRow(tokens[t].chain) /\ tokens[tokens[t].chain].user = tokens[t].user
       /\ users[tokens[t].user].is = "row"
  /\ \A t \in Token : t \in left => IsRow(t)
  /\ \A b \in Browser :
       /\ jar[b] # NoToken => IsRow(jar[b])
       /\ access[b] # NoUser => users[access[b]].is = "row"
  /\ \A r \in Request : At(r, AtWork) =>
       /\ users[request[r].user].is = "row"
       /\ request[r].chain # NoToken =>
            /\ IsRow(request[r].chain)
            /\ tokens[request[r].chain].user = request[r].user
       /\ At(r, {"refresh", "logout"}) =>
            IsRow(request[r].token) /\ tokens[request[r].token].chain = request[r].chain
       /\ \A t \in Token : At(r, {"change"}) /\ t \in request[r].found =>
            IsRow(t) /\ tokens[t].user = request[r].user

\* No password is newer than the latest.
NewestInv ==
  /\ \A t \in Token : IsRow(t) => tokens[t].pw <= latest
  /\ \A r \in Request : At(r, {"issue", "refresh"}) => request[r].pw <= latest

\* Two requests on a chain have been seen to overlap.
SoloInv ==
  \A r, s \in Request :
    /\ r # s /\ At(r, AtWork) /\ At(s, AtWork)
    /\ request[r].chain # NoToken /\ request[r].chain = request[s].chain
    => request[r].chain \in overlap

\* A chain belongs to one browser.
SeatInv ==
  /\ \A a, b \in Browser :
       /\ jar[a] # NoToken /\ jar[b] # NoToken
       /\ tokens[jar[a]].chain = tokens[jar[b]].chain
       => a = b
  /\ \A b \in Browser, r \in Request :
       /\ jar[b] # NoToken /\ At(r, AtWork)
       /\ request[r].chain = tokens[jar[b]].chain
       => request[r].browser = b
  /\ \A r, s \in Request :
       /\ At(r, AtWork) /\ At(s, AtWork)
       /\ request[r].chain # NoToken /\ request[r].chain = request[s].chain
       => request[r].browser = request[s].browser

\* Of a chain without an overlap one token is live, and the requests at work on the
\* chain are about that token; once it is revoked for its successor there is none.
LiveInv ==
  \A t \in Token : LiveToken(t) /\ tokens[t].chain \notin overlap =>
    /\ \A s \in Token : LiveToken(s) /\ tokens[s].chain = tokens[t].chain => s = t
    /\ \A r \in Request :
         At(r, AtWork) /\ request[r].chain = tokens[t].chain =>
           At(r, {"refresh", "logout"}) /\ request[r].token = t

\* A chain that was logged out is over, and a browser whose token was revoked has no
\* other token of the chain coming.
LeftInv ==
  /\ \A t \in Token : LiveToken(t) /\ tokens[t].chain \notin overlap \cup lost =>
       /\ tokens[t].chain \notin left
       /\ \A b \in Browser :
            jar[b] # NoToken /\ tokens[jar[b]].chain = tokens[t].chain => jar[b] = t
  /\ \A r \in Request :
       At(r, {"issue", "refresh"}) /\ request[r].chain # NoToken
       /\ request[r].chain \in left => request[r].chain \in overlap \cup lost

\* Whoever is at work with an older password has met the change, or its chain is known
\* to survive it.
PasswordInv ==
  /\ \A t \in Token : LiveToken(t) /\ tokens[t].chain \notin overlap \cup reset =>
       tokens[t].pw = users[tokens[t].user].pw
  /\ \A r \in Request : At(r, {"issue", "refresh"}) =>
       \/ request[r].met
       \/ request[r].pw = users[request[r].user].pw
       \/ request[r].chain # NoToken /\ request[r].chain \in overlap \cup reset
  /\ \A r \in Request : At(r, {"change"}) =>
       /\ \A s \in Request :
            At(s, {"issue", "refresh"}) /\ request[s].user = request[r].user => request[s].met
       /\ \A t \in Token : LiveToken(t) /\ tokens[t].user = request[r].user =>
            t \in request[r].found \/ tokens[t].chain \in overlap

Inv ==
  /\ TypeInv /\ ChainInv /\ NewestInv /\ SoloInv /\ SeatInv
  /\ LiveInv /\ LeftInv /\ PasswordInv /\ SessionsLast

-----------------------------------------------------------------------------
(* Requests. *)

LEMMA Fields ==
  ASSUME NEW q \in Requests
  PROVE  /\ q # Idle <=> q.op \in AtWork
         /\ q.op \in AtWork =>
              /\ q.browser \in Browser /\ q.user \in User /\ q.met \in BOOLEAN
              /\ q.chain \in Token \cup {NoToken}
         /\ q.op \in {"refresh", "logout"} => q.token \in Token /\ q.chain \in Token
         /\ q.op = "change" => q.chain = NoToken /\ q.found \in SUBSET Token
         /\ q.op \in {"issue", "refresh"} => q.pw \in Nat
BY DEF Requests, Idle, AtWork

\* The same call, whether it has met another or not.
Same(p, q) ==
  /\ p.op = q.op /\ p.browser = q.browser /\ p.user = q.user /\ p.chain = q.chain
  /\ q.op \in {"issue", "refresh"} => p.pw = q.pw
  /\ q.op \in {"refresh", "logout"} => p.token = q.token
  /\ q.op = "change" => p.found = q.found

LEMMA Marked ==
  ASSUME NEW q \in Requests, q.op \in AtWork, NEW b \in BOOLEAN
  PROVE  LET p == [q EXCEPT !.met = b]
         IN p \in Requests /\ Same(p, q) /\ p.met = b
<1>1. CASE q.op = "issue"  BY <1>1 DEF Requests, Idle, AtWork, Same
<1>2. CASE q.op = "refresh"  BY <1>2 DEF Requests, Idle, AtWork, Same
<1>3. CASE q.op = "logout"  BY <1>3 DEF Requests, Idle, AtWork, Same
<1>4. CASE q.op = "change"  BY <1>4 DEF Requests, Idle, AtWork, Same
<1> QED BY <1>1, <1>2, <1>3, <1>4 DEF AtWork

\* What a request that begins does to those at work.
Begun(r, q) ==
  /\ request' \in [Request -> Requests]
  /\ request[r].op = "idle" /\ Same(request'[r], q)
  /\ \A p \in Request \ {r} :
       /\ request[p].op = "idle" => request'[p].op = "idle"
       /\ request[p].op \in AtWork =>
            /\ Same(request'[p], request[p])
            /\ request[p].met => request'[p].met
            /\ Meets(request[p], q.user, q.chain) => request'[p].met /\ request'[r].met
            /\ request[p].user = q.user /\ q.chain # NoToken /\ request[p].chain = q.chain
               => q.chain \in overlap'
  /\ overlap \subseteq overlap'

LEMMA BeginStep ==
  ASSUME request \in [Request -> Requests], NEW r \in Request,
         NEW q \in Requests, q.op \in AtWork, Begin(r, q)
  PROVE  Begun(r, q)
<1> DEFINE met == {p \in Request : Meets(request[p], q.user, q.chain)}
<1>1. request[r] = Idle /\ r \notin met
  BY DEF Begin, Free, Idle, Meets
<1>2. request' = [p \in Request |->
        IF p = r THEN [q EXCEPT !.met = (met # {})]
        ELSE IF p \in met THEN [request[p] EXCEPT !.met = TRUE] ELSE request[p]]
  BY DEF Begin
<1>3. overlap \subseteq overlap' /\ (met # {} => {q.chain} \ {NoToken} \subseteq overlap')
  BY DEF Begin
<1>4. \A p \in Request : p \in met <=> Meets(request[p], q.user, q.chain)
  OBVIOUS
<1> HIDE DEF met
<1>5. request'[r] \in Requests /\ Same(request'[r], q) /\ request'[r].met = (met # {})
  BY <1>2, Marked
<1>6. ASSUME NEW p \in Request \ {r}, request[p].op = "idle"
      PROVE  request'[p] = request[p]
  BY <1>2, <1>4, <1>6 DEF Meets
<1>7. ASSUME NEW p \in Request \ {r}, request[p].op \in AtWork
      PROVE  /\ request'[p] \in Requests /\ Same(request'[p], request[p])
             /\ p \in met => request'[p].met
             /\ request[p].met => request'[p].met
  <2>1. CASE p \in met
    BY <1>2, <1>7, <2>1, Marked
  <2>2. CASE p \notin met
    BY <1>2, <1>7, <2>2 DEF Same
  <2> QED BY <2>1, <2>2
<1>8. \A p \in Request : request[p].op \in AtWork \cup {"idle"}
  BY Fields DEF Idle
<1>9. request' \in [Request -> Requests]
  BY <1>2, <1>5, <1>6, <1>7, <1>8
<1>10. ASSUME NEW p \in Request, request[p].op \in AtWork, request[p].user = q.user,
              q.chain # NoToken, request[p].chain = q.chain
       PROVE  q.chain \in overlap'
  BY <1>3, <1>4, <1>10 DEF Meets, AtWork
<1>11. ASSUME NEW p \in Request \ {r}, request[p].op \in AtWork,
              Meets(request[p], q.user, q.chain)
       PROVE  request'[p].met /\ request'[r].met
  <2>1. p \in met
    BY <1>4, <1>11
  <2> QED BY <2>1, <1>5, <1>7, <1>11
<1>12. request[r].op = "idle"
  BY <1>1 DEF Idle
<1> QED
  BY <1>12, <1>3, <1>5, <1>6, <1>7, <1>9, <1>10, <1>11 DEF Begun

\* What the types and the chains say of tokens, cookies and requests.
LEMMA Chained ==
  ASSUME Inv
  PROVE  /\ \A t \in Token : IsRow(t) =>
              /\ tokens[t].chain \in Token /\ tokens[t].user \in User
              /\ tokens[t].pw \in Nat /\ tokens[t].live \in BOOLEAN
         /\ \A b \in Browser : jar[b] # NoToken =>
              jar[b] \in Token /\ IsRow(jar[b]) /\ tokens[jar[b]].chain \in Token
         /\ \A r \in Request :
              /\ request[r] \in Requests /\ request[r].op \in AtWork \cup {"idle"}
              /\ At(r, AtWork) => /\ request[r].browser \in Browser /\ request[r].user \in User
                                  /\ request[r].met \in BOOLEAN
                                  /\ request[r].chain \in Token \cup {NoToken}
              /\ At(r, {"refresh", "logout"}) => /\ request[r].token \in Token
                                                 /\ request[r].chain \in Token
                                                 /\ IsRow(request[r].token)
              /\ At(r, {"issue", "refresh"}) => request[r].pw \in Nat
              /\ At(r, {"change"}) => request[r].chain = NoToken
                                      /\ request[r].found \in SUBSET Token
<1> USE DEF Inv
<1>1. \A t \in Token : IsRow(t) =>
        /\ tokens[t].chain \in Token /\ tokens[t].user \in User
        /\ tokens[t].pw \in Nat /\ tokens[t].live \in BOOLEAN
  BY DEF TypeInv, IsRow, Unused, Row
<1>2. \A b \in Browser : jar[b] # NoToken =>
        jar[b] \in Token /\ IsRow(jar[b]) /\ tokens[jar[b]].chain \in Token
  BY <1>1 DEF TypeInv, ChainInv
<1>3. \A r \in Request : request[r] \in Requests /\ request[r].op \in AtWork \cup {"idle"}
  BY Fields DEF TypeInv, Idle
<1>4. \A r \in Request : At(r, {"refresh", "logout"}) => IsRow(request[r].token)
  BY DEF ChainInv, At, AtWork
<1> QED BY <1>1, <1>2, <1>3, <1>4, Fields DEF At, AtWork

-----------------------------------------------------------------------------
(* The steps. *)

\* Tokens and requests stay; users who have a row keep it.
LEMMA RestStep ==
  ASSUME Inv, UNCHANGED <<tokens, jar, request, overlap, lost, left, reset>>,
         latest' \in Nat, latest <= latest',
         users' \in [User -> {Unused} \cup [is : {"row"}, pw : 0..latest']],
         \A u \in User : users[u].is = "row" => users'[u] = users[u],
         access' \in [Browser -> User \cup {NoUser}],
         \A b \in Browser : access'[b] \in {access[b], NoUser}
  PROVE  Inv'
<1> USE DEF Inv
<1>0. /\ \A r \in Request : request[r] \in Requests
      /\ \A r \in Request : At(r, AtWork) => request[r].user \in User
      /\ \A r \in Request : At(r, {"issue", "refresh"}) => At(r, AtWork) /\ request[r].pw \in Nat
      /\ \A t \in Token : IsRow(t) => tokens[t].user \in User /\ tokens[t].pw \in Nat
  BY Fields DEF TypeInv, At, AtWork, IsRow, Unused, Row
<1>1. TypeInv'
  BY DEF TypeInv
<1>2. ChainInv'
  BY <1>0 DEF TypeInv, ChainInv, IsRow, At
<1>3. NewestInv'
  BY <1>0 DEF TypeInv, NewestInv, IsRow, At
<1>4. SoloInv' /\ SeatInv' /\ LeftInv'
  BY DEF SoloInv, SeatInv, LeftInv, LiveToken, At
<1>5. LiveInv'
  BY DEF LiveInv, LiveToken, At
<1>6. PasswordInv'
  BY <1>0 DEF ChainInv, PasswordInv, LiveToken, IsRow, At
<1>7. SessionsLast'
  BY <1>0 DEF TypeInv, ChainInv, SessionsLast, IsRow, Busy
<1> QED BY <1>1, <1>2, <1>3, <1>4, <1>5, <1>6, <1>7

\* Time, failed logins, new users, access tokens that expire.
LEMMA OtherSteps ==
  ASSUME Inv,
         \/ Start \/ Tick \/ LoginFails
         \/ \E b \in Browser : AccessExpires(b)
         \/ \E b \in Browser, u \in User : CreateUser(b, u)
         \/ UNCHANGED vars
  PROVE  Inv'
<1>0. TypeInv
  BY DEF Inv
<1>1. CASE UNCHANGED vars
  BY <1>0, <1>1, RestStep DEF TypeInv, vars, rows, cookies, clock, seen
<1>2. CASE Tick
  BY <1>0, <1>2, RestStep DEF Tick, TypeInv, rows, cookies, seen
<1>3. CASE LoginFails
  BY <1>0, <1>3, RestStep DEF LoginFails, TypeInv, rows, cookies, seen
<1>4. CASE Start
  BY <1>0, <1>4, RestStep, AuthAssumption DEF Start, TypeInv, cookies, clock, seen, Unused
<1>5. ASSUME NEW b \in Browser, AccessExpires(b)
      PROVE  Inv'
  BY <1>0, <1>5, RestStep DEF AccessExpires, TypeInv, rows, clock, seen
<1>6. ASSUME NEW b \in Browser, NEW u \in User, CreateUser(b, u)
      PROVE  Inv'
  <2>1. /\ latest' = latest + 1 /\ users[u] = Unused
        /\ users' = [users EXCEPT ![u] = [is |-> "row", pw |-> latest']]
        /\ UNCHANGED <<tokens, jar, access, request, overlap, lost, left, reset>>
    BY <1>6 DEF CreateUser, cookies, seen
  <2>2. users' \in [User -> {Unused} \cup [is : {"row"}, pw : 0..latest']]
    BY <1>0, <2>1 DEF TypeInv, Unused
  <2> QED BY <1>0, <2>1, <2>2, RestStep DEF TypeInv, Unused
<1> QED BY <1>1, <1>2, <1>3, <1>4, <1>5, <1>6

LEMMA ExpiresStep ==
  ASSUME Inv, NEW t \in Token, Expires(t)
  PROVE  Inv'
<1> USE DEF Inv
<1>1. UNCHANGED <<users, latest, jar, access, request, overlap, lost, left, reset>>
  BY DEF Expires, cookies, clock, seen
<1>2. /\ tokens' = [tokens EXCEPT ![t] = tokens'[t]]
      /\ tokens'[t] = [tokens[t] EXCEPT !.expired = TRUE] /\ tokens[t] \in Row
  BY DEF Expires, Good, TypeInv, Unused
<1>3. /\ tokens'[t] \in Row
      /\ tokens'[t].is = tokens[t].is /\ tokens'[t].user = tokens[t].user
      /\ tokens'[t].pw = tokens[t].pw /\ tokens'[t].chain = tokens[t].chain
      /\ tokens'[t].live = tokens[t].live
  BY <1>2 DEF Row
<1>4. TypeInv'
  BY <1>1, <1>2, <1>3 DEF TypeInv
<1>5. \A s \in Token :
        /\ tokens'[s].is = tokens[s].is
        /\ IsRow(s) => /\ tokens'[s].user = tokens[s].user /\ tokens'[s].pw = tokens[s].pw
                       /\ tokens'[s].chain = tokens[s].chain
                       /\ tokens'[s].live = tokens[s].live
  BY <1>2, <1>3 DEF TypeInv
<1>6. /\ \A s \in Token : IsRow(s) => tokens[s].chain \in Token
      /\ \A r \in Request : request[r] \in Requests
      /\ \A r \in Request : At(r, {"refresh", "logout"}) => request[r].token \in Token
      /\ \A r \in Request : At(r, AtWork) => request[r].chain \in Token \cup {NoToken}
      /\ \A b \in Browser : jar[b] \in Token \cup {NoToken}
  BY Fields DEF TypeInv, At, AtWork, IsRow, Unused, Row
<1>7. ChainInv' /\ NewestInv'
  BY <1>1, <1>5, <1>6 DEF ChainInv, NewestInv, IsRow, At
<1>8. SoloInv' /\ SeatInv'
  BY <1>1, <1>5, <1>6 DEF ChainInv, SoloInv, SeatInv, At
<1>9. LiveInv' /\ LeftInv' /\ PasswordInv'
  BY <1>1, <1>5, <1>6 DEF ChainInv, LiveInv, LeftInv, PasswordInv, LiveToken, IsRow, At
<1>10. SessionsLast'
  BY <1>1, <1>5, <1>6 DEF ChainInv, SessionsLast, IsRow, Busy
<1> QED BY <1>4, <1>7, <1>8, <1>9, <1>10

LEMMA CrashStep ==
  ASSUME Inv, Crash
  PROVE  Inv'
<1> USE DEF Inv
<1>1. /\ UNCHANGED <<users, tokens, latest, jar, access, overlap, left, reset>>
      /\ lost \subseteq lost' /\ request' = [r \in Request |-> Idle]
      /\ \A r \in Request : request[r].op = "issue" /\ request[r].chain # NoToken
                              => request[r].chain \in lost'
  BY DEF Crash, rows, cookies, Busy, Idle
<1>2. \A r \in Request : request'[r].op = "idle"
  BY <1>1 DEF Idle
<1>3. TypeInv'
  BY <1>1 DEF TypeInv, Requests
<1>4. ChainInv' /\ NewestInv' /\ SoloInv' /\ SeatInv'
  BY <1>1, <1>2 DEF ChainInv, NewestInv, SoloInv, SeatInv, IsRow, At, AtWork
<1>5. LiveInv' /\ LeftInv' /\ PasswordInv'
  BY <1>1, <1>2 DEF LiveInv, LeftInv, PasswordInv, LiveToken, At, AtWork
<1>6. SessionsLast'
  <2>1. \A b \in Browser : jar[b] # NoToken => tokens[jar[b]].chain \in Token
    BY DEF TypeInv, ChainInv, IsRow, Row, Unused
  <2> QED BY <1>1, <2>1, AuthAssumption DEF SessionsLast, Busy
<1> QED BY <1>3, <1>4, <1>5, <1>6

LEMMA LogoutAtOnceStep ==
  ASSUME Inv, NEW b \in Browser, LogoutAtOnce(b)
  PROVE  Inv'
<1> USE DEF Inv
<1>1. /\ UNCHANGED <<users, tokens, latest, request, lost, reset>>
      /\ jar' = [jar EXCEPT ![b] = NoToken] /\ access' = [access EXCEPT ![b] = NoUser]
      /\ overlap \subseteq overlap'
  BY DEF LogoutAtOnce, Cleared, rows, clock
<1>2. \/ left' = left
      \/ /\ jar[b] # NoToken /\ ~tokens[jar[b]].live
         /\ left' = left \cup {tokens[jar[b]].chain}
         /\ \A r \in Request : At(r, AtWork) /\ request[r].chain = tokens[jar[b]].chain
                                 => request[r].chain \in overlap'
  BY DEF LogoutAtOnce, Busy, At, AtWork, Idle
<1>3. TypeInv'
  BY <1>1 DEF TypeInv
<1>4. \A a \in Browser : /\ jar'[a] = jar[a] \/ jar'[a] = NoToken
                         /\ access'[a] = access[a] \/ access'[a] = NoUser
  BY <1>1 DEF TypeInv
<1>5. jar'[b] = NoToken
  BY <1>1 DEF TypeInv
<1>6. ChainInv'
  <2>1. \A t \in Token : t \in left' => IsRow(t)
    BY <1>2, Chained DEF ChainInv
  <2> QED BY <1>1, <1>4, <2>1 DEF ChainInv, IsRow, At
<1>7. NewestInv' /\ SoloInv' /\ SeatInv'
  BY <1>1, <1>4 DEF NewestInv, SoloInv, SeatInv, IsRow, At
<1>8. LiveInv' /\ PasswordInv'
  BY <1>1 DEF LiveInv, PasswordInv, LiveToken, At
<1>9. LeftInv'
  BY <1>1, <1>2, <1>4, <1>5 DEF LeftInv, LiveToken, At, AtWork, TypeInv
<1>10. SessionsLast'
  BY <1>1, <1>2, <1>4 DEF SessionsLast, Busy
<1> QED BY <1>3, <1>6, <1>7, <1>8, <1>9, <1>10

LEMMA AdminScriptStep ==
  ASSUME Inv, NEW u \in User, AdminScript(u)
  PROVE  Inv'
<1> USE DEF Inv
<1>1. /\ UNCHANGED <<tokens, jar, access, overlap, lost, left>>
      /\ latest' = latest + 1 /\ users' = [users EXCEPT ![u] = [is |-> "row", pw |-> latest']]
      /\ reset' = reset \cup Chains(u)
  BY DEF AdminScript, cookies
<1>2. \A r \in Request :
        /\ request'[r] \in Requests
        /\ request[r].op = "idle" => request'[r].op = "idle"
        /\ At(r, AtWork) => /\ Same(request'[r], request[r])
                            /\ request[r].met => request'[r].met
                            /\ request[r].user = u => request'[r].met
  <2> TAKE r \in Request
  <2>1. request[r] \in Requests
    BY DEF TypeInv
  <2>2. CASE request[r] # Idle /\ request[r].user = u
    <3>1. request'[r] = [request[r] EXCEPT !.met = TRUE] /\ request[r].op \in AtWork
      BY <2>1, <2>2, Fields DEF AdminScript
    <3> QED BY <2>1, <3>1, Marked DEF At, AtWork
  <2>3. CASE ~(request[r] # Idle /\ request[r].user = u)
    <3>1. request'[r] = request[r]
      BY <2>3 DEF AdminScript
    <3> QED BY <2>1, <2>3, <3>1, Fields DEF At, Same
  <2> QED BY <2>2, <2>3
<1>3. TypeInv'
  <2>1. request' \in [Request -> Requests]
    BY <1>2 DEF AdminScript
  <2> QED BY <1>1, <2>1 DEF TypeInv, Unused
<1>4. \A r \in Request : request[r] \in Requests /\ request[r].op \in AtWork \cup {"idle"}
  BY Fields DEF TypeInv, Idle
<1>5. /\ users'[u].is = "row" /\ users'[u].pw = latest + 1
      /\ \A v \in User : v # u => users'[v] = users[v]
  BY <1>1 DEF TypeInv
<1>6. \A t \in Token : IsRow(t) => /\ tokens[t].user \in User /\ tokens[t].pw \in Nat
                                   /\ tokens[t].user = u => tokens[t].chain \in reset'
  BY <1>1 DEF TypeInv, IsRow, Unused, Row, Chains
<1>7. \A r \in Request : At(r, AtWork) => request[r].user \in User
  BY <1>4, Fields DEF At
<1>8. \A r \in Request : /\ At(r, AtWork) <=> At(r, AtWork)'
                         /\ At(r, AtWork) => Same(request'[r], request[r])
  BY <1>2, <1>4 DEF At, AtWork, Same
<1>9. ChainInv'
  BY <1>1, <1>5, <1>6, <1>7, <1>8 DEF TypeInv, ChainInv, IsRow, At, AtWork, Same
<1>10. NewestInv'
  <2>1. \A r \in Request : At(r, {"issue", "refresh"}) => request[r].pw \in Nat
    BY <1>4, Fields DEF At
  <2> QED BY <1>1, <1>6, <1>8, <2>1 DEF TypeInv, NewestInv, IsRow, At, AtWork, Same
<1>11. SoloInv' /\ SeatInv' /\ LiveInv'
  BY <1>1, <1>8 DEF SoloInv, SeatInv, LiveInv, LiveToken, At, AtWork, Same
<1>12. LeftInv'
  BY <1>1, <1>8 DEF LeftInv, LiveToken, At, AtWork, Same
<1>13. PasswordInv'
  BY <1>1, <1>2, <1>5, <1>6, <1>7, <1>8 DEF PasswordInv, LiveToken, IsRow, At, AtWork, Same
<1>14. SessionsLast'
  <2>1. \A b \in Browser : jar[b] # NoToken => jar[b] \in Token /\ IsRow(jar[b])
    BY DEF TypeInv, ChainInv
  <2>2. \A r \in Request : r \in Busy /\ request[r].op = "issue" =>
          r \in Busy' /\ request'[r].op = "issue" /\ request'[r].chain = request[r].chain
    BY <1>8 DEF Busy, At, AtWork, Same, Idle
  <2>3. \A t \in Token : IsRow(t) /\ tokens[t].pw # users[tokens[t].user].pw
                           => tokens[t].pw # users'[tokens[t].user].pw
    BY <1>5, <1>6 DEF NewestInv, TypeInv
  <2> QED BY <1>1, <2>1, <2>2, <2>3 DEF SessionsLast, Busy
<1> QED BY <1>3, <1>9, <1>10, <1>11, <1>12, <1>13, <1>14

\* What a request that begins has read.
Fresh(q) ==
  /\ q \in Requests /\ q.op \in AtWork /\ users[q.user].is = "row"
  /\ q.chain # NoToken =>
       /\ q.op \in {"refresh", "logout"} /\ jar[q.browser] = q.token /\ LiveToken(q.token)
       /\ tokens[q.token].chain = q.chain /\ tokens[q.token].user = q.user
  /\ q.op \in {"refresh", "logout"} => q.chain # NoToken
  /\ q.op = "issue" => q.pw = users[q.user].pw
  /\ q.op = "refresh" => q.pw = tokens[q.token].pw
  /\ q.op = "change" => \A t \in Token : t \in q.found <=> LiveToken(t) /\ tokens[t].user = q.user

LEMMA FreshStep ==
  ASSUME Inv, NEW r \in Request, NEW q, Fresh(q), Begin(r, q),
         UNCHANGED <<users, tokens, jar, access>>
  PROVE  Inv'
<1> USE DEF Inv
<1>1. Begun(r, q)
  BY BeginStep DEF Fresh, TypeInv
<1>2. UNCHANGED <<latest, lost, left, reset>> /\ overlap \subseteq overlap'
  BY <1>1 DEF Begin, Begun
<1>3. TypeInv'
  BY <1>1, <1>2 DEF TypeInv, Begun
<1>4. \A p \in Request : request[p] \in Requests /\ request[p].op \in AtWork \cup {"idle"}
  BY Fields DEF TypeInv, Idle
<1>5. Same(request'[r], q) /\ At(r, AtWork)' /\ ~At(r, AtWork)
  BY <1>1 DEF Begun, Same, Fresh, At, AtWork
<1>6. \A p \in Request \ {r} :
        /\ At(p, AtWork) <=> At(p, AtWork)'
        /\ At(p, AtWork) =>
             /\ Same(request'[p], request[p])
             /\ request[p].met => request'[p].met
             /\ Meets(request[p], q.user, q.chain) => request'[p].met /\ request'[r].met
             /\ request[p].user = q.user /\ q.chain # NoToken /\ request[p].chain = q.chain
                => q.chain \in overlap'
  BY <1>1, <1>4 DEF Begun, Same, At, AtWork
<1>7. /\ q.browser \in Browser /\ q.user \in User /\ q.chain \in Token \cup {NoToken}
      /\ q.chain # NoToken => q.token \in Token
      /\ q.op \in {"issue", "refresh"} => q.pw \in Nat
  BY Fields DEF Fresh
<1>8. q.chain # NoToken => IsRow(q.chain) /\ tokens[q.chain].user = q.user
  BY <1>7 DEF Fresh, ChainInv, LiveToken, IsRow
\* The requests on the chain are of its user, so those at work have been met.
<1>9. \A p \in Request \ {r} :
        At(p, AtWork) /\ q.chain # NoToken /\ request[p].chain = q.chain => q.chain \in overlap'
  BY <1>6, <1>8 DEF ChainInv
<1>10. ChainInv'
  <2>1. \A p \in Request : At(p, AtWork)' =>
          /\ users[request'[p].user].is = "row"
          /\ request'[p].chain # NoToken =>
               /\ IsRow(request'[p].chain)
               /\ tokens[request'[p].chain].user = request'[p].user
          /\ At(p, {"refresh", "logout"})' =>
               IsRow(request'[p].token) /\ tokens[request'[p].token].chain = request'[p].chain
          /\ \A t \in Token : At(p, {"change"})' /\ t \in request'[p].found =>
               IsRow(t) /\ tokens[t].user = request'[p].user
    <3> TAKE p \in Request
    <3>1. CASE p = r
      BY <3>1, <1>5, <1>7, <1>8 DEF Fresh, Same, At, IsRow, LiveToken
    <3>2. CASE p # r
      BY <3>2, <1>6 DEF ChainInv, Same, At
    <3> QED BY <3>1, <3>2
  <2> QED BY <1>2, <2>1 DEF ChainInv, IsRow, At
<1>11. NewestInv'
  <2>1. \A p \in Request : At(p, {"issue", "refresh"})' => request'[p].pw <= latest
    <3> TAKE p \in Request
    <3>1. CASE p = r
      BY <3>1, <1>5, <1>7 DEF Fresh, Same, At, NewestInv, TypeInv, IsRow, LiveToken, Unused
    <3>2. CASE p # r
      BY <3>2, <1>6 DEF NewestInv, Same, At, AtWork
    <3> QED BY <3>1, <3>2
  <2> QED BY <1>2, <2>1 DEF NewestInv, IsRow
<1>12. SoloInv'
  BY <1>2, <1>5, <1>6, <1>9 DEF SoloInv, Same
<1>13. SeatInv'
  <2>1. \A b \in Browser, p \in Request :
          /\ jar[b] # NoToken /\ At(p, AtWork)'
          /\ request'[p].chain = tokens[jar[b]].chain
          => request'[p].browser = b
    <3> SUFFICES ASSUME NEW b \in Browser, NEW p \in Request, jar[b] # NoToken,
                        At(p, AtWork)', request'[p].chain = tokens[jar[b]].chain
                 PROVE  request'[p].browser = b
      OBVIOUS
    <3>1. tokens[jar[b]].chain # NoToken
      BY Chained, AuthAssumption
    <3>2. CASE p = r
      BY <3>1, <3>2, <1>5, <1>7, AuthAssumption DEF SeatInv, Same, Fresh
    <3>3. CASE p # r
      BY <3>3, <1>6 DEF SeatInv, Same
    <3> QED BY <3>2, <3>3
\* The browser of the token that was read has no other browser's requests on its chain.
  <2>2. ASSUME NEW p \in Request, At(p, AtWork)', p # r, q.chain # NoToken,
               request'[p].chain = q.chain
        PROVE  request'[p].browser = q.browser
    <3>1. At(p, AtWork) /\ request[p].chain = tokens[jar[q.browser]].chain
      BY <2>2, <1>6 DEF Same, Fresh
    <3>2. request[p].browser = q.browser
      BY <2>2, <3>1, <1>7, AuthAssumption DEF SeatInv, Fresh
    <3> QED BY <2>2, <3>2, <1>6 DEF Same
  <2>3. ASSUME NEW p \in Request, NEW s \in Request, At(p, AtWork)', At(s, AtWork)',
               request'[p].chain # NoToken, request'[p].chain = request'[s].chain
        PROVE  request'[p].browser = request'[s].browser
    <3>1. CASE p = r \/ s = r
      BY <2>2, <2>3, <3>1, <1>5 DEF Same
    <3>2. CASE p # r /\ s # r
      BY <2>3, <3>2, <1>6 DEF SeatInv, Same
    <3> QED BY <3>1, <3>2
  <2> QED BY <1>2, <2>1, <2>3 DEF SeatInv
<1>14. LiveInv'
  <2> SUFFICES ASSUME NEW t \in Token, LiveToken(t), tokens[t].chain \notin overlap',
                      NEW p \in Request, At(p, AtWork)', request'[p].chain = tokens[t].chain
               PROVE  At(p, {"refresh", "logout"})' /\ request'[p].token = t
    BY <1>2 DEF LiveInv, LiveToken
  <2>1. CASE p = r
    <3>1. tokens[t].chain \in Token
      BY DEF LiveToken, TypeInv, Unused, Row
    <3>2. q.chain # NoToken /\ q.chain = tokens[t].chain
      BY <2>1, <3>1, <1>5, AuthAssumption DEF Same
    <3>3. q.token = t
      BY <3>2, <1>2, <1>7 DEF LiveInv, Fresh
    <3> QED BY <2>1, <3>2, <3>3, <1>5 DEF Fresh, Same, At
  <2>2. CASE p # r
    BY <2>2, <1>2, <1>6 DEF LiveInv, Same, At
  <2> QED BY <2>1, <2>2
<1>15. LeftInv'
  <2> SUFFICES ASSUME NEW p \in Request, At(p, {"issue", "refresh"})',
                      request'[p].chain # NoToken, request'[p].chain \in left
               PROVE  request'[p].chain \in overlap' \cup lost
    BY <1>2 DEF LeftInv, LiveToken
  <2>1. CASE p = r
    BY <2>1, <1>2, <1>5, <1>7 DEF LeftInv, Fresh, Same, At
  <2>2. CASE p # r
    BY <2>2, <1>2, <1>6 DEF LeftInv, Same, At, AtWork
  <2> QED BY <2>1, <2>2
<1>16. PasswordInv'
  <2>1. \A p \in Request : At(p, {"issue", "refresh"})' =>
          \/ request'[p].met
          \/ request'[p].pw = users[request'[p].user].pw
          \/ request'[p].chain # NoToken /\ request'[p].chain \in overlap' \cup reset
    <3> TAKE p \in Request
    <3>1. CASE p = r
      BY <3>1, <1>2, <1>5, <1>7 DEF PasswordInv, Fresh, Same, At
    <3>2. CASE p # r
      BY <3>2, <1>2, <1>6 DEF PasswordInv, Same, At, AtWork
    <3> QED BY <3>1, <3>2
  <2>2. ASSUME NEW p \in Request, At(p, {"change"})', NEW s \in Request,
               At(s, {"issue", "refresh"})', request'[s].user = request'[p].user
        PROVE  request'[s].met
    <3>0. p # s
      BY <2>2 DEF At
    <3>1. CASE p = r
      <4>1. Meets(request[s], q.user, q.chain)
        BY <2>2, <3>0, <3>1, <1>5, <1>6, <1>7 DEF Meets, Same, At, AtWork, Fresh
      <4> QED BY <4>1, <2>2, <3>0, <3>1, <1>6 DEF At, AtWork
    <3>2. CASE s = r
      <4>1. request[p].op = "change" /\ request[p].chain = NoToken /\ request[p].user = q.user
        BY <2>2, <3>0, <3>2, <1>4, <1>5, <1>6, Fields DEF Same, At, AtWork
      <4> QED BY <4>1, <3>0, <3>2, <1>6 DEF Meets, At, AtWork
    <3>3. CASE p # r /\ s # r
      BY <2>2, <3>3, <1>6 DEF PasswordInv, Same, At, AtWork
    <3> QED BY <3>1, <3>2, <3>3
  <2>3. ASSUME NEW p \in Request, At(p, {"change"})', NEW t \in Token,
               LiveToken(t), tokens[t].user = request'[p].user
        PROVE  t \in request'[p].found \/ tokens[t].chain \in overlap'
    <3>1. CASE p = r
      BY <2>3, <3>1, <1>5 DEF Fresh, Same, At
    <3>2. CASE p # r
      BY <2>3, <3>2, <1>2, <1>6 DEF PasswordInv, Same, At, AtWork
    <3> QED BY <3>1, <3>2
  <2> QED BY <1>2, <2>1, <2>2, <2>3 DEF PasswordInv, LiveToken, At
<1>17. SessionsLast'
  <2>1. \A p \in Request : p \in Busy /\ request[p].op = "issue" =>
          p \in Busy' /\ request'[p].op = "issue" /\ request'[p].chain = request[p].chain
    BY <1>5, <1>6 DEF Busy, At, AtWork, Same, Idle
  <2> QED BY <1>2, <2>1 DEF SessionsLast, Busy
<1> QED BY <1>3, <1>10, <1>11, <1>12, <1>13, <1>14, <1>15, <1>16, <1>17

LEMMA LoginStep ==
  ASSUME Inv, NEW r \in Request, NEW b \in Browser, NEW u \in User, NEW pw \in 0..MaxPasswords,
         Login(r, b, u, pw)
  PROVE  Inv'
<1> DEFINE q == [op |-> "issue", browser |-> b, user |-> u, pw |-> pw, chain |-> NoToken,
                 met |-> FALSE]
<1>1. Fresh(q)
  BY AuthAssumption DEF Login, Fresh, Requests, AtWork
<1> QED BY <1>1, FreshStep DEF Login, rows, cookies

LEMMA RefreshReadStep ==
  ASSUME Inv, NEW r \in Request, NEW b \in Browser, RefreshRead(r, b)
  PROVE  Inv'
<1> DEFINE t == jar[b]
           q == [op |-> "refresh", browser |-> b, user |-> tokens[t].user,
                 pw |-> tokens[t].pw, token |-> t, chain |-> tokens[t].chain, met |-> FALSE]
<1>1. t \in Token /\ t # NoToken /\ LiveToken(t)
  BY AuthAssumption DEF RefreshRead, Good, LiveToken, Inv, TypeInv
<1>2. /\ tokens[t].user \in User /\ tokens[t].pw \in Nat /\ tokens[t].chain \in Token
      /\ users[tokens[t].user].is = "row"
  BY <1>1 DEF Inv, TypeInv, ChainInv, LiveToken, IsRow, Unused, Row
<1>3. Fresh(q)
  BY <1>1, <1>2, AuthAssumption DEF Fresh, Requests, AtWork
<1> QED BY <1>3, FreshStep DEF RefreshRead, rows, cookies

LEMMA LogoutReadStep ==
  ASSUME Inv, NEW r \in Request, NEW b \in Browser, LogoutRead(r, b)
  PROVE  Inv'
<1> DEFINE t == jar[b]
           q == [op |-> "logout", browser |-> b, user |-> tokens[t].user, token |-> t,
                 chain |-> tokens[t].chain, met |-> FALSE]
<1>1. t \in Token /\ t # NoToken /\ LiveToken(t)
  BY AuthAssumption DEF LogoutRead, LiveToken, Inv, TypeInv, ChainInv, IsRow
<1>2. /\ tokens[t].user \in User /\ tokens[t].chain \in Token
      /\ users[tokens[t].user].is = "row"
  BY <1>1 DEF Inv, TypeInv, ChainInv, LiveToken, IsRow, Unused, Row
<1>3. Fresh(q)
  BY <1>1, <1>2, AuthAssumption DEF Fresh, Requests, AtWork
<1> QED BY <1>3, FreshStep DEF LogoutRead, rows, cookies

LEMMA ChangeReadStep ==
  ASSUME Inv, NEW r \in Request, NEW b \in Browser, ChangeRead(r, b)
  PROVE  Inv'
<1> DEFINE u == access[b]
           q == [op |-> "change", browser |-> b, user |-> u, chain |-> NoToken, met |-> FALSE,
                 found |-> Open(u)]
<1>1. u \in User /\ users[u].is = "row"
  BY DEF ChangeRead, Inv, TypeInv, ChainInv
<1>2. Fresh(q)
  BY <1>1 DEF Fresh, Requests, AtWork, Open, LiveToken
<1> QED BY <1>2, FreshStep DEF ChangeRead, rows, cookies

\* Tokens that are revoked keep all else.
Revokes(ended) ==
  /\ tokens' \in [Token -> {Unused} \cup Row]
  /\ \A t \in Token :
       /\ tokens'[t].is = tokens[t].is
       /\ IsRow(t) => /\ tokens'[t].user = tokens[t].user /\ tokens'[t].pw = tokens[t].pw
                      /\ tokens'[t].chain = tokens[t].chain
                      /\ tokens'[t].live <=> tokens[t].live /\ t \notin ended

LEMMA RevokesAll ==
  ASSUME TypeInv, NEW ended, \A t \in Token : t \in ended => IsRow(t),
         tokens' = [t \in Token |-> IF t \in ended THEN [tokens[t] EXCEPT !.live = FALSE]
                                    ELSE tokens[t]]
  PROVE  Revokes(ended)
<1>1. ASSUME NEW t \in Token, IsRow(t)
      PROVE  tokens[t] \in Row
  BY <1>1 DEF TypeInv, IsRow, Unused
<1>2. ASSUME NEW row \in Row
      PROVE  LET new == [row EXCEPT !.live = FALSE]
             IN  /\ new \in Row /\ new.is = row.is /\ new.user = row.user /\ new.pw = row.pw
                 /\ new.chain = row.chain /\ new.live = FALSE
  BY DEF Row
<1>3. ASSUME NEW t \in Token
      PROVE  /\ tokens'[t] \in {Unused} \cup Row
             /\ tokens'[t].is = tokens[t].is
             /\ IsRow(t) => /\ tokens'[t].user = tokens[t].user /\ tokens'[t].pw = tokens[t].pw
                            /\ tokens'[t].chain = tokens[t].chain
                            /\ tokens'[t].live <=> tokens[t].live /\ t \notin ended
  <2>1. CASE t \in ended
    <3>1. tokens'[t] = [tokens[t] EXCEPT !.live = FALSE]
      BY <2>1
    <3> QED BY <2>1, <3>1, <1>1, <1>2
  <2>2. CASE t \notin ended
    BY <2>2 DEF TypeInv
  <2> QED BY <2>1, <2>2
<1> QED BY <1>3 DEF Revokes

LEMMA RevokesOne ==
  ASSUME TypeInv, NEW t \in Token, IsRow(t), tokens' = [tokens EXCEPT ![t].live = FALSE]
  PROVE  Revokes({t})
<1>1. tokens' = [s \in Token |-> IF s \in {t} THEN [tokens[s] EXCEPT !.live = FALSE]
                                 ELSE tokens[s]]
  BY DEF TypeInv
<1> QED BY <1>1, RevokesAll

\* What a request does that ends: its slot is idle, the others stay.
Finished(r) ==
  /\ request'[r].op = "idle"
  /\ \A p \in Request : p # r => request'[p] = request[p]
  /\ request' \in [Request -> Requests]

LEMMA Finish ==
  ASSUME TypeInv, NEW r \in Request, End(r)
  PROVE  Finished(r)
BY DEF TypeInv, End, Finished, Requests, Idle

\* Requests that are still at work are about what they were about.
Continue ==
  \A p \in Request : At(p, AtWork)' =>
    /\ At(p, AtWork) /\ request'[p].browser = request[p].browser
    /\ request'[p].user = request[p].user /\ request'[p].chain = request[p].chain
    /\ At(p, {"refresh", "logout"})' =>
         At(p, {"refresh", "logout"}) /\ request'[p].token = request[p].token
    /\ At(p, {"change"})' => At(p, {"change"}) /\ request'[p].found = request[p].found

LEMMA FinishedContinue ==
  ASSUME NEW r \in Request, Finished(r)
  PROVE  Continue
BY DEF Finished, Continue, At, AtWork

\* Revoking tokens leaves chains and seats as they are.
LEMMA RevokesKeeps ==
  ASSUME Inv, NEW ended, Revokes(ended), Continue,
         \A u \in User : users[u].is = "row" => users'[u].is = "row",
         \A t \in Token : t \in left' => IsRow(t),
         \A b \in Browser : jar'[b] \in {jar[b], NoToken} /\ access'[b] \in {access[b], NoUser}
  PROVE  ChainInv' /\ SeatInv'
<1> USE DEF Inv
<1>1. /\ \A t \in Token : tokens'[t].is = tokens[t].is
      /\ \A t \in Token : IsRow(t) => tokens'[t].user = tokens[t].user
                                      /\ tokens'[t].chain = tokens[t].chain
  BY DEF Revokes
<1>2. ASSUME NEW t \in Token, IsRow(t)'
      PROVE  /\ tokens'[tokens'[t].chain].is = "row"
             /\ tokens'[tokens'[t].chain].user = tokens'[t].user
             /\ users'[tokens'[t].user].is = "row"
  BY <1>1, <1>2, Chained DEF ChainInv, IsRow
<1>3. \A t \in Token : t \in left' => IsRow(t)'
  BY <1>1 DEF IsRow
<1>4. ASSUME NEW b \in Browser
      PROVE  /\ jar'[b] # NoToken =>
                  tokens'[jar'[b]].is = "row" /\ jar[b] = jar'[b]
                  /\ tokens'[jar'[b]].chain = tokens[jar[b]].chain
             /\ access'[b] # NoUser => users'[access'[b]].is = "row"
  BY <1>1, Chained DEF ChainInv, TypeInv, IsRow
<1>5. ASSUME NEW p \in Request, At(p, AtWork)'
      PROVE  /\ users'[request'[p].user].is = "row"
             /\ request'[p].chain # NoToken =>
                  /\ tokens'[request'[p].chain].is = "row"
                  /\ tokens'[request'[p].chain].user = request'[p].user
             /\ At(p, {"refresh", "logout"})' =>
                  /\ tokens'[request'[p].token].is = "row"
                  /\ tokens'[request'[p].token].chain = request'[p].chain
             /\ \A t \in Token : At(p, {"change"})' /\ t \in request'[p].found =>
                  tokens'[t].is = "row" /\ tokens'[t].user = request'[p].user
  <2>1. /\ At(p, AtWork) /\ request'[p].user = request[p].user
        /\ request'[p].chain = request[p].chain
        /\ request[p].user \in User /\ request[p].chain \in Token \cup {NoToken}
    BY <1>5, Chained DEF Continue
  <2>2. users'[request'[p].user].is = "row"
    BY <2>1 DEF ChainInv
  <2>3. request'[p].chain # NoToken =>
          /\ tokens'[request'[p].chain].is = "row"
          /\ tokens'[request'[p].chain].user = request'[p].user
    BY <2>1, <1>1 DEF ChainInv, IsRow
  <2>4. At(p, {"refresh", "logout"})' =>
          /\ tokens'[request'[p].token].is = "row"
          /\ tokens'[request'[p].token].chain = request'[p].chain
    BY <1>1, <1>5, <2>1, Chained DEF Continue, ChainInv, IsRow
  <2>5. \A t \in Token : At(p, {"change"})' /\ t \in request'[p].found =>
          tokens'[t].is = "row" /\ tokens'[t].user = request'[p].user
    BY <1>1, <1>5, <2>1 DEF Continue, ChainInv, IsRow
  <2> QED BY <2>2, <2>3, <2>4, <2>5
<1>6. ChainInv'
  BY <1>2, <1>3, <1>4, <1>5 DEF ChainInv, IsRow, At
<1>7. SeatInv'
  BY <1>4 DEF SeatInv, Continue
<1> QED BY <1>6, <1>7

LEMMA RefreshCommitStep ==
  ASSUME Inv, NEW r \in Request, RefreshCommit(r)
  PROVE  Inv'
<1> USE DEF Inv
<1> DEFINE q == request[r]
<1>1. /\ q.op = "refresh" /\ At(r, AtWork)
      /\ UNCHANGED <<users, latest, jar, access, overlap, lost, left, reset>>
  BY DEF RefreshCommit, cookies, clock, seen, At, AtWork
<1>2. /\ q.token \in Token /\ IsRow(q.token) /\ tokens[q.token].chain = q.chain
      /\ q.chain \in Token /\ q.chain # NoToken
  BY <1>1, Chained, AuthAssumption DEF At, AtWork, ChainInv
<1>3. Revokes({q.token})
  BY <1>2, RevokesOne DEF RefreshCommit, Spent
<1>4. /\ request'[r].op = "issue" /\ request'[r].browser = q.browser
      /\ request'[r].user = q.user /\ request'[r].pw = q.pw
      /\ request'[r].chain = q.chain /\ request'[r].met = q.met
      /\ \A p \in Request : p # r => request'[p] = request[p]
      /\ request' \in [Request -> Requests]
  <2>1. request' = [request EXCEPT ![r] =
          [op |-> "issue", browser |-> q.browser, user |-> q.user, pw |-> q.pw,
           chain |-> q.chain, met |-> q.met]]
    BY DEF RefreshCommit
  <2>2. /\ q.browser \in Browser /\ q.user \in User /\ q.pw \in Nat /\ q.met \in BOOLEAN
    BY <1>1, Chained DEF At, AtWork
  <2>3. [op |-> "issue", browser |-> q.browser, user |-> q.user, pw |-> q.pw,
         chain |-> q.chain, met |-> q.met] \in Requests
    BY <1>2, <2>2 DEF Requests
  <2>4. request \in [Request -> Requests]
    BY DEF TypeInv
  <2> QED BY <2>1, <2>3, <2>4
<1>5. TypeInv'
  BY <1>1, <1>3, <1>4 DEF TypeInv, Revokes
<1>6. ChainInv' /\ SeatInv'
  <2>1. Continue
    BY <1>1, <1>4 DEF Continue, At, AtWork
  <2> QED BY <1>1, <1>3, <2>1, RevokesKeeps DEF ChainInv
<1>7. NewestInv'
  BY <1>1, <1>3, <1>4 DEF NewestInv, Revokes, IsRow, At
<1>8. SoloInv'
  BY <1>1, <1>4 DEF SoloInv, At, AtWork
<1>9. LiveInv'
  BY <1>1, <1>2, <1>3, <1>4 DEF LiveInv, Revokes, LiveToken, IsRow, At, AtWork
<1>10. LeftInv'
  BY <1>1, <1>3, <1>4, Chained DEF LeftInv, Revokes, LiveToken, IsRow, At
<1>11. PasswordInv'
  BY <1>1, <1>3, <1>4 DEF PasswordInv, Revokes, LiveToken, IsRow, At, AtWork
<1>12. SessionsLast'
  <2> SUFFICES ASSUME NEW b \in Browser, jar[b] # NoToken, ~tokens'[jar[b]].live
               PROVE  \/ tokens[jar[b]].chain \in overlap \cup lost \cup left
                      \/ tokens[jar[b]].pw # users[tokens[jar[b]].user].pw
                      \/ \E p \in Busy' : request'[p].op = "issue"
                                          /\ request'[p].chain = tokens[jar[b]].chain
    BY <1>1, <1>3, Chained DEF SessionsLast, Revokes
  <2>1. CASE jar[b] = q.token
    <3>1. r \in Busy'
      BY <1>4 DEF Busy, Idle
    <3> QED BY <2>1, <3>1, <1>2, <1>4
  <2>2. CASE jar[b] # q.token
    <3>1. ~tokens[jar[b]].live
      BY <2>2, <1>3, Chained DEF Revokes
    <3>2. \A p \in Busy : request[p].op = "issue" => p \in Busy' /\ request'[p] = request[p]
      BY <1>1, <1>4 DEF Busy
    <3> QED BY <3>1, <3>2 DEF SessionsLast
  <2> QED BY <2>1, <2>2
<1> QED BY <1>5, <1>6, <1>7, <1>8, <1>9, <1>10, <1>11, <1>12

LEMMA LogoutCommitStep ==
  ASSUME Inv, NEW r \in Request, LogoutCommit(r)
  PROVE  Inv'
<1> USE DEF Inv
<1> DEFINE q == request[r]
<1>1. /\ q.op = "logout" /\ At(r, AtWork) /\ left' = left \cup {q.chain}
      /\ UNCHANGED <<users, latest, overlap, lost, reset>>
  BY DEF LogoutCommit, clock, At, AtWork
<1>2. /\ q.token \in Token /\ IsRow(q.token) /\ tokens[q.token].chain = q.chain
      /\ q.chain \in Token /\ q.chain # NoToken /\ q.browser \in Browser
  BY <1>1, Chained, AuthAssumption DEF At, AtWork, ChainInv
<1>3. Revokes({q.token})
  BY <1>2, RevokesOne DEF LogoutCommit, Revoked
<1>4. Finished(r)
  BY Finish DEF LogoutCommit
<1>5. /\ jar' \in [Browser -> Token \cup {NoToken}] /\ access' \in [Browser -> User \cup {NoUser}]
      /\ \A b \in Browser : jar'[b] \in {jar[b], NoToken} /\ access'[b] \in {access[b], NoUser}
  BY <1>2 DEF TypeInv, LogoutCommit, Cleared, cookies
<1>6. TypeInv'
  BY <1>1, <1>3, <1>4, <1>5 DEF TypeInv, Revokes, Finished
<1>7. ChainInv' /\ SeatInv'
  <2>1. \A t \in Token : t \in left' => IsRow(t)
    BY <1>1, <1>2 DEF ChainInv
  <2> QED BY <1>1, <1>3, <1>4, <1>5, <2>1, FinishedContinue, RevokesKeeps
<1>8. NewestInv'
  BY <1>1, <1>3, <1>4 DEF NewestInv, Revokes, Finished, IsRow, At
<1>9. SoloInv'
  BY <1>1, <1>4 DEF SoloInv, Finished, At, AtWork
<1>10. LiveInv'
  BY <1>1, <1>3, <1>4 DEF LiveInv, Revokes, Finished, LiveToken, IsRow, At, AtWork
<1>11. LeftInv'
  <2>1. \A t \in Token : LiveToken(t)' /\ tokens[t].chain \notin overlap \cup lost =>
          LiveToken(t) /\ tokens[t].chain # q.chain
    BY <1>1, <1>2, <1>3 DEF LiveInv, Revokes, LiveToken, IsRow, At
  <2>2. \A p \in Request \ {r} : At(p, AtWork) /\ request[p].chain = q.chain
                                   => q.chain \in overlap
    BY <1>1, <1>2 DEF SoloInv
  <2>3. \A t \in Token : LiveToken(t)' /\ tokens'[t].chain \notin overlap \cup lost =>
          /\ tokens'[t].chain \notin left'
          /\ \A b \in Browser :
               jar'[b] # NoToken /\ tokens'[jar'[b]].chain = tokens'[t].chain => jar'[b] = t
    BY <2>1, <1>1, <1>3, <1>5, Chained DEF LeftInv, Revokes, LiveToken, IsRow
  <2>4. \A p \in Request :
          At(p, {"issue", "refresh"})' /\ request'[p].chain # NoToken
          /\ request'[p].chain \in left' => request'[p].chain \in overlap \cup lost
    BY <2>2, <1>1, <1>4 DEF LeftInv, Finished, At, AtWork
  <2> QED BY <1>1, <2>3, <2>4 DEF LeftInv
<1>12. PasswordInv'
  BY <1>1, <1>3, <1>4 DEF PasswordInv, Revokes, Finished, LiveToken, IsRow, At, AtWork
<1>13. SessionsLast'
  <2> SUFFICES ASSUME NEW b \in Browser, jar[b] # NoToken, ~tokens'[jar[b]].live
               PROVE  \/ tokens[jar[b]].chain \in overlap \cup lost \cup left'
                      \/ tokens[jar[b]].pw # users[tokens[jar[b]].user].pw
                      \/ \E p \in Busy' : request'[p].op = "issue"
                                          /\ request'[p].chain = tokens[jar[b]].chain
    BY <1>1, <1>3, <1>5, Chained DEF SessionsLast, Revokes
  <2>1. CASE jar[b] = q.token
    BY <2>1, <1>1, <1>2
  <2>2. CASE jar[b] # q.token
    <3>1. ~tokens[jar[b]].live
      BY <2>2, <1>3, Chained DEF Revokes
    <3>2. \A p \in Busy : request[p].op = "issue" => p \in Busy' /\ request'[p] = request[p]
      BY <1>1, <1>4 DEF Busy, Finished
    <3> QED BY <3>1, <3>2, <1>1 DEF SessionsLast
  <2> QED BY <2>1, <2>2
<1> QED BY <1>6, <1>7, <1>8, <1>9, <1>10, <1>11, <1>12, <1>13

LEMMA ChangeCommitStep ==
  ASSUME Inv, NEW r \in Request, ChangeCommit(r)
  PROVE  Inv'
<1> USE DEF Inv
<1> DEFINE q == request[r]
<1>1. /\ q.op = "change" /\ At(r, {"change"}) /\ At(r, AtWork)
      /\ latest' = latest + 1 /\ users' = [users EXCEPT ![q.user].pw = latest']
      /\ UNCHANGED <<jar, access, overlap, lost, left, reset>>
  BY DEF ChangeCommit, cookies, seen, At, AtWork
<1>2. /\ q.user \in User /\ users[q.user].is = "row"
      /\ \A t \in Token : t \in q.found => IsRow(t) /\ tokens[t].user = q.user
  BY <1>1, Chained DEF ChainInv
<1>3. Revokes(q.found)
  BY <1>2, RevokesAll DEF ChangeCommit, Ended
<1>4. Finished(r)
  BY Finish DEF ChangeCommit
<1>5. /\ users' \in [User -> {Unused} \cup [is : {"row"}, pw : 0..latest']]
      /\ users'[q.user].is = "row" /\ users'[q.user].pw = latest + 1
      /\ \A u \in User : u # q.user => users'[u] = users[u]
  <2>1. users[q.user] \in [is : {"row"}, pw : 0..latest]
    BY <1>2 DEF TypeInv, Unused
  <2>2. users'[q.user] = [users[q.user] EXCEPT !.pw = latest'] /\ latest \in Nat
    BY <1>1, <1>2 DEF TypeInv
  <2>3. \A u \in User : u # q.user => users'[u] = users[u]
    BY <1>1 DEF TypeInv
  <2>4. users'[q.user] \in [is : {"row"}, pw : 0..latest'] /\ users'[q.user].pw = latest + 1
    BY <2>1, <2>2, <1>1
  <2>5. \A u \in User : users[u] \in {Unused} \cup [is : {"row"}, pw : 0..latest']
    BY <1>1 DEF TypeInv
  <2>6. users' = [u \in User |-> users'[u]]
    BY <1>1 DEF TypeInv
  <2> QED BY <2>3, <2>4, <2>5, <2>6
<1>6. TypeInv'
  BY <1>1, <1>3, <1>4, <1>5 DEF TypeInv, Revokes, Finished
<1>7. ChainInv' /\ SeatInv'
  BY <1>1, <1>3, <1>4, <1>5, FinishedContinue, RevokesKeeps DEF ChainInv
<1>8. NewestInv'
  BY <1>1, <1>3, <1>4, Chained DEF NewestInv, TypeInv, Revokes, Finished, IsRow, At
<1>9. SoloInv'
  BY <1>1, <1>4 DEF SoloInv, Finished, At, AtWork
<1>10. LiveInv' /\ LeftInv'
  <2>1. LiveInv'
    BY <1>1, <1>3, <1>4 DEF LiveInv, Revokes, Finished, LiveToken, IsRow, At, AtWork
  <2>2. LeftInv'
    BY <1>1, <1>3, <1>4, Chained DEF LeftInv, Revokes, Finished, LiveToken, IsRow, At, AtWork
  <2> QED BY <2>1, <2>2
<1>11. PasswordInv'
  <2>1. \A t \in Token : LiveToken(t)' /\ tokens'[t].chain \notin overlap' \cup reset' =>
          tokens'[t].pw = users'[tokens'[t].user].pw
    BY <1>1, <1>3, <1>5, Chained DEF PasswordInv, Revokes, LiveToken, IsRow
  <2>2. \A p \in Request : At(p, {"issue", "refresh"})' =>
          \/ request'[p].met
          \/ request'[p].pw = users'[request'[p].user].pw
          \/ request'[p].chain # NoToken /\ request'[p].chain \in overlap' \cup reset'
    BY <1>1, <1>4, <1>5, Chained DEF PasswordInv, Finished, At, AtWork
  <2>3. \A p \in Request : At(p, {"change"})' =>
          /\ \A s \in Request :
               At(s, {"issue", "refresh"})' /\ request'[s].user = request'[p].user
               => request'[s].met
          /\ \A t \in Token : LiveToken(t)' /\ tokens'[t].user = request'[p].user =>
               t \in request'[p].found \/ tokens'[t].chain \in overlap'
    BY <1>1, <1>3, <1>4 DEF PasswordInv, Revokes, Finished, LiveToken, IsRow, At
  <2> QED BY <2>1, <2>2, <2>3 DEF PasswordInv
<1>12. SessionsLast'
  <2> SUFFICES ASSUME NEW b \in Browser, jar[b] # NoToken, ~tokens'[jar[b]].live
               PROVE  \/ tokens[jar[b]].chain \in overlap \cup lost \cup left
                      \/ tokens[jar[b]].pw # users'[tokens[jar[b]].user].pw
                      \/ \E p \in Busy' : request'[p].op = "issue"
                                          /\ request'[p].chain = tokens[jar[b]].chain
    BY <1>1, <1>3, Chained DEF SessionsLast, Revokes
  <2>1. tokens[jar[b]].pw <= latest /\ tokens[jar[b]].pw \in Nat /\ tokens[jar[b]].user \in User
    BY Chained DEF NewestInv
  <2>2. CASE tokens[jar[b]].user = q.user
    BY <2>1, <2>2, <1>5 DEF TypeInv
  <2>3. CASE tokens[jar[b]].user # q.user
    <3>1. ~tokens[jar[b]].live
      BY <2>3, <1>2, <1>3, Chained DEF Revokes
    <3>2. \A p \in Busy : request[p].op = "issue" => p \in Busy' /\ request'[p] = request[p]
      BY <1>1, <1>4 DEF Busy, Finished
    <3>3. users'[tokens[jar[b]].user] = users[tokens[jar[b]].user]
      BY <2>1, <2>3, <1>5
    <3>4. \/ tokens[jar[b]].chain \in overlap \cup lost \cup left
          \/ tokens[jar[b]].pw # users[tokens[jar[b]].user].pw
          \/ \E p \in Busy : request[p].op = "issue" /\ request[p].chain = tokens[jar[b]].chain
      BY <3>1 DEF SessionsLast
    <3> QED BY <3>2, <3>3, <3>4
  <2> QED BY <2>2, <2>3
<1> QED BY <1>6, <1>7, <1>8, <1>9, <1>10, <1>11, <1>12

\* The row of a new token; those there were stay.
LEMMA IssueStep ==
  ASSUME Inv, NEW r \in Request, Issue(r)
  PROVE  Inv'
<1> USE DEF Inv
<1> DEFINE q == request[r]
<1>1. PICK t \in Token, arrives \in BOOLEAN :
        /\ tokens[t] = Unused
        /\ tokens' = [tokens EXCEPT ![t] =
             [is |-> "row", user |-> q.user, pw |-> q.pw,
              chain |-> IF q.chain = NoToken THEN t ELSE q.chain, live |-> TRUE, expired |-> FALSE]]
        /\ IF arrives
           THEN /\ jar' = [jar EXCEPT ![q.browser] = t]
                /\ access' = [access EXCEPT ![q.browser] = q.user]
           ELSE UNCHANGED cookies
        /\ lost' = IF arrives THEN lost
                   ELSE lost \cup {IF q.chain = NoToken THEN t ELSE q.chain}
        /\ overlap' = IF q.met THEN overlap \cup {IF q.chain = NoToken THEN t ELSE q.chain}
                      ELSE overlap
  BY DEF Issue
<1> DEFINE c == IF q.chain = NoToken THEN t ELSE q.chain
<1>2. /\ q.op = "issue" /\ At(r, AtWork) /\ At(r, {"issue", "refresh"})
      /\ UNCHANGED <<users, latest, left, reset>>
  BY DEF Issue, clock, At, AtWork
<1>3. /\ q.browser \in Browser /\ q.user \in User /\ q.pw \in Nat /\ q.met \in BOOLEAN
      /\ c \in Token /\ c # NoToken /\ users[q.user].is = "row" /\ q.pw <= latest
  BY <1>2, Chained, AuthAssumption DEF At, AtWork, ChainInv, NewestInv
<1>4. /\ overlap \subseteq overlap' /\ (q.met => c \in overlap')
      /\ lost \subseteq lost' /\ (~arrives => c \in lost')
  BY <1>1
<1>5. /\ tokens' \in [Token -> {Unused} \cup Row]
      /\ tokens'[t].is = "row" /\ tokens'[t].user = q.user /\ tokens'[t].pw = q.pw
      /\ tokens'[t].chain = c /\ tokens'[t].live
      /\ \A s \in Token : s # t => tokens'[s] = tokens[s]
      /\ ~IsRow(t)
  <2>1. [is |-> "row", user |-> q.user, pw |-> q.pw, chain |-> c, live |-> TRUE,
         expired |-> FALSE] \in Row
    BY <1>3 DEF Row
  <2> QED BY <1>1, <2>1 DEF TypeInv, IsRow, Unused
<1>6. Finished(r)
  BY Finish DEF Issue
<1>7. /\ jar' \in [Browser -> Token \cup {NoToken}] /\ access' \in [Browser -> User \cup {NoUser}]
      /\ \A b \in Browser :
           \/ jar'[b] = jar[b] /\ access'[b] = access[b]
           \/ arrives /\ b = q.browser /\ jar'[b] = t /\ access'[b] = q.user
      /\ arrives => jar'[q.browser] = t
  BY <1>1, <1>3 DEF TypeInv, cookies
<1> HIDE DEF c
\* A chain that is new has no other tokens, requests or browsers.
<1>8. /\ \/ c = t
         \/ c = q.chain /\ q.chain # NoToken /\ IsRow(c) /\ tokens[c].user = q.user
      /\ q.chain = NoToken => c = t
  <2>1. q.chain # NoToken => IsRow(q.chain) /\ tokens[q.chain].user = q.user
    BY <1>2 DEF ChainInv
  <2> QED BY <2>1 DEF c
<1>9. c = t => /\ \A s \in Token : IsRow(s) => tokens[s].chain # c
               /\ \A b \in Browser : jar[b] # NoToken => tokens[jar[b]].chain # c
               /\ \A p \in Request : At(p, AtWork) => request[p].chain # c
  BY <1>3, <1>5, Chained DEF ChainInv
<1>10. \A s \in Token : IsRow(s) => s # t
  BY <1>5
<1>11. TypeInv'
  BY <1>2, <1>5, <1>6, <1>7 DEF TypeInv, Finished
<1>12. ChainInv'
  <2>1. \A s \in Token : tokens'[s].is = "row" =>
          /\ tokens'[tokens'[s].chain].is = "row"
          /\ tokens'[tokens'[s].chain].user = tokens'[s].user
          /\ users'[tokens'[s].user].is = "row"
    <3> SUFFICES ASSUME NEW s \in Token, tokens'[s].is = "row"
                 PROVE  /\ tokens'[tokens'[s].chain].is = "row"
                        /\ tokens'[tokens'[s].chain].user = tokens'[s].user
                        /\ users[tokens'[s].user].is = "row"
      BY <1>2
    <3>1. CASE s = t
      BY <3>1, <1>3, <1>5, <1>8, <1>10 DEF IsRow
    <3>2. CASE s # t
      BY <3>2, <1>5, <1>10, Chained DEF ChainInv, IsRow
    <3> QED BY <3>1, <3>2
  <2>2. \A s \in Token : s \in left' => tokens'[s].is = "row"
    BY <1>2, <1>5, <1>10 DEF ChainInv, IsRow
  <2>3. \A b \in Browser :
          /\ jar'[b] # NoToken => tokens'[jar'[b]].is = "row"
          /\ access'[b] # NoUser => users'[access'[b]].is = "row"
    BY <1>2, <1>3, <1>5, <1>7, Chained DEF ChainInv, IsRow
  <2>4. \A p \in Request : At(p, AtWork)' =>
       /\ users'[request'[p].user].is = "row"
       /\ request'[p].chain # NoToken =>
            /\ tokens'[request'[p].chain].is = "row"
            /\ tokens'[request'[p].chain].user = request'[p].user
       /\ At(p, {"refresh", "logout"})' =>
            /\ tokens'[request'[p].token].is = "row"
            /\ tokens'[request'[p].token].chain = request'[p].chain
       /\ \A s \in Token : At(p, {"change"})' /\ s \in request'[p].found =>
            tokens'[s].is = "row" /\ tokens'[s].user = request'[p].user
    BY <1>2, <1>5, <1>6, <1>10, Chained DEF ChainInv, Finished, IsRow, At, AtWork
  <2> QED BY <2>1, <2>2, <2>3, <2>4 DEF ChainInv, IsRow, At
<1>13. NewestInv'
  BY <1>2, <1>3, <1>5, <1>6 DEF NewestInv, Finished, IsRow, At
<1>14. SoloInv'
  BY <1>4, <1>6 DEF SoloInv, Finished, At, AtWork
\* Only the browser of the request has a token of the chain.
<1>15. /\ \A b \in Browser : jar[b] # NoToken /\ tokens[jar[b]].chain = c => b = q.browser
       /\ \A p \in Request : At(p, AtWork) /\ request[p].chain = c
                               => request[p].browser = q.browser
  BY <1>2, <1>8, <1>9 DEF SeatInv
<1>16. \A b \in Browser : jar'[b] # NoToken =>
         \/ jar'[b] = t /\ b = q.browser /\ tokens'[jar'[b]].chain = c
         \/ /\ jar[b] # NoToken /\ jar'[b] = jar[b] /\ tokens'[jar'[b]] = tokens[jar[b]]
            /\ arrives => tokens[jar[b]].chain # c
  BY <1>5, <1>7, <1>10, <1>15, Chained
<1>17. SeatInv'
  <2>1. \A a, b \in Browser :
          jar'[a] # NoToken /\ jar'[b] # NoToken
          /\ tokens'[jar'[a]].chain = tokens'[jar'[b]].chain => a = b
    BY <1>15, <1>16 DEF SeatInv
  <2>2. \A b \in Browser, p \in Request :
          jar'[b] # NoToken /\ At(p, AtWork)' /\ request'[p].chain = tokens'[jar'[b]].chain
          => request'[p].browser = b
    BY <1>6, <1>15, <1>16 DEF SeatInv, Finished, At, AtWork
  <2>3. \A p, s \in Request :
          /\ At(p, AtWork)' /\ At(s, AtWork)'
          /\ request'[p].chain # NoToken /\ request'[p].chain = request'[s].chain
          => request'[p].browser = request'[s].browser
    BY <1>6 DEF SeatInv, Finished, At, AtWork
  <2> QED BY <2>1, <2>2, <2>3 DEF SeatInv
\* The token before it was revoked, and nobody else is at work on the chain.
<1>18. c \notin overlap =>
         /\ \A s \in Token : LiveToken(s) => tokens[s].chain # c
         /\ \A p \in Request \ {r} : At(p, AtWork) => request[p].chain # c
  <2>1. CASE c = t
    BY <2>1, <1>9 DEF LiveToken, IsRow
  <2>2. CASE c # t
    BY <2>2, <1>2, <1>8 DEF LiveInv, SoloInv, At
  <2> QED BY <2>1, <2>2
<1>19. LiveInv'
  <2> SUFFICES ASSUME NEW s \in Token, LiveToken(s)', tokens'[s].chain \notin overlap'
               PROVE  /\ \A x \in Token :
                           LiveToken(x)' /\ tokens'[x].chain = tokens'[s].chain => x = s
                      /\ \A p \in Request :
                           At(p, AtWork)' /\ request'[p].chain = tokens'[s].chain =>
                             At(p, {"refresh", "logout"})' /\ request'[p].token = s
    BY DEF LiveInv
  <2>1. CASE s = t
    BY <2>1, <1>4, <1>5, <1>6, <1>18 DEF LiveToken, Finished, At, AtWork
  <2>2. CASE s # t
    BY <2>2, <1>4, <1>5, <1>6, <1>18 DEF LiveInv, LiveToken, Finished, At, AtWork
  <2> QED BY <2>1, <2>2
<1>20. LeftInv'
  <2>1. c \in left => c \in overlap \cup lost
    BY <1>2, <1>5, <1>8 DEF LeftInv, ChainInv
  <2>2. ASSUME NEW s \in Token, LiveToken(s)', tokens'[s].chain \notin overlap' \cup lost'
        PROVE  /\ tokens'[s].chain \notin left'
               /\ \A b \in Browser :
                    jar'[b] # NoToken /\ tokens'[jar'[b]].chain = tokens'[s].chain => jar'[b] = s
    <3>1. CASE s = t
      BY <3>1, <2>1, <2>2, <1>2, <1>4, <1>5, <1>16
    <3>2. CASE s # t
      <4>1. LiveToken(s) /\ tokens'[s] = tokens[s] /\ tokens[s].chain \notin overlap \cup lost
        BY <2>2, <3>2, <1>4, <1>5 DEF LiveToken
      <4>2. tokens[s].chain # c
        BY <4>1, <1>18
      <4> QED BY <4>1, <4>2, <1>2, <1>16 DEF LeftInv
    <3> QED BY <3>1, <3>2
  <2>3. \A p \in Request :
          At(p, {"issue", "refresh"})' /\ request'[p].chain # NoToken
          /\ request'[p].chain \in left' => request'[p].chain \in overlap' \cup lost'
    BY <1>2, <1>4, <1>6 DEF LeftInv, Finished, At
  <2> QED BY <2>2, <2>3 DEF LeftInv
<1>21. PasswordInv'
  <2>1. ASSUME NEW s \in Token, LiveToken(s)', tokens'[s].chain \notin overlap' \cup reset'
        PROVE  tokens'[s].pw = users'[tokens'[s].user].pw
    <3>1. CASE s = t
      <4>1. ~q.met /\ c \notin overlap \cup reset
        BY <2>1, <3>1, <1>2, <1>4, <1>5
      <4>2. q.chain # NoToken => q.chain \notin overlap \cup reset
        BY <4>1 DEF c
      <4> QED BY <3>1, <4>1, <4>2, <1>2, <1>5 DEF PasswordInv
    <3>2. CASE s # t
      BY <2>1, <3>2, <1>2, <1>4, <1>5 DEF PasswordInv, LiveToken
    <3> QED BY <3>1, <3>2
  <2>2. \A p \in Request : At(p, {"issue", "refresh"})' =>
          \/ request'[p].met
          \/ request'[p].pw = users'[request'[p].user].pw
          \/ request'[p].chain # NoToken /\ request'[p].chain \in overlap' \cup reset'
    BY <1>2, <1>4, <1>6 DEF PasswordInv, Finished, At
  <2>3. ASSUME NEW p \in Request, At(p, {"change"})'
        PROVE  /\ \A s \in Request :
                    At(s, {"issue", "refresh"})' /\ request'[s].user = request'[p].user
                    => request'[s].met
               /\ \A s \in Token : LiveToken(s)' /\ tokens'[s].user = request'[p].user =>
                    s \in request'[p].found \/ tokens'[s].chain \in overlap'
    <3>1. p # r /\ request'[p] = request[p] /\ At(p, {"change"})
      BY <2>3, <1>6 DEF Finished, At
    <3>2. \A s \in Request :
            At(s, {"issue", "refresh"})' /\ request'[s].user = request'[p].user => request'[s].met
      BY <3>1, <1>6 DEF PasswordInv, Finished, At
    <3>3. q.user = request[p].user => q.met
      BY <3>1, <1>2 DEF PasswordInv
    <3>4. ASSUME NEW s \in Token, LiveToken(s)', tokens'[s].user = request'[p].user
          PROVE  s \in request'[p].found \/ tokens'[s].chain \in overlap'
      <4>1. CASE s = t
        BY <3>1, <3>3, <3>4, <4>1, <1>4, <1>5
      <4>2. CASE s # t
        BY <3>1, <3>4, <4>2, <1>4, <1>5 DEF PasswordInv, LiveToken
      <4> QED BY <4>1, <4>2
    <3> QED BY <3>2, <3>4
  <2> QED BY <2>1, <2>2, <2>3 DEF PasswordInv
<1>22. SessionsLast'
  <2> SUFFICES ASSUME NEW b \in Browser, jar'[b] # NoToken, ~tokens'[jar'[b]].live
               PROVE  \/ tokens'[jar'[b]].chain \in overlap' \cup lost' \cup left
                      \/ tokens'[jar'[b]].pw # users[tokens'[jar'[b]].user].pw
                      \/ \E p \in Busy' : request'[p].op = "issue"
                                          /\ request'[p].chain = tokens'[jar'[b]].chain
    BY <1>2 DEF SessionsLast
  <2>1. /\ jar[b] # NoToken /\ jar'[b] = jar[b] /\ tokens'[jar'[b]] = tokens[jar[b]]
        /\ arrives => tokens[jar[b]].chain # c
    BY <1>5, <1>16
  <2>2. CASE tokens[jar[b]].chain = c
    BY <2>1, <2>2, <1>4
  <2>3. CASE tokens[jar[b]].chain # c
    <3>1. \A p \in Busy : request[p].op = "issue" /\ request[p].chain = tokens[jar[b]].chain
                          => p \in Busy' /\ request'[p] = request[p]
      <4>1. tokens[jar[b]].chain # NoToken
        BY <2>1, Chained, AuthAssumption
      <4> QED BY <2>3, <4>1, <1>6 DEF Busy, Finished, c
    <3> QED BY <2>1, <3>1, <1>4 DEF SessionsLast
  <2> QED BY <2>2, <2>3
<1> QED
  BY <1>11, <1>12, <1>13, <1>14, <1>17, <1>19, <1>20, <1>21, <1>22

-----------------------------------------------------------------------------
(* Results. *)

LEMMA Initially ==
  ASSUME Init
  PROVE  Inv
<1> USE DEF Init, Unused, Idle
<1>1. TypeInv
  BY DEF TypeInv, Requests
<1>2. /\ \A t \in Token : ~IsRow(t) /\ ~LiveToken(t)
      /\ \A b \in Browser : jar[b] = NoToken /\ access[b] = NoUser
      /\ \A r \in Request : request[r].op = "idle"
      /\ left = {}
  BY DEF IsRow, LiveToken
<1>3. ChainInv /\ NewestInv /\ SoloInv /\ SeatInv
  BY <1>2 DEF ChainInv, NewestInv, SoloInv, SeatInv, At, AtWork
<1>4. LiveInv /\ LeftInv /\ PasswordInv /\ SessionsLast
  BY <1>2 DEF LiveInv, LeftInv, PasswordInv, SessionsLast, At
<1> QED BY <1>1, <1>3, <1>4 DEF Inv

LEMMA Inductive ==
  ASSUME Inv, [Next]_vars
  PROVE  Inv'
<1>1. CASE UNCHANGED vars
  BY <1>1, OtherSteps
<1>2. CASE Start \/ Tick \/ LoginFails
  BY <1>2, OtherSteps
<1>3. CASE Crash
  BY <1>3, CrashStep
<1>4. CASE \E t \in Token : Expires(t)
  BY <1>4, ExpiresStep
<1>5. CASE \E b \in Browser : AccessExpires(b) \/ LogoutAtOnce(b)
  BY <1>5, OtherSteps, LogoutAtOnceStep
<1>6. CASE \E b \in Browser, u \in User : CreateUser(b, u)
  BY <1>6, OtherSteps
<1>7. CASE \E u \in User : AdminScript(u)
  BY <1>7, AdminScriptStep
<1>8. ASSUME NEW r \in Request, Issue(r) \/ RefreshCommit(r) \/ LogoutCommit(r) \/ ChangeCommit(r)
      PROVE  Inv'
  BY <1>8, IssueStep, RefreshCommitStep, LogoutCommitStep, ChangeCommitStep
<1>9. ASSUME NEW r \in Request, NEW b \in Browser,
             \/ \E u \in User, pw \in 0..MaxPasswords : Login(r, b, u, pw)
             \/ RefreshRead(r, b) \/ LogoutRead(r, b) \/ ChangeRead(r, b)
      PROVE  Inv'
  BY <1>9, LoginStep, RefreshReadStep, LogoutReadStep, ChangeReadStep
<1> QED BY <1>1, <1>2, <1>3, <1>4, <1>5, <1>6, <1>7, <1>8, <1>9 DEF Next

\* The inductive invariant holds throughout.
THEOREM Invariant == Spec => []Inv
<1>1. Init => Inv
  BY Initially
<1>2. Inv /\ [Next]_vars => Inv'
  BY Inductive
<1> QED BY <1>1, <1>2, PTL DEF Spec

\* Rows of users and refresh tokens are complete and the cookies hold tokens that were
\* issued, whatever the order of the commits of api/routes/auth.py.
THEOREM TypeCorrect == Spec => []TypeOK
<1>1. Inv => TypeOK
  <2> SUFFICES ASSUME Inv PROVE TypeOK
    OBVIOUS
  <2>1. \A t \in Token : tokens[t] # Unused => IsRow(t)
    BY DEF Inv, TypeInv, IsRow, Row
  <2>2. \A t \in Token : IsRow(t) => tokens[t] # Unused
    BY DEF IsRow, Unused
  <2>3. \A r \in Busy : request[r].op \in AtWork
    BY Fields DEF Inv, TypeInv, Busy
  <2>4. users \in [User -> {Unused} \cup [is : {"row"}, pw : 0..latest]]
        /\ tokens \in [Token -> {Unused} \cup Row]
        /\ access \in [Browser -> User \cup {NoUser}]
    BY DEF Inv, TypeInv
  <2>5. \A b \in Browser : jar[b] # NoToken => jar[b] \in Token /\ tokens[jar[b]] # Unused
    BY <2>2, Chained
  <2>6. \A t \in Token : tokens[t] # Unused => tokens[tokens[t].chain] # Unused
    BY <2>1, <2>2, Chained DEF Inv, ChainInv
  <2> QED BY <2>3, <2>4, <2>5, <2>6 DEF TypeOK, AtWork
<1> QED BY <1>1, Invariant, PTL

\* refresh_tokens: a login has at most one token that is not revoked, unless two requests
\* on it were at work at the same time, for any number of refreshes, tabs and crashes.
THEOREM OneLive == Spec => []OneLivePerLogin
<1>1. Inv => OneLivePerLogin
  <2> SUFFICES ASSUME Inv, NEW c \in Token, c \notin overlap
               PROVE  Cardinality(Live(c)) <= 1
    BY DEF OneLivePerLogin
  <2>1. CASE Live(c) = {}
    BY <2>1, FS_EmptySet
  <2>2. CASE Live(c) # {}
    <3>1. PICK t \in Live(c) : TRUE
      BY <2>2
    <3>2. \A s \in Live(c) : s = t
      BY <3>1 DEF Inv, LiveInv, LiveToken, Live
    <3>3. Live(c) = {t}
      BY <3>1, <3>2
    <3> QED BY <3>3, FS_Singleton
  <2> QED BY <2>1, <2>2
<1> QED BY <1>1, Invariant, PTL

\* change_password and revoke_refresh: no live token of a login survives its logout or an
\* older password, but for the tokens of a lost response, of overlapping requests, and of
\* a password set by the script.
THEOREM EndedStayEnded == Spec => []EndedSessionsStayEnded
<1>1. Inv => EndedSessionsStayEnded
  BY DEF Inv, LeftInv, PasswordInv, LiveToken, EndedSessionsStayEnded
<1> QED BY <1>1, Invariant, PTL

\* A browser loses its session only for one of the reasons SessionsLast names.
THEOREM Lasting == Spec => []SessionsLast
<1>1. Inv => SessionsLast
  BY DEF Inv
<1> QED BY <1>1, Invariant, PTL

-----------------------------------------------------------------------------
(* The limiter of logins.                                                  *)

\* The limiter remembers the last logins that were let through, and has forgotten only
\* those that the window has passed.
LimiterInv ==
  /\ now \in Nat /\ bucket \in Seq(Nat) /\ admitted \in Seq(Nat)
  /\ Len(bucket) <= Len(admitted)
  /\ \A i \in 1..Len(bucket) : bucket[i] = admitted[Len(admitted) - Len(bucket) + i]
  /\ \A i \in 1..Len(admitted) - Len(bucket) : admitted[i] + Window < now
  /\ LoginsBounded

LEMMA LimiterInit ==
  ASSUME Init  PROVE LimiterInv
<1>1. now = 0 /\ bucket = <<>> /\ admitted = <<>>
  BY DEF Init
<1>2. Len(bucket) = 0 /\ Len(admitted) = 0 /\ bucket \in Seq(Nat) /\ admitted \in Seq(Nat)
  BY <1>1, EmptySeq
<1>3. LoginsBounded
  <2>1. 1..Len(admitted) = {}
    BY <1>2
  <2> QED BY <2>1 DEF LoginsBounded
<1> QED BY <1>1, <1>2, <1>3 DEF LimiterInv

LEMMA TimeOf ==
  ASSUME NEW s \in Seq(Nat), NEW i \in 1..Len(s)
  PROVE  s[i] \in Nat
OBVIOUS

\* What is forgotten is a beginning, and what is left remembers the rest.
LEMMA Forgetting ==
  ASSUME LimiterInv, NEW n \in 0..Len(bucket), Forgets(n)
  PROVE  LET kept == Kept(n) IN
         /\ kept \in Seq(Nat) /\ Len(kept) <= Len(admitted)
         /\ \A i \in 1..Len(kept) : kept[i] = admitted[Len(admitted) - Len(kept) + i]
         /\ \A i \in 1..Len(admitted) - Len(kept) : admitted[i] + Window < now
<1>1. /\ now \in Nat /\ bucket \in Seq(Nat) /\ admitted \in Seq(Nat)
      /\ Len(bucket) \in Nat /\ Len(admitted) \in Nat /\ Len(bucket) <= Len(admitted)
      /\ Window \in Nat /\ n \in Nat /\ n <= Len(bucket)
  BY AuthAssumption DEF LimiterInv
<1>2. PICK a \in Nat : a = Len(admitted) - Len(bucket)
  <2>1. Len(admitted) - Len(bucket) \in Nat
    BY <1>1
  <2> QED BY <2>1, Zenon
<1>3. PICK kept : kept = Kept(n)
  OBVIOUS
<1>4. /\ kept \in Seq(Nat) /\ Len(kept) = Len(bucket) - n
      /\ \A i \in 1..Len(kept) : kept[i] = bucket[n + i]
  <2>1. /\ n + 1 \in 1..Len(bucket) + 1 /\ Len(bucket) \in (n + 1) - 1..Len(bucket)
        /\ Len(bucket) - (n + 1) + 1 = Len(bucket) - n
    BY <1>1
  <2>2. \A i \in 1..Len(bucket) - n : (n + 1) + i - 1 = n + i
    BY <1>1
  <2>3. /\ SubSeq(bucket, n + 1, Len(bucket)) \in Seq(Nat)
        /\ Len(SubSeq(bucket, n + 1, Len(bucket))) =
             IF n + 1 <= Len(bucket) THEN Len(bucket) - (n + 1) + 1 ELSE 0
        /\ \A i \in 1..Len(bucket) - (n + 1) + 1 :
             SubSeq(bucket, n + 1, Len(bucket))[i] = bucket[(n + 1) + i - 1]
    BY <1>1, <2>1, SubSeqProperties
  <2>4. Len(kept) = Len(bucket) - n
    <3>1. CASE n + 1 <= Len(bucket)
      BY <1>3, <2>1, <2>3, <3>1 DEF Kept
    <3>2. CASE ~(n + 1 <= Len(bucket))
      <4>1. Len(bucket) - n = 0
        BY <1>1, <3>2
      <4>2. Len(kept) = 0
        BY <1>3, <2>3, <3>2, Zenon DEF Kept
      <4> QED BY <4>1, <4>2
    <3> QED BY <3>1, <3>2
  <2>5. ASSUME NEW i \in 1..Len(kept)  PROVE kept[i] = bucket[n + i]
    <3>1. /\ (n + 1) + i - 1 = n + i /\ i \in 1..Len(bucket) - (n + 1) + 1
      BY <1>1, <2>1, <2>2, <2>4
    <3>2. SubSeq(bucket, n + 1, Len(bucket))[i] = bucket[(n + 1) + i - 1]
      BY <2>3, <3>1
    <3> QED BY <1>3, <3>1, <3>2 DEF Kept
  <2>6. kept \in Seq(Nat)
    BY <1>3, <2>3, Zenon DEF Kept
  <2> QED BY <2>4, <2>5, <2>6
<1>5. ASSUME NEW i \in 1..Len(kept)
      PROVE  kept[i] = admitted[Len(admitted) - Len(kept) + i]
  <2>1. n + i \in 1..Len(bucket) /\ a + (n + i) = Len(admitted) - Len(kept) + i
    BY <1>1, <1>2, <1>4
  <2> QED BY <1>2, <1>4, <2>1 DEF LimiterInv
<1>6. ASSUME NEW i \in 1..Len(admitted) - Len(kept)
      PROVE  admitted[i] + Window < now
  <2>1. CASE i <= a
    BY <1>1, <1>2, <2>1 DEF LimiterInv
  <2>2. CASE i > a
    <3>1. PICK j \in 1..n : i = a + j
      <4>1. i - a \in 1..n /\ i = a + (i - a)
        BY <1>1, <1>2, <1>4, <2>2
      <4> QED BY <4>1
    <3>2. j \in 1..Len(bucket) /\ Len(admitted) - Len(bucket) + j = i
      BY <1>1, <1>2, <3>1
    <3>3. bucket[j] = admitted[i] /\ bucket[j] \in Nat
      BY <1>1, <3>2, TimeOf DEF LimiterInv
    <3>4. ~(bucket[j] + Window >= now)
      BY <3>1 DEF Forgets, Remembered
    <3>5. \A x, y, z \in Nat : ~(x + y >= z) => x + y < z
      OBVIOUS
    <3> QED BY <1>1, <3>3, <3>4, <3>5
  <2> QED BY <1>1, <1>2, <2>1, <2>2
<1> QED BY <1>1, <1>3, <1>4, <1>5, <1>6

\* One more is let through only when the one that many before it is out of the window.
LEMMA AllowKeepsLimit ==
  ASSUME LimiterInv, Allow, now' = now
  PROVE  LimiterInv'
<1>1. PICK n \in 0..Len(bucket) : /\ Forgets(n) /\ Len(Kept(n)) < Limit
                                  /\ bucket' = Append(Kept(n), now)
  BY DEF Allow
<1>2. PICK kept : kept = Kept(n)
  OBVIOUS
<1>3. /\ kept \in Seq(Nat) /\ Len(kept) <= Len(admitted)
      /\ \A i \in 1..Len(kept) : kept[i] = admitted[Len(admitted) - Len(kept) + i]
      /\ \A i \in 1..Len(admitted) - Len(kept) : admitted[i] + Window < now
  BY <1>1, <1>2, Forgetting
<1>4. /\ now \in Nat /\ admitted \in Seq(Nat) /\ Window \in Nat /\ Limit \in Nat \ {0}
      /\ LoginsBounded
  BY AuthAssumption DEF LimiterInv
<1>5. PICK k \in Nat, a \in Nat : k = Len(kept) /\ a = Len(admitted) /\ k <= a /\ k < Limit
  BY <1>1, <1>2, <1>3, <1>4
<1>6. /\ bucket' \in Seq(Nat) /\ Len(bucket') = k + 1 /\ bucket'[k + 1] = now
      /\ \A i \in 1..k : bucket'[i] = kept[i]
  BY <1>1, <1>2, <1>3, <1>4, <1>5, AppendProperties
<1>7. /\ admitted' \in Seq(Nat) /\ Len(admitted') = a + 1 /\ admitted'[a + 1] = now
      /\ \A i \in 1..a : admitted'[i] = admitted[i]
  BY <1>4, <1>5, AppendProperties DEF Allow
<1>8. ASSUME NEW i \in 1..k + 1  PROVE bucket'[i] = admitted'[a + 1 - (k + 1) + i]
  <2>1. CASE i = k + 1
    <3>1. a + 1 - (k + 1) + i = a + 1
      BY <1>5, <2>1
    <3> QED BY <1>6, <1>7, <2>1, <3>1
  <2>2. CASE i # k + 1
    <3>1. i \in 1..k /\ a + 1 - (k + 1) + i = a - k + i /\ a - k + i \in 1..a
      BY <1>5, <2>2
    <3> QED BY <1>3, <1>5, <1>6, <1>7, <3>1
  <2> QED BY <2>1, <2>2
<1>9. ASSUME NEW i \in 1..(a + 1) - (k + 1)  PROVE admitted'[i] + Window < now
  <2>1. i \in 1..a /\ i \in 1..a - k
    BY <1>5
  <2> QED BY <1>3, <1>5, <1>7, <2>1
<1>10. ASSUME NEW i \in 1..a + 1, i + Limit <= a + 1
       PROVE  admitted'[i + Limit] > admitted'[i] + Window
  <2>1. i \in 1..a /\ admitted'[i] = admitted[i] /\ admitted[i] \in Nat
    <3>1. i \in 1..a
      BY <1>4, <1>5, <1>10
    <3> QED BY <1>4, <1>5, <1>7, <3>1, TimeOf
  <2>2. CASE i + Limit = a + 1
    <3>1. i \in 1..a - k
      BY <1>4, <1>5, <2>1, <2>2
    <3> QED BY <1>3, <1>4, <1>5, <1>7, <2>1, <2>2, <3>1
  <2>3. CASE i + Limit # a + 1
    <3>1. i + Limit \in 1..a /\ i + Limit <= a
      BY <1>4, <1>5, <1>10, <2>3
    <3> QED BY <1>4, <1>5, <1>7, <2>1, <3>1 DEF LoginsBounded
  <2> QED BY <2>2, <2>3
<1>11. LoginsBounded'
  BY <1>7, <1>10 DEF LoginsBounded
<1>12. k + 1 <= a + 1
  BY <1>5
<1> QED BY <1>4, <1>6, <1>7, <1>8, <1>9, <1>11, <1>12 DEF LimiterInv

LEMMA DenyKeepsLimit ==
  ASSUME LimiterInv, Deny, now' = now
  PROVE  LimiterInv'
<1>1. PICK n \in 0..Len(bucket) : Forgets(n) /\ bucket' = Kept(n) /\ UNCHANGED admitted
  BY DEF Deny
<1>2. /\ bucket' \in Seq(Nat) /\ Len(bucket') <= Len(admitted)
      /\ \A i \in 1..Len(bucket') : bucket'[i] = admitted[Len(admitted) - Len(bucket') + i]
      /\ \A i \in 1..Len(admitted) - Len(bucket') : admitted[i] + Window < now
  BY <1>1, Forgetting
<1> QED BY <1>1, <1>2 DEF LimiterInv, LoginsBounded

\* The limiter is left alone, but for the time that passes.
LEMMA LimiterLeft ==
  ASSUME LimiterInv, UNCHANGED limiter, now' \in Nat, now <= now'
  PROVE  LimiterInv'
<1>1. bucket' = bucket /\ admitted' = admitted
  BY DEF limiter
<1>2. ASSUME NEW i \in 1..Len(admitted) - Len(bucket)  PROVE admitted[i] + Window < now'
  <2>1. admitted[i] \in Nat /\ admitted[i] + Window < now /\ now \in Nat /\ Window \in Nat
    BY AuthAssumption DEF LimiterInv
  <2> QED BY <2>1
<1> QED BY <1>1, <1>2 DEF LimiterInv, LoginsBounded

LEMMA LimiterStep ==
  ASSUME LimiterInv, [Next]_vars
  PROVE  LimiterInv'
<1>0. now \in Nat
  BY DEF LimiterInv
<1>1. ASSUME UNCHANGED <<limiter, now>>  PROVE LimiterInv'
  BY <1>0, <1>1, LimiterLeft
<1>2. CASE Crash
  <2>1. bucket' = <<>> /\ admitted' = <<>> /\ now' = now
    BY <1>2 DEF Crash
  <2>2. Len(bucket') = 0 /\ Len(admitted') = 0 /\ bucket' \in Seq(Nat) /\ admitted' \in Seq(Nat)
    BY <2>1, EmptySeq
  <2>3. LoginsBounded'
    <3>1. 1..Len(admitted') = {}
      BY <2>2
    <3> QED BY <3>1 DEF LoginsBounded
  <2> QED BY <1>0, <2>1, <2>2, <2>3 DEF LimiterInv
<1>3. CASE Tick
  <2>1. now' \in Nat /\ now <= now' /\ UNCHANGED limiter
    BY <1>0, <1>3 DEF Tick
  <2> QED BY <2>1, LimiterLeft
<1>4. CASE LoginFails
  BY <1>4, AllowKeepsLimit, DenyKeepsLimit DEF LoginFails
<1>5. CASE \E r \in Request, b \in Browser, u \in User, pw \in 0..MaxPasswords : Login(r, b, u, pw)
  BY <1>5, AllowKeepsLimit DEF Login, Begin
<1>6. CASE Start \/ (\E t \in Token : Expires(t))
           \/ \E b \in Browser : AccessExpires(b) \/ LogoutAtOnce(b)
  BY <1>1, <1>6 DEF Start, Expires, AccessExpires, LogoutAtOnce, clock
<1>7. CASE (\E b \in Browser, u \in User : CreateUser(b, u)) \/ \E u \in User : AdminScript(u)
  BY <1>1, <1>7 DEF CreateUser, AdminScript
<1>8. CASE \E r \in Request : Issue(r) \/ RefreshCommit(r) \/ LogoutCommit(r) \/ ChangeCommit(r)
  BY <1>1, <1>8 DEF Issue, RefreshCommit, LogoutCommit, ChangeCommit, clock
<1>9. CASE \E r \in Request, b \in Browser : RefreshRead(r, b) \/ LogoutRead(r, b) \/ ChangeRead(r, b)
  BY <1>1, <1>9 DEF RefreshRead, LogoutRead, ChangeRead, Begin
<1>10. CASE UNCHANGED vars
  BY <1>1, <1>10 DEF vars, clock
<1> QED BY <1>2, <1>3, <1>4, <1>5, <1>6, <1>7, <1>8, <1>9, <1>10 DEF Next

\* SlidingWindowRateLimiter.allow: as long as the process runs, no window sees more logins
\* let through than the limit, at its boundary neither.
THEOREM LoginsStayBounded == Spec => []LoginsBounded
<1>1. Init => LimiterInv
  BY LimiterInit
<1>2. LimiterInv /\ [Next]_vars => LimiterInv'
  BY LimiterStep
<1>3. LimiterInv => LoginsBounded
  BY DEF LimiterInv
<1> QED BY <1>1, <1>2, <1>3, PTL DEF Spec
=============================================================================
