----------------------------- MODULE AuthService -----------------------------
(***************************************************************************)
(* AuthService: accounts in an array of the process.  register looks the   *)
(* e-mail up, waits for bcrypt, and appends; login waits for bcrypt        *)
(* between finding the account and signing a token.  An account's id is    *)
(* the time it was appended at.                                            *)
(***************************************************************************)
EXTENDS Naturals, Sequences

CONSTANTS Emails, Passwords,
          AuthCallers,      \* concurrent HTTP requests
          MaxAccounts,      \* bound: accounts
          LastTime          \* bound: the clock stops here

ASSUME AuthAssumption == MaxAccounts \in Nat /\ LastTime \in Nat

VARIABLES time,     \* Date.now()
          users,    \* the array of accounts; known is how many it had when the
                    \* e-mail was looked up
          call,     \* per caller: the request it is in
          token     \* per caller: its last token, and the e-mail it was asked for

authVars == <<time, users, call, token>>

NoCall == [op |-> "none"]
NoToken == [email |-> "none", sub |-> 0]

AuthInit ==
    /\ time = 0
    /\ users = << >>
    /\ call = [c \in AuthCallers |-> NoCall]
    /\ token = [c \in AuthCallers |-> NoToken]

\* users.find: the first account that fits, 0 when there is none.
FirstUser(Fits(_)) ==
    LET fitting == {i \in DOMAIN users : Fits(users[i])}
    IN  IF fitting = {} THEN 0 ELSE CHOOSE i \in fitting : \A j \in fitting : i <= j
ByEmail(e) == FirstUser(LAMBDA u : u.email = e)

\* A slip: nobody looks whether the e-mail is known.
RegisterUnchecked(c, e, p) ==
    /\ call[c] = NoCall /\ Len(users) < MaxAccounts
    /\ call' = [call EXCEPT ![c] =
            [op |-> "register", email |-> e, password |-> p, known |-> Len(users)]]
    /\ UNCHANGED <<time, users, token>>

\* register up to bcrypt.hash: a known e-mail is a conflict.
Register(c, e, p) ==
    /\ call[c] = NoCall /\ Len(users) < MaxAccounts
    /\ ByEmail(e) = 0
    /\ call' = [call EXCEPT ![c] =
            [op |-> "register", email |-> e, password |-> p, known |-> Len(users)]]
    /\ UNCHANGED <<time, users, token>>

\* register after bcrypt.hash: the account is appended and a token signed.
Registered(c) ==
    /\ call[c].op = "register"
    /\ users' = Append(users, [id |-> time, email |-> call[c].email,
                               password |-> call[c].password, known |-> call[c].known])
    /\ token' = [token EXCEPT ![c] = [email |-> call[c].email, sub |-> time]]
    /\ call' = [call EXCEPT ![c] = NoCall]
    /\ UNCHANGED time

\* login: an unknown e-mail is refused at once, a wrong password after bcrypt.
Login(c, e, p) ==
    /\ call[c] = NoCall /\ ByEmail(e) # 0
    /\ call' = [call EXCEPT ![c] =
            [op |-> "login", email |-> e, password |-> p, user |-> users[ByEmail(e)]]]
    /\ UNCHANGED <<time, users, token>>
LoggedIn(c) ==
    /\ call[c].op = "login"
    /\ token' = [token EXCEPT ![c] =
            IF call[c].user.password = call[c].password
            THEN [email |-> call[c].email, sub |-> call[c].user.id] ELSE @]
    /\ call' = [call EXCEPT ![c] = NoCall]
    /\ UNCHANGED <<time, users>>

TimePasses == time < LastTime /\ time' = time + 1 /\ UNCHANGED <<users, call, token>>

AuthNext ==
    \/ TimePasses
    \/ \E c \in AuthCallers :
        \/ \E e \in Emails, p \in Passwords : Register(c, e, p) \/ Login(c, e, p)
        \/ Registered(c) \/ LoggedIn(c)
AuthSpec == AuthInit /\ [][AuthNext]_authVars

-----------------------------------------------------------------------------
\* validateUser: the account a token's sub leads to.
ValidateUser(id) == FirstUser(LAMBDA u : u.id = id)

\* Two accounts share an e-mail only when the second was looked up before the
\* first was appended, and a token leads its bearer to an account of the e-mail
\* it was asked for, unless two accounts were appended in one millisecond.
AccountsAreKeptApart ==
    /\ \A i, j \in DOMAIN users :
            i < j /\ users[i].email = users[j].email => users[j].known < i
    /\ \A c \in AuthCallers : token[c] # NoToken =>
            \/ users[ValidateUser(token[c].sub)].email = token[c].email
            \/ \E i, j \in DOMAIN users : i # j /\ users[i].id = users[j].id
=============================================================================
