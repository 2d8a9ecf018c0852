-------------------------------- MODULE Login --------------------------------
(***************************************************************************)
(* Logging in: the dialog of each client, the HTTP exchange its            *)
(* QNetworkAccessManager has under way, the authentication server and the  *)
(* tables it reads and writes.                                             *)
(*                                                                         *)
(* The server runs one handler at a time, and a login is one handler, but  *)
(* its three queries are on connections of their own and not in one        *)
(* transaction: the administrator changes accounts in between, each query  *)
(* can fail by itself, and the process can die between two of them.  An    *)
(* answer travels on the connection its request came on and is lost with   *)
(* it.  The network access manager may send a request again when it loses  *)
(* the connection, and so a login that was served already.                 *)
(*                                                                         *)
(* A user stands for id, name and profile, a password for its hash.  The   *)
(* dialog sends neither an empty name nor an empty password, so the        *)
(* server's answers 400 and 404 are not met here.                          *)
(***************************************************************************)
EXTENDS Integers

CONSTANTS
    Clients,      \* running clients
    Users,        \* names that can be typed; not all need have an account
    Passwords,
    Typed,        \* names and passwords that get typed in
    InitialAccounts,  \* sys_users at the start
    NoUser,       \* the id 0 of a default UserInfo, and UserSession's at first
    MaxRequests,  \* bound: requests sent, by clicks and over again
    MaxChanges    \* bound: changes of accounts

Statuses == {"none", "enabled", "disabled"}
Accounts == [Users -> [status : Statuses, password : Passwords]]

ASSUME LoginAssumption ==
    /\ InitialAccounts \in Accounts
    /\ NoUser \notin Users
    /\ Typed \subseteq [user : Users, password : Passwords]
    /\ MaxRequests \in Nat /\ MaxChanges \in Nat

VARIABLES
    accounts,  \* sys_users: status and password of each user
    changes,   \* how often the administrator has changed one
    dialog,    \* the login dialog of each client: what was typed last, and
               \* the first request sent for it
    session,   \* UserSession of each client
    sent,      \* the number of requests; a request is its number
    http,      \* the exchange of each client's network access manager
    server,    \* the handler the authentication server is in
    logs,      \* sys_user_login_logs, with the request that was being served
    lostLogs,  \* history: rows whose insertion failed
    valid      \* history: were name and password right, and the account
               \* enabled, at some time since the client sent them?

clientVars == <<dialog, session>>
logVars == <<logs, lostLogs>>
vars == <<accounts, changes, clientVars, sent, http, server, logVars, valid>>

\* LoginResult; every code but 0 means failure.
Results == [success : BOOLEAN, code : {0, 401, 403, 500}, user : Users \cup {NoUser}]
NoResult == [success |-> FALSE, code |-> 0, user |-> NoUser]

\* What the client gets to see.  Status 0: no answer came.
Answers == [status : {0, 200, 401, 403, 500}, code : {0, 401, 403, 500},
            hasData : BOOLEAN, data : Users \cup {NoUser}]
NoAnswer == [status |-> 0, code |-> 0, hasData |-> FALSE, data |-> NoUser]

Rows == [client : Clients, id : 1 .. MaxRequests, user : Users, ok : BOOLEAN]

NotTyped == [user |-> NoUser, password |-> NoUser]

Dialogs == [state : {"shown", "accepted", "closed"}, inFlight : BOOLEAN,
            first : 0 .. MaxRequests, typed : Typed \cup {NotTyped}]
Exchanges == [state : {"none", "request", "serving", "broken", "answered"},
              id : 0 .. MaxRequests, answer : Answers]
Handlers == [pc : {"idle", "find", "profile", "log", "respond"},
             client : Clients \cup {NoUser}, id : 0 .. MaxRequests,
             typed : Typed \cup {NotTyped}, result : Results]

NoExchange == [state |-> "none", id |-> 0, answer |-> NoAnswer]
Idle == [pc |-> "idle", client |-> NoUser, id |-> 0, typed |-> NotTyped,
         result |-> NoResult]

Init ==
    /\ accounts = InitialAccounts
    /\ changes = 0
    /\ dialog = [c \in Clients |->
                    [state |-> "shown", inFlight |-> FALSE, first |-> 0,
                     typed |-> NotTyped]]
    /\ session = [c \in Clients |-> NoUser]
    /\ sent = 0
    /\ http = [c \in Clients |-> NoExchange]
    /\ server = Idle
    /\ logs = {}
    /\ lostLogs = {}
    /\ valid = [c \in Clients |-> FALSE]
-----------------------------------------------------------------------------
(***************************************************************************)
(* The dialog.  The boxes that warn of an empty field or a failed login    *)
(* change nothing and are left out.                                        *)
(***************************************************************************)
Right(acc, t) == acc[t.user].status = "enabled" /\ acc[t.user].password = t.password

\* The button, with an account and a password typed in.
Login(c) ==
    /\ dialog[c].state = "shown" /\ ~dialog[c].inFlight
    /\ sent < MaxRequests
    /\ sent' = sent + 1
    /\ \E t \in Typed :
        /\ dialog' = [dialog EXCEPT ![c] =
              [state |-> "shown", inFlight |-> TRUE, first |-> sent', typed |-> t]]
        /\ valid' = [valid EXCEPT ![c] = Right(accounts, t)]
    /\ http' = [http EXCEPT ![c] =
              [state |-> "request", id |-> sent', answer |-> NoAnswer]]
    /\ UNCHANGED <<accounts, changes, session, server, logVars>>

\* Mutant: whatever carries data is a success.
Success_Data(a) == a.hasData

\* onLoginFinished takes an answer for a success.
Success(a) == a.status # 0 /\ a.code = 0 /\ a.hasData

\* Mutant: without an answer the handler returns before it resets the button.
onLoginFinished_KeepsFlag(c) ==
    /\ http[c].state = "answered"
    /\ dialog[c].state # "closed"
    /\ LET a == http[c].answer
       IN /\ dialog' = [dialog EXCEPT
                ![c].inFlight = a.status = 0,
                ![c].state = IF Success(a) THEN "accepted" ELSE @]
          /\ session' = [session EXCEPT ![c] = IF Success(a) THEN a.data ELSE @]
    /\ http' = [http EXCEPT ![c] = NoExchange]
    /\ UNCHANGED <<accounts, changes, sent, server, logVars, valid>>

\* The answer, or the failure to get one.  setUser, then accept().
onLoginFinished(c) ==
    /\ http[c].state = "answered"
    /\ dialog[c].state # "closed"
    /\ LET a == http[c].answer
       IN /\ dialog' = [dialog EXCEPT
                ![c].inFlight = FALSE,
                ![c].state = IF Success(a) THEN "accepted" ELSE @]
          /\ session' = [session EXCEPT ![c] = IF Success(a) THEN a.data ELSE @]
    /\ http' = [http EXCEPT ![c] = NoExchange]
    /\ UNCHANGED <<accounts, changes, sent, server, logVars, valid>>

\* exec() returns Rejected and main returns; the connection goes with it.
close_dialog(c) ==
    /\ dialog[c].state = "shown"
    /\ dialog' = [dialog EXCEPT ![c].state = "closed", ![c].inFlight = FALSE]
    /\ http' = [http EXCEPT ![c] = NoExchange]
    /\ UNCHANGED <<accounts, changes, session, sent, server, logVars, valid>>
-----------------------------------------------------------------------------
(***************************************************************************)
(* The network between a client and the server.                            *)
(***************************************************************************)
connection_lost(c) ==
    /\ http[c].state \in {"request", "serving"}
    /\ http' = [http EXCEPT ![c].state = "broken"]
    /\ UNCHANGED <<accounts, changes, clientVars, sent, server, logVars, valid>>

\* The network access manager sends the request again, or gives up.
resend(c) ==
    /\ http[c].state = "broken" /\ sent < MaxRequests
    /\ sent' = sent + 1
    /\ http' = [http EXCEPT ![c].state = "request", ![c].id = sent']
    /\ UNCHANGED <<accounts, changes, clientVars, server, logVars, valid>>

give_up(c) ==
    /\ http[c].state = "broken"
    /\ http' = [http EXCEPT ![c].state = "answered", ![c].answer = NoAnswer]
    /\ UNCHANGED <<accounts, changes, clientVars, sent, server, logVars, valid>>
-----------------------------------------------------------------------------
(***************************************************************************)
(* The server.                                                             *)
(***************************************************************************)
\* on_read hands a request to handle_request and that to AuthService::login.
on_read(c) ==
    /\ server.pc = "idle" /\ http[c].state = "request"
    /\ server' = [pc |-> "find", client |-> c, id |-> http[c].id,
                  typed |-> dialog[c].typed, result |-> NoResult]
    /\ http' = [http EXCEPT ![c].state = "serving"]
    /\ UNCHANGED <<accounts, changes, clientVars, sent, logVars, valid>>

Refused(code) == [success |-> FALSE, code |-> code, user |-> NoUser]

\* What login() makes of the credential it has read, and where it goes on.
Judged(a, password) ==
    CASE a.status = "none" -> [pc |-> "respond", result |-> Refused(401)]
      [] a.status = "disabled" -> [pc |-> "log", result |-> Refused(403)]
      [] a.status = "enabled" /\ a.password # password ->
            [pc |-> "log", result |-> Refused(401)]
      [] OTHER ->
            [pc |-> "profile",
             result |-> [success |-> TRUE, code |-> 0, user |-> NoUser]]

find_credential_by_username ==
    /\ server.pc = "find"
    /\ LET j == Judged(accounts[server.typed.user], server.typed.password)
       IN server' = [server EXCEPT !.pc = j.pc, !.result = j.result]
    /\ UNCHANGED <<accounts, changes, clientVars, sent, http, logVars, valid>>

\* The catch of login() for the first query: success is still false.
find_credential_throws ==
    /\ server.pc = "find"
    /\ server' = [server EXCEPT !.pc = "respond", !.result = Refused(500)]
    /\ UNCHANGED <<accounts, changes, clientVars, sent, http, logVars, valid>>

\* Mutant: the columns of the row are mixed up.
load_user_info_WrongColumn ==
    /\ server.pc = "profile"
    /\ server' = [server EXCEPT !.pc = "log", !.result.user = server.typed.password]
    /\ UNCHANGED <<accounts, changes, clientVars, sent, http, logVars, valid>>

\* Mutant: a login that succeeds is not logged.
load_user_info_NoLog ==
    /\ server.pc = "profile"
    /\ server' = [server EXCEPT !.pc = "respond", !.result.user = server.typed.user]
    /\ UNCHANGED <<accounts, changes, clientVars, sent, http, logVars, valid>>

load_user_info ==
    /\ server.pc = "profile"
    /\ server' = [server EXCEPT !.pc = "log", !.result.user = server.typed.user]
    /\ UNCHANGED <<accounts, changes, clientVars, sent, http, logVars, valid>>

\* The catch for the second one: success is true by now and stays so.
load_user_info_throws ==
    /\ server.pc = "profile"
    /\ server' = [server EXCEPT !.pc = "respond", !.result.code = 500]
    /\ UNCHANGED <<accounts, changes, clientVars, sent, http, logVars, valid>>

Row == [client |-> server.client, id |-> server.id, user |-> server.typed.user,
        ok |-> server.result.success]

\* The row is written, or the insertion fails and login() does not notice.
insert_login_log ==
    /\ server.pc = "log"
    /\ server' = [server EXCEPT !.pc = "respond"]
    /\ \/ logs' = logs \cup {Row} /\ UNCHANGED lostLogs
       \/ lostLogs' = lostLogs \cup {Row} /\ UNCHANGED logs
    /\ UNCHANGED <<accounts, changes, clientVars, sent, http, valid>>

\* handle_request's status, and to_login_response_json.
Response(r) ==
    [status |-> IF r.success THEN 200 ELSE r.code,
     code |-> r.code, hasData |-> r.success, data |-> r.user]

\* The answer reaches the client if its connection is still there.
send_response ==
    /\ server.pc = "respond"
    /\ LET c == server.client
       IN http' = IF http[c].state = "serving" /\ http[c].id = server.id
                  THEN [http EXCEPT ![c].state = "answered",
                                    ![c].answer = Response(server.result)]
                  ELSE http
    /\ server' = Idle
    /\ UNCHANGED <<accounts, changes, clientVars, sent, logVars, valid>>

\* The process dies and is started again: every connection breaks.
crash ==
    /\ server' = Idle
    /\ http' = [c \in Clients |->
                  IF http[c].state \in {"request", "serving"}
                  THEN [http[c] EXCEPT !.state = "broken"] ELSE http[c]]
    /\ UNCHANGED <<accounts, changes, clientVars, sent, logVars, valid>>

\* The administrator creates, disables, enables or deletes an account, or
\* changes its password.
change_account ==
    /\ changes < MaxChanges
    /\ changes' = changes + 1
    /\ \E u \in Users :
        /\ \/ \E st \in Statuses : accounts' = [accounts EXCEPT ![u].status = st]
           \/ \E p \in Passwords : accounts' = [accounts EXCEPT ![u].password = p]
        /\ valid' = [c \in Clients |->
                        \/ valid[c]
                        \/ /\ dialog[c].first > 0 /\ dialog[c].state # "accepted"
                           /\ Right(accounts', dialog[c].typed)]
    /\ UNCHANGED <<clientVars, sent, http, server, logVars>>
-----------------------------------------------------------------------------
LoginQuery ==
    \/ find_credential_by_username \/ find_credential_throws
    \/ load_user_info \/ load_user_info_throws
    \/ insert_login_log
    \/ send_response

Finish(c) == resend(c) \/ give_up(c) \/ onLoginFinished(c)

Next ==
    \/ \E c \in Clients :
        \/ Login(c) \/ close_dialog(c)
        \/ connection_lost(c) \/ on_read(c) \/ Finish(c)
    \/ LoginQuery \/ crash \/ change_account

\* The server serves every request it is sent (its loop is first come first
\* served) and ends every login; a broken connection is noticed, and what it
\* leads to handled by the event loop of the dialog.
Fairness ==
    /\ WF_vars(LoginQuery)
    /\ \A c \in Clients : SF_vars(on_read(c)) /\ WF_vars(Finish(c))

Spec == Init /\ [][Next]_vars

FairSpec == Spec /\ Fairness
-----------------------------------------------------------------------------
(***************************************************************************)
(* Properties.                                                             *)
(***************************************************************************)
\* The values of the variables.
TypeOK ==
    /\ accounts \in Accounts
    /\ changes \in 0 .. MaxChanges
    /\ dialog \in [Clients -> Dialogs]
    /\ session \in [Clients -> Users \cup {NoUser}]
    /\ sent \in 0 .. MaxRequests
    /\ http \in [Clients -> Exchanges]
    /\ server \in Handlers
    /\ logs \subseteq Rows /\ lostLogs \subseteq Rows
    /\ valid \in [Clients -> BOOLEAN]

\* A client that has logged in is the user whose name was typed into it, and
\* name and password were those of an enabled account at some moment after
\* they were sent: whatever other clients, queries that fail, accounts that
\* change half way and answers to lost connections do, nobody logs in as
\* somebody else, as nobody (the answer 500 with data) or to a closed account.
LoggedInAsSelf ==
    \A c \in Clients :
        IF dialog[c].state = "accepted"
        THEN session[c] = dialog[c].typed.user /\ session[c] # NoUser /\ valid[c]
        ELSE session[c] = NoUser

\* The login log tells the truth: who got in has a row of success for that
\* very attempt (or its insertion failed), an attempt that was never right
\* has none, and one request served has one row at most.
AuditTrail ==
    LET rows == logs \cup lostLogs
    IN /\ TypeOK
       /\ \A c \in Clients : dialog[c].state = "accepted" =>
            \E r \in rows : /\ r.client = c /\ r.id >= dialog[c].first
                            /\ r.user = session[c] /\ r.ok
       /\ \A r \in rows :
            r.ok /\ r.id >= dialog[r.client].first => valid[r.client]
       /\ \A r, s \in rows : r.id = s.id => r = s
       /\ logs \cap lostLogs = {}

\* A login ends: the button that a request disabled is enabled again, with
\* or without an answer, or the dialog is gone.
LoginEnds == \A c \in Clients : dialog[c].inFlight ~> ~dialog[c].inFlight
=============================================================================
