----------------------------- MODULE LoginProofs -----------------------------
(***************************************************************************)
(* Theorems about Login, for any number of clients, users and passwords,   *)
(* any accounts and any bounds: types, LoggedInAsSelf and AuditTrail.      *)
(***************************************************************************)
EXTENDS Login, TLAPS

LogRows == logs \cup lostLogs

(***************************************************************************)
(* The inductive invariant.                                                *)
(***************************************************************************)
\* A request has a number of its own until it is handled, and its row is
\* not written before that.
IdsInv ==
    /\ \A c \in Clients : http[c].id <= sent /\ dialog[c].first <= sent
    /\ server.id <= sent
    /\ \A r \in LogRows : r.id <= sent
    /\ server.pc \in {"find", "profile", "log"} =>
            \A r \in LogRows : r.id # server.id
    /\ \A c \in Clients : http[c].state = "request" =>
        /\ \A r \in LogRows : r.id # http[c].id
        /\ server.pc # "idle" => server.id # http[c].id
        /\ \A d \in Clients \ {c} :
                http[d].state = "request" => http[d].id # http[c].id

\* An exchange is about what its dialog, still shown, was typed last.
DialogInv ==
    \A c \in Clients :
        /\ http[c].state # "none" =>
                /\ dialog[c].state = "shown"
                /\ dialog[c].first > 0 /\ http[c].id >= dialog[c].first
        /\ dialog[c].first > 0 =>
                /\ dialog[c].typed \in Typed
                /\ dialog[c].state # "accepted" /\ Right(accounts, dialog[c].typed)
                        => valid[c]

\* The handler, at each of its places; a request older than what the dialog
\* was typed last says nothing about it.
ServerInv ==
    server.pc # "idle" =>
        /\ server.client \in Clients /\ server.typed \in Typed
        /\ server.id > 0 /\ dialog[server.client].first > 0
        /\ server.pc = "find" => ~server.result.success
        /\ server.pc = "profile" => server.result.success /\ server.result.code = 0
        /\ server.pc = "log" /\ server.result.success =>
                server.result.user = server.typed.user /\ server.result.code = 0
        /\ server.pc = "respond" /\ server.result.success /\ server.result.code = 0 =>
                server.result.user = server.typed.user /\ Row \in LogRows
        /\ server.id >= dialog[server.client].first =>
                /\ server.typed = dialog[server.client].typed
                /\ server.result.success => valid[server.client]

\* An answer that will be taken for a success.
AnswerInv ==
    \A c \in Clients : http[c].state = "answered" /\ Success(http[c].answer) =>
        /\ http[c].answer.data = dialog[c].typed.user
        /\ valid[c]
        /\ \E r \in LogRows : /\ r.client = c /\ r.id >= dialog[c].first
                              /\ r.user = dialog[c].typed.user /\ r.ok

\* AuditTrail without the types.
RowsTell ==
    /\ \A c \in Clients : dialog[c].state = "accepted" =>
            \E r \in LogRows : /\ r.client = c /\ r.id >= dialog[c].first
                               /\ r.user = session[c] /\ r.ok
    /\ \A r \in LogRows :
            r.ok /\ r.id >= dialog[r.client].first => valid[r.client]
    /\ \A r, s \in LogRows : r.id = s.id => r = s
    /\ logs \cap lostLogs = {}

LoginInv == IdsInv /\ DialogInv /\ ServerInv /\ AnswerInv
-----------------------------------------------------------------------------
(***************************************************************************)
(* Types.                                                                  *)
(***************************************************************************)
\* The values that stand for nothing yet.
LEMMA ConstantTypes ==
    /\ NoResult \in Results /\ NoAnswer \in Answers
    /\ NoExchange \in Exchanges /\ Idle \in Handlers
    /\ \A code \in {401, 403, 500} : Refused(code) \in Results
BY LoginAssumption DEF NoResult, Results, NoAnswer, Answers, NoExchange, Exchanges,
    Idle, Handlers, NotTyped, Refused

\* Judged and Response return what the handler and the client can hold.
LEMMA JudgedType ==
    ASSUME NEW a, NEW password
    PROVE  /\ Judged(a, password).pc \in {"profile", "log", "respond"}
           /\ Judged(a, password).result \in Results
BY DEF Judged, Refused, Results

LEMMA ResponseType ==
    ASSUME NEW r \in Results
    PROVE  Response(r) \in Answers
BY DEF Response, Results, Answers

\* Every step keeps the types; a handler at work has a client and a name.
LEMMA InitType == Init => TypeOK
<1> SUFFICES ASSUME Init PROVE TypeOK
  OBVIOUS
<1>1. dialog \in [Clients -> Dialogs]
  BY LoginAssumption DEF Init, Dialogs, NotTyped
<1>2. http \in [Clients -> Exchanges] /\ server \in Handlers
  BY ConstantTypes DEF Init
<1>3. accounts \in Accounts /\ changes \in 0 .. MaxChanges /\ sent \in 0 .. MaxRequests
  BY LoginAssumption DEF Init
<1>4. session \in [Clients -> Users \cup {NoUser}] /\ valid \in [Clients -> BOOLEAN]
  BY DEF Init
<1> QED
  BY <1>1, <1>2, <1>3, <1>4 DEF Init, TypeOK

LEMMA TypeStep == TypeOK /\ ServerInv /\ [Next]_vars => TypeOK'
<1> SUFFICES ASSUME TypeOK, ServerInv, [Next]_vars PROVE TypeOK'
  OBVIOUS
<1> USE DEF clientVars, logVars
<1>1. ASSUME NEW c \in Clients, Login(c) PROVE TypeOK'
  <2>1. sent' \in 0 .. MaxRequests
    BY <1>1, LoginAssumption DEF TypeOK, Login
  <2>2. dialog' \in [Clients -> Dialogs]
    BY <1>1, <2>1 DEF TypeOK, Login, Dialogs
  <2>3. http' \in [Clients -> Exchanges]
    BY <1>1, <2>1, ConstantTypes DEF TypeOK, Login, Exchanges
  <2>4. valid' \in [Clients -> BOOLEAN]
    BY <1>1 DEF TypeOK, Login, Right
  <2> QED
    BY <1>1, <2>1, <2>2, <2>3, <2>4 DEF TypeOK, Login
<1>2. ASSUME NEW c \in Clients, close_dialog(c) PROVE TypeOK'
  <2>1. dialog' \in [Clients -> Dialogs]
    <3> DEFINE d == [dialog[c] EXCEPT !.state = "closed", !.inFlight = FALSE]
    <3>1. dialog \in [Clients -> Dialogs] /\ dialog[c] \in Dialogs
      BY DEF TypeOK
    <3>2. d \in Dialogs
      BY <3>1 DEF Dialogs
    <3>3. dialog' = [dialog EXCEPT ![c] = d]
      BY <1>2, <3>1 DEF close_dialog
    <3> HIDE DEF d
    <3> QED
      BY <3>1, <3>2, <3>3
  <2> QED
    BY <1>2, <2>1, ConstantTypes DEF TypeOK, close_dialog
<1>3. ASSUME NEW c \in Clients, connection_lost(c) PROVE TypeOK'
  <2>1. http' \in [Clients -> Exchanges]
    BY <1>3 DEF TypeOK, connection_lost, Exchanges
  <2> QED
    BY <1>3, <2>1 DEF TypeOK, connection_lost
<1>4. ASSUME NEW c \in Clients, resend(c) PROVE TypeOK'
  <2>1. sent' \in 0 .. MaxRequests
    BY <1>4, LoginAssumption DEF TypeOK, resend
  <2>2. http' \in [Clients -> Exchanges]
    BY <1>4, <2>1, ZenonT(30) DEF TypeOK, resend, Exchanges
  <2> QED
    BY <1>4, <2>1, <2>2 DEF TypeOK, resend
<1>5. ASSUME NEW c \in Clients, give_up(c) PROVE TypeOK'
  <2>1. http' \in [Clients -> Exchanges]
    BY <1>5, ConstantTypes, ZenonT(30) DEF TypeOK, give_up, Exchanges
  <2> QED
    BY <1>5, <2>1 DEF TypeOK, give_up
<1>6. ASSUME NEW c \in Clients, onLoginFinished(c) PROVE TypeOK'
  <2>1. http[c].answer.data \in Users \cup {NoUser}
    BY <1>6 DEF TypeOK, Exchanges, Answers
  <2>2. session' \in [Clients -> Users \cup {NoUser}]
    BY <1>6, <2>1 DEF TypeOK, onLoginFinished
  <2>3. dialog' \in [Clients -> Dialogs]
    <3>1. dialog[c].state \in {"shown", "accepted", "closed"}
      BY <1>6 DEF TypeOK, Dialogs
    <3>2. PICK st \in {"shown", "accepted", "closed"} :
            dialog' = [dialog EXCEPT ![c].inFlight = FALSE, ![c].state = st]
      BY <1>6, <3>1 DEF onLoginFinished
    <3> DEFINE d == [dialog[c] EXCEPT !.inFlight = FALSE, !.state = st]
    <3>3. dialog \in [Clients -> Dialogs] /\ dialog[c] \in Dialogs
      BY DEF TypeOK
    <3>4. d \in Dialogs
      BY <3>3 DEF Dialogs
    <3>5. dialog' = [dialog EXCEPT ![c] = d]
      BY <3>2, <3>3
    <3> HIDE DEF d
    <3> QED
      BY <3>3, <3>4, <3>5
  <2>4. http' \in [Clients -> Exchanges]
    BY <1>6, ConstantTypes DEF TypeOK, onLoginFinished
  <2> QED
    BY <1>6, <2>2, <2>3, <2>4 DEF TypeOK, onLoginFinished
<1>7. ASSUME NEW c \in Clients, on_read(c) PROVE TypeOK'
  <2>1. http' \in [Clients -> Exchanges]
    BY <1>7 DEF TypeOK, on_read, Exchanges
  <2>2. http[c].id \in 0 .. MaxRequests /\ dialog[c].typed \in Typed \cup {NotTyped}
    BY <1>7 DEF TypeOK, Exchanges, Dialogs
  <2>3. server' \in Handlers
    BY <1>7, <2>2, ConstantTypes DEF on_read, Handlers
  <2> QED
    BY <1>7, <2>1, <2>3 DEF TypeOK, on_read
<1>8. ASSUME find_credential_by_username PROVE TypeOK'
  <2>1. server' \in Handlers
    BY <1>8, JudgedType DEF TypeOK, find_credential_by_username, Handlers
  <2> QED
    BY <1>8, <2>1 DEF TypeOK, find_credential_by_username
<1>9. ASSUME find_credential_throws PROVE TypeOK'
  <2>1. Refused(500) \in Results
    BY ConstantTypes
  <2>2. server' \in Handlers
    BY <1>9, <2>1, ZenonT(30) DEF TypeOK, find_credential_throws, Handlers
  <2> QED
    BY <1>9, <2>2 DEF TypeOK, find_credential_throws
<1>10. ASSUME load_user_info PROVE TypeOK'
  <2>1. server.typed.user \in Users
    BY <1>10, LoginAssumption DEF ServerInv, load_user_info
  <2>2. [server.result EXCEPT !.user = server.typed.user] \in Results
    BY <2>1 DEF TypeOK, Handlers, Results
  <2>3. PICK res \in Results : server' = [server EXCEPT !.pc = "log", !.result = res]
    BY <1>10, <2>2 DEF load_user_info
  <2>4. server' \in Handlers
    BY <2>3 DEF TypeOK, Handlers
  <2> QED
    BY <1>10, <2>4 DEF TypeOK, load_user_info
<1>11. ASSUME load_user_info_throws PROVE TypeOK'
  <2>1. [server.result EXCEPT !.code = 500] \in Results
    BY DEF TypeOK, Handlers, Results
  <2>2. server' = [server EXCEPT !.pc = "respond",
                       !.result = [server.result EXCEPT !.code = 500]]
    BY <1>11 DEF load_user_info_throws
  <2>3. PICK res \in Results :
            server' = [server EXCEPT !.pc = "respond", !.result = res]
    BY <2>1, <2>2
  <2>4. server' \in Handlers
    BY <2>3 DEF TypeOK, Handlers
  <2> QED
    BY <1>11, <2>4 DEF TypeOK, load_user_info_throws
<1>12. ASSUME insert_login_log PROVE TypeOK'
  <2>1. server.client \in Clients /\ server.typed.user \in Users /\ server.id > 0
    BY <1>12, LoginAssumption DEF ServerInv, insert_login_log
  <2>2. server.id \in 1 .. MaxRequests /\ server.result.success \in BOOLEAN
    BY <2>1, LoginAssumption DEF TypeOK, Handlers, Results
  <2>3. Row \in Rows
    BY <2>1, <2>2 DEF Row, Rows
  <2>4. server' \in Handlers
    BY <1>12 DEF TypeOK, insert_login_log, Handlers
  <2> QED
    BY <1>12, <2>3, <2>4 DEF TypeOK, insert_login_log
<1>13. ASSUME send_response PROVE TypeOK'
  <2>1. Response(server.result) \in Answers
    BY ResponseType DEF TypeOK, Handlers
  <2>2. http' \in [Clients -> Exchanges]
    BY <1>13, <2>1, ZenonT(30) DEF TypeOK, send_response, Exchanges
  <2> QED
    BY <1>13, <2>2, ConstantTypes DEF TypeOK, send_response
<1>14. ASSUME crash PROVE TypeOK'
  <2>1. http' \in [Clients -> Exchanges]
    BY <1>14 DEF TypeOK, crash, Exchanges
  <2> QED
    BY <1>14, <2>1, ConstantTypes DEF TypeOK, crash
<1>15. ASSUME change_account PROVE TypeOK'
  <2>1. accounts' \in Accounts
    BY <1>15 DEF TypeOK, change_account, Accounts
  <2>2. changes' \in 0 .. MaxChanges
    BY <1>15, LoginAssumption DEF TypeOK, change_account
  <2>3. valid' \in [Clients -> BOOLEAN]
    BY <1>15 DEF TypeOK, change_account, Right
  <2> QED
    BY <1>15, <2>1, <2>2, <2>3 DEF TypeOK, change_account
<1>16. CASE UNCHANGED vars
  BY <1>16 DEF TypeOK, vars
<1> QED
  BY <1>1, <1>2, <1>3, <1>4, <1>5, <1>6, <1>7, <1>8, <1>9, <1>10, <1>11, <1>12,
     <1>13, <1>14, <1>15, <1>16 DEF Next, LoginQuery, Finish
-----------------------------------------------------------------------------
(***************************************************************************)
(* Each part of the inductive invariant is kept.                           *)
(***************************************************************************)
\* At the start nothing was sent and no row is written.
LEMMA InitInv == Init => LoginInv /\ LoggedInAsSelf /\ RowsTell
<1> SUFFICES ASSUME Init PROVE LoginInv /\ LoggedInAsSelf /\ RowsTell
  OBVIOUS
<1>1. IdsInv
  BY DEF Init, IdsInv, LogRows, NoExchange, Idle
<1>2. DialogInv /\ ServerInv /\ AnswerInv
  BY DEF Init, DialogInv, ServerInv, AnswerInv, NoExchange, Idle
<1>3. LoggedInAsSelf
  BY DEF Init, LoggedInAsSelf
<1>4. RowsTell
  BY DEF Init, RowsTell, LogRows
<1> QED
  BY <1>1, <1>2, <1>3, <1>4 DEF LoginInv

\* A number is given once; the request sent again has one that no row has.
LEMMA IdsStep ==
    ASSUME TypeOK, IdsInv, [Next]_vars
    PROVE  IdsInv'
<1> USE DEF IdsInv, LogRows, TypeOK, Dialogs, Exchanges, Handlers, clientVars,
    logVars
<1>1. ASSUME NEW c \in Clients, Login(c) PROVE IdsInv'
  <2>1. sent \in Nat /\ sent' = sent + 1 /\ server' = server /\ LogRows' = LogRows
    BY <1>1 DEF Login
  <2>2. \A d \in Clients : dialog'[d].first <= sent'
    BY <1>1, <2>1 DEF Login
  <2>3. \A d \in Clients :
            \/ d = c /\ http'[d].state = "request" /\ http'[d].id = sent + 1
            \/ d # c /\ http'[d] = http[d]
    BY <1>1 DEF Login
  <2>4. \A d \in Clients : http[d].id \in Nat /\ http[d].id <= sent
    OBVIOUS
  <2>5. server.id \in Nat /\ \A r \in LogRows : r.id \in Nat
    BY LoginAssumption DEF Rows
  <2>6. \A d \in Clients : http'[d].state = "request" =>
            /\ \A r \in LogRows : r.id # http'[d].id
            /\ server.pc # "idle" => server.id # http'[d].id
    BY <2>1, <2>3, <2>5
  <2>7. \A d, e \in Clients :
            http'[d].state = "request" /\ http'[e].state = "request" /\ d # e
                => http'[d].id # http'[e].id
    BY <2>1, <2>3, <2>4
  <2>8. (\A d \in Clients : http'[d].id <= sent') /\ server.id <= sent'
    BY <2>1, <2>3, <2>4, <2>5
  <2> QED
    BY <2>1, <2>2, <2>5, <2>6, <2>7, <2>8
<1>2. ASSUME NEW c \in Clients, close_dialog(c) PROVE IdsInv'
  BY <1>2 DEF close_dialog, NoExchange
<1>3. ASSUME NEW c \in Clients, connection_lost(c) PROVE IdsInv'
  BY <1>3 DEF connection_lost
<1>4. ASSUME NEW c \in Clients, resend(c) PROVE IdsInv'
  BY <1>4 DEF resend
<1>5. ASSUME NEW c \in Clients, give_up(c) PROVE IdsInv'
  BY <1>5 DEF give_up, NoAnswer
<1>6. ASSUME NEW c \in Clients, onLoginFinished(c) PROVE IdsInv'
  BY <1>6 DEF onLoginFinished, NoExchange
<1>7. ASSUME NEW c \in Clients, on_read(c) PROVE IdsInv'
  BY <1>7 DEF on_read
<1>8. ASSUME find_credential_by_username PROVE IdsInv'
  BY <1>8 DEF find_credential_by_username
<1>9. ASSUME find_credential_throws PROVE IdsInv'
  BY <1>9 DEF find_credential_throws, Refused
<1>10. ASSUME load_user_info PROVE IdsInv'
  BY <1>10 DEF load_user_info
<1>11. ASSUME load_user_info_throws PROVE IdsInv'
  BY <1>11 DEF load_user_info_throws
<1>12. ASSUME insert_login_log PROVE IdsInv'
  <2>1. /\ LogRows' = LogRows \cup {Row} /\ Row.id = server.id
        /\ server.pc = "log" /\ server'.pc = "respond" /\ server'.id = server.id
    BY <1>12 DEF insert_login_log, Row
  <2> QED
    BY <1>12, <2>1 DEF insert_login_log
<1>13. ASSUME send_response PROVE IdsInv'
  BY <1>13 DEF send_response, Idle
<1>14. ASSUME crash PROVE IdsInv'
  BY <1>14 DEF crash, Idle
<1>15. ASSUME change_account PROVE IdsInv'
  BY <1>15 DEF change_account
<1>16. CASE UNCHANGED vars
  BY <1>16 DEF vars
<1> QED
  BY <1>1, <1>2, <1>3, <1>4, <1>5, <1>6, <1>7, <1>8, <1>9, <1>10, <1>11, <1>12,
     <1>13, <1>14, <1>15, <1>16 DEF Next, LoginQuery, Finish

\* What is typed stays so while its exchange lasts; valid follows the accounts.
LEMMA DialogStep ==
    ASSUME TypeOK, IdsInv, DialogInv, [Next]_vars
    PROVE  DialogInv'
<1> USE DEF DialogInv, IdsInv, TypeOK, Dialogs, Exchanges, Right, clientVars,
    logVars
<1>1. ASSUME NEW c \in Clients, Login(c) PROVE DialogInv'
  <2>1. PICK t \in Typed :
          /\ dialog' = [dialog EXCEPT ![c] =
                [state |-> "shown", inFlight |-> TRUE, first |-> sent + 1, typed |-> t]]
          /\ valid' = [valid EXCEPT ![c] = Right(accounts, t)]
    BY <1>1 DEF Login
  <2>2. http' = [http EXCEPT ![c] =
                    [state |-> "request", id |-> sent + 1, answer |-> NoAnswer]]
    BY <1>1 DEF Login
  <2>3. sent \in Nat /\ accounts' = accounts
    BY <1>1 DEF Login
  <2>4. /\ dialog'[c].state = "shown" /\ dialog'[c].first = sent + 1
        /\ dialog'[c].typed \in Typed
        /\ Right(accounts, dialog'[c].typed) => valid'[c]
        /\ http'[c].id = sent + 1
    BY <2>1, <2>2
  <2>5. \A d \in Clients \ {c} :
            dialog'[d] = dialog[d] /\ valid'[d] = valid[d] /\ http'[d] = http[d]
    BY <2>1, <2>2
  <2>6. \A d \in Clients : http'[d].state # "none" =>
            /\ dialog'[d].state = "shown"
            /\ dialog'[d].first > 0 /\ http'[d].id >= dialog'[d].first
    BY <2>3, <2>4, <2>5
  <2>7. \A d \in Clients : dialog'[d].first > 0 =>
            /\ dialog'[d].typed \in Typed
            /\ dialog'[d].state # "accepted" /\ Right(accounts, dialog'[d].typed)
                    => valid'[d]
    BY <2>4, <2>5
  <2> QED
    BY <2>3, <2>6, <2>7
<1>2. ASSUME NEW c \in Clients, close_dialog(c) PROVE DialogInv'
  BY <1>2, SMTT(20) DEF close_dialog, NoExchange
<1>3. ASSUME NEW c \in Clients, connection_lost(c) PROVE DialogInv'
  BY <1>3 DEF connection_lost
<1>4. ASSUME NEW c \in Clients, resend(c) PROVE DialogInv'
  BY <1>4 DEF resend
<1>5. ASSUME NEW c \in Clients, give_up(c) PROVE DialogInv'
  BY <1>5 DEF give_up, NoAnswer
<1>6. ASSUME NEW c \in Clients, onLoginFinished(c) PROVE DialogInv'
  <2>1. http'[c].state = "none" /\ UNCHANGED <<accounts, valid>>
    BY <1>6 DEF onLoginFinished, NoExchange
  <2>2. dialog'[c].first = dialog[c].first /\ dialog'[c].typed = dialog[c].typed
    BY <1>6 DEF onLoginFinished
  <2>3. dialog'[c].state # "accepted" => dialog'[c].state = dialog[c].state
    BY <1>6 DEF onLoginFinished
  <2>4. \A d \in Clients \ {c} : UNCHANGED <<dialog[d], http[d]>>
    BY <1>6 DEF onLoginFinished
  <2> QED
    BY <2>1, <2>2, <2>3, <2>4
<1>7. ASSUME NEW c \in Clients, on_read(c) PROVE DialogInv'
  BY <1>7 DEF on_read
<1>8. ASSUME find_credential_by_username PROVE DialogInv'
  BY <1>8 DEF find_credential_by_username
<1>9. ASSUME find_credential_throws PROVE DialogInv'
  BY <1>9 DEF find_credential_throws, Refused
<1>10. ASSUME load_user_info PROVE DialogInv'
  BY <1>10 DEF load_user_info
<1>11. ASSUME load_user_info_throws PROVE DialogInv'
  BY <1>11 DEF load_user_info_throws
<1>12. ASSUME insert_login_log PROVE DialogInv'
  BY <1>12 DEF insert_login_log, Row
<1>13. ASSUME send_response PROVE DialogInv'
  BY <1>13 DEF send_response, Idle
<1>14. ASSUME crash PROVE DialogInv'
  BY <1>14 DEF crash, Idle
<1>15. ASSUME change_account PROVE DialogInv'
  BY <1>15 DEF change_account
<1>16. CASE UNCHANGED vars
  BY <1>16 DEF vars
<1> QED
  BY <1>1, <1>2, <1>3, <1>4, <1>5, <1>6, <1>7, <1>8, <1>9, <1>10, <1>11, <1>12,
     <1>13, <1>14, <1>15, <1>16 DEF Next, LoginQuery, Finish

\* The handler reads what its client typed, and accepts only what is right at
\* that moment: then, or since the request was sent, it has been valid.
LEMMA ServerStep ==
    ASSUME TypeOK, LoginInv, LoggedInAsSelf, [Next]_vars
    PROVE  ServerInv'
<1> USE DEF LoginInv, IdsInv, DialogInv, ServerInv, LoggedInAsSelf, LogRows,
    Row, TypeOK, Dialogs, Exchanges, Handlers, Results, Right, clientVars,
    logVars
<1>1. ASSUME NEW c \in Clients, Login(c) PROVE ServerInv'
  BY <1>1 DEF Login, NoAnswer
<1>2. ASSUME NEW c \in Clients, close_dialog(c) PROVE ServerInv'
  BY <1>2 DEF close_dialog, NoExchange
<1>3. ASSUME NEW c \in Clients, connection_lost(c) PROVE ServerInv'
  BY <1>3 DEF connection_lost
<1>4. ASSUME NEW c \in Clients, resend(c) PROVE ServerInv'
  BY <1>4 DEF resend
<1>5. ASSUME NEW c \in Clients, give_up(c) PROVE ServerInv'
  BY <1>5 DEF give_up, NoAnswer
<1>6. ASSUME NEW c \in Clients, onLoginFinished(c) PROVE ServerInv'
  BY <1>6 DEF onLoginFinished, NoExchange
<1>7. ASSUME NEW c \in Clients, on_read(c) PROVE ServerInv'
  <2>1. /\ server' = [pc |-> "find", client |-> c, id |-> http[c].id,
                      typed |-> dialog[c].typed, result |-> NoResult]
        /\ dialog' = dialog /\ http[c].state # "none"
    BY <1>7 DEF on_read
  <2>2. dialog[c].typed \in Typed /\ http[c].id > 0 /\ dialog[c].first > 0
    BY <2>1
  <2> QED
    BY <2>1, <2>2 DEF NoResult
<1>8. ASSUME find_credential_by_username PROVE ServerInv'
  <2> DEFINE u == server.typed.user
             j == Judged(accounts[u], server.typed.password)
  <2>1. /\ server' = [server EXCEPT !.pc = j.pc, !.result = j.result]
        /\ server.pc = "find" /\ UNCHANGED <<accounts, dialog, valid, logs, lostLogs>>
    BY <1>8 DEF find_credential_by_username
  <2>2. server.client \in Clients /\ server.typed \in Typed /\ u \in Users
    BY <2>1, LoginAssumption
  <2>3. accounts[u].status \in Statuses
    BY <2>2 DEF Accounts
  <2>4. \/ j.pc \in {"log", "respond"} /\ ~j.result.success
        \/ /\ j.pc = "profile" /\ j.result.success /\ j.result.code = 0
           /\ Right(accounts, server.typed)
    BY <2>3 DEF Judged, Refused, Statuses
  <2>5. server.id >= dialog[server.client].first /\ Right(accounts, server.typed)
            => valid[server.client]
    BY <2>1, <2>2
  <2> HIDE DEF u, j
  <2> QED
    BY <2>1, <2>2, <2>4, <2>5
<1>9. ASSUME find_credential_throws PROVE ServerInv'
  BY <1>9 DEF find_credential_throws, Refused
<1>10. ASSUME load_user_info PROVE ServerInv'
  BY <1>10 DEF load_user_info
<1>11. ASSUME load_user_info_throws PROVE ServerInv'
  BY <1>11 DEF load_user_info_throws
<1>12. ASSUME insert_login_log PROVE ServerInv'
  BY <1>12 DEF insert_login_log
<1>13. ASSUME send_response PROVE ServerInv'
  BY <1>13 DEF send_response, Idle
<1>14. ASSUME crash PROVE ServerInv'
  BY <1>14 DEF crash, Idle
<1>15. ASSUME change_account PROVE ServerInv'
  BY <1>15 DEF change_account
<1>16. CASE UNCHANGED vars
  BY <1>16 DEF vars
<1> QED
  BY <1>1, <1>2, <1>3, <1>4, <1>5, <1>6, <1>7, <1>8, <1>9, <1>10, <1>11, <1>12,
     <1>13, <1>14, <1>15, <1>16, ZenonT(30) DEF Next, LoginQuery, Finish

\* An answer that succeeds comes from the handler of the last request sent:
\* answers to the ones before go to connections that are gone.
LEMMA AnswerStep ==
    ASSUME TypeOK, LoginInv, [Next]_vars
    PROVE  AnswerInv'
<1> USE DEF LoginInv, IdsInv, DialogInv, ServerInv, AnswerInv, LogRows,
    Success, TypeOK, Dialogs, Exchanges, Handlers, clientVars, logVars
<1>1. ASSUME NEW c \in Clients, Login(c) PROVE AnswerInv'
  BY <1>1 DEF Login, NoAnswer
<1>2. ASSUME NEW c \in Clients, close_dialog(c) PROVE AnswerInv'
  <2>1. /\ http' = [http EXCEPT ![c] = NoExchange] /\ NoExchange.state = "none"
        /\ UNCHANGED <<valid, logs, lostLogs>>
    BY <1>2 DEF close_dialog, NoExchange
  <2>2. \A d \in Clients \ {c} : dialog'[d] = dialog[d]
    BY <1>2 DEF close_dialog
  <2> QED
    BY <2>1, <2>2
<1>3. ASSUME NEW c \in Clients, connection_lost(c) PROVE AnswerInv'
  BY <1>3 DEF connection_lost
<1>4. ASSUME NEW c \in Clients, resend(c) PROVE AnswerInv'
  BY <1>4 DEF resend
<1>5. ASSUME NEW c \in Clients, give_up(c) PROVE AnswerInv'
  BY <1>5 DEF give_up, NoAnswer
<1>6. ASSUME NEW c \in Clients, onLoginFinished(c) PROVE AnswerInv'
  BY <1>6 DEF onLoginFinished, NoExchange
<1>7. ASSUME NEW c \in Clients, on_read(c) PROVE AnswerInv'
  BY <1>7 DEF on_read
<1>8. ASSUME find_credential_by_username PROVE AnswerInv'
  BY <1>8 DEF find_credential_by_username
<1>9. ASSUME find_credential_throws PROVE AnswerInv'
  BY <1>9 DEF find_credential_throws, Refused
<1>10. ASSUME load_user_info PROVE AnswerInv'
  BY <1>10 DEF load_user_info
<1>11. ASSUME load_user_info_throws PROVE AnswerInv'
  BY <1>11 DEF load_user_info_throws
<1>12. ASSUME insert_login_log PROVE AnswerInv'
  BY <1>12 DEF insert_login_log
<1>13. ASSUME send_response PROVE AnswerInv'
  <2> DEFINE c == server.client
  <2>1. /\ UNCHANGED <<dialog, valid, logs, lostLogs>>
        /\ server.pc = "respond" /\ c \in Clients
    BY <1>13 DEF send_response
  <2>2. CASE http[c].state = "serving" /\ http[c].id = server.id
    <3>1. http' = [http EXCEPT ![c].state = "answered",
                               ![c].answer = Response(server.result)]
      BY <1>13, <2>2 DEF send_response
    <3>2. SUFFICES ASSUME Success(Response(server.result))
                   PROVE  /\ server.result.user = dialog[c].typed.user
                          /\ valid[c]
                          /\ \E r \in LogRows :
                                /\ r.client = c /\ r.id >= dialog[c].first
                                /\ r.user = dialog[c].typed.user /\ r.ok
      BY <2>1, <3>1 DEF Response
    <3>3. server.result.success /\ server.result.code = 0
      BY <3>2 DEF Response
    <3>4. server.id >= dialog[c].first
      BY <2>1, <2>2
    <3>5. /\ server.typed = dialog[c].typed /\ valid[c]
          /\ server.result.user = server.typed.user /\ Row \in LogRows
      BY <2>1, <3>3, <3>4
    <3> QED
      BY <3>3, <3>4, <3>5 DEF Row
  <2>3. CASE ~(http[c].state = "serving" /\ http[c].id = server.id)
    BY <1>13, <2>1, <2>3 DEF send_response
  <2> QED
    BY <2>2, <2>3
<1>14. ASSUME crash PROVE AnswerInv'
  BY <1>14 DEF crash, Idle
<1>15. ASSUME change_account PROVE AnswerInv'
  BY <1>15 DEF change_account
<1>16. CASE UNCHANGED vars
  BY <1>16 DEF vars
<1> QED
  BY <1>1, <1>2, <1>3, <1>4, <1>5, <1>6, <1>7, <1>8, <1>9, <1>10, <1>11, <1>12,
     <1>13, <1>14, <1>15, <1>16 DEF Next, LoginQuery, Finish

\* A client is logged in by an answer that succeeds, and by nothing else.
LEMMA LoggedStep ==
    ASSUME TypeOK, LoginInv, LoggedInAsSelf, [Next]_vars
    PROVE  LoggedInAsSelf'
<1> USE DEF LoginInv, DialogInv, AnswerInv, LoggedInAsSelf, TypeOK, Dialogs,
    Exchanges, NotTyped, clientVars, logVars
<1>1. ASSUME NEW c \in Clients, Login(c) PROVE LoggedInAsSelf'
  BY <1>1 DEF Login, NoAnswer
<1>2. ASSUME NEW c \in Clients, close_dialog(c) PROVE LoggedInAsSelf'
  BY <1>2 DEF close_dialog, NoExchange
<1>3. ASSUME NEW c \in Clients, connection_lost(c) PROVE LoggedInAsSelf'
  BY <1>3 DEF connection_lost
<1>4. ASSUME NEW c \in Clients, resend(c) PROVE LoggedInAsSelf'
  BY <1>4 DEF resend
<1>5. ASSUME NEW c \in Clients, give_up(c) PROVE LoggedInAsSelf'
  BY <1>5 DEF give_up, NoAnswer
<1>6. ASSUME NEW c \in Clients, onLoginFinished(c) PROVE LoggedInAsSelf'
  BY <1>6 DEF onLoginFinished, NoExchange
<1>7. ASSUME NEW c \in Clients, on_read(c) PROVE LoggedInAsSelf'
  BY <1>7 DEF on_read
<1>8. ASSUME find_credential_by_username PROVE LoggedInAsSelf'
  BY <1>8 DEF find_credential_by_username
<1>9. ASSUME find_credential_throws PROVE LoggedInAsSelf'
  BY <1>9 DEF find_credential_throws, Refused
<1>10. ASSUME load_user_info PROVE LoggedInAsSelf'
  BY <1>10 DEF load_user_info
<1>11. ASSUME load_user_info_throws PROVE LoggedInAsSelf'
  BY <1>11 DEF load_user_info_throws
<1>12. ASSUME insert_login_log PROVE LoggedInAsSelf'
  BY <1>12 DEF insert_login_log, Row
<1>13. ASSUME send_response PROVE LoggedInAsSelf'
  BY <1>13 DEF send_response, Idle
<1>14. ASSUME crash PROVE LoggedInAsSelf'
  BY <1>14 DEF crash, Idle
<1>15. ASSUME change_account PROVE LoggedInAsSelf'
  BY <1>15 DEF change_account
<1>16. CASE UNCHANGED vars
  BY <1>16 DEF vars
<1> QED
  BY <1>1, <1>2, <1>3, <1>4, <1>5, <1>6, <1>7, <1>8, <1>9, <1>10, <1>11, <1>12,
     <1>13, <1>14, <1>15, <1>16 DEF Next, LoginQuery, Finish

\* A row is added once, and one of success for what was right.
LEMMA AuditStep ==
    ASSUME TypeOK, LoginInv, LoggedInAsSelf, RowsTell, [Next]_vars
    PROVE  RowsTell'
<1> USE DEF RowsTell, LogRows, LoginInv, IdsInv, ServerInv, DialogInv,
    AnswerInv, TypeOK, Dialogs, Rows, clientVars, logVars
<1>1. ASSUME NEW c \in Clients, Login(c) PROVE RowsTell'
  BY <1>1 DEF Login, NoAnswer
<1>2. ASSUME NEW c \in Clients, close_dialog(c) PROVE RowsTell'
  BY <1>2 DEF close_dialog, NoExchange
<1>3. ASSUME NEW c \in Clients, connection_lost(c) PROVE RowsTell'
  BY <1>3 DEF connection_lost
<1>4. ASSUME NEW c \in Clients, resend(c) PROVE RowsTell'
  BY <1>4 DEF resend
<1>5. ASSUME NEW c \in Clients, give_up(c) PROVE RowsTell'
  BY <1>5 DEF give_up, NoAnswer
<1>6. ASSUME NEW c \in Clients, onLoginFinished(c) PROVE RowsTell'
  <2>1. /\ UNCHANGED <<valid, logs, lostLogs>>
        /\ \A d \in Clients : dialog'[d].first = dialog[d].first
    BY <1>6 DEF onLoginFinished
  <2>2. \A d \in Clients \ {c} : dialog'[d] = dialog[d] /\ session'[d] = session[d]
    BY <1>6 DEF onLoginFinished
  <2>3. CASE Success(http[c].answer)
    <3>1. session'[c] = http[c].answer.data
      BY <1>6, <2>3 DEF onLoginFinished
    <3>2. \E r \in LogRows : /\ r.client = c /\ r.id >= dialog[c].first
                             /\ r.user = session'[c] /\ r.ok
      BY <1>6, <2>3, <3>1 DEF onLoginFinished
    <3> QED
      BY <2>1, <2>2, <3>2
  <2>4. CASE ~Success(http[c].answer)
    <3>1. dialog'[c].state = dialog[c].state /\ session'[c] = session[c]
      BY <1>6, <2>4 DEF onLoginFinished
    <3> QED
      BY <2>1, <2>2, <3>1
  <2> QED
    BY <2>3, <2>4
<1>7. ASSUME NEW c \in Clients, on_read(c) PROVE RowsTell'
  BY <1>7 DEF on_read
<1>8. ASSUME find_credential_by_username PROVE RowsTell'
  BY <1>8 DEF find_credential_by_username
<1>9. ASSUME find_credential_throws PROVE RowsTell'
  BY <1>9 DEF find_credential_throws, Refused
<1>10. ASSUME load_user_info PROVE RowsTell'
  BY <1>10 DEF load_user_info
<1>11. ASSUME load_user_info_throws PROVE RowsTell'
  BY <1>11 DEF load_user_info_throws
<1>12. ASSUME insert_login_log PROVE RowsTell'
  <2>1. /\ server.pc = "log" /\ UNCHANGED <<dialog, session, valid>>
        /\ \/ logs' = logs \cup {Row} /\ lostLogs' = lostLogs
           \/ lostLogs' = lostLogs \cup {Row} /\ logs' = logs
    BY <1>12 DEF insert_login_log
  <2>2. LogRows' = LogRows \cup {Row} /\ \A r \in LogRows : r.id # Row.id
    BY <2>1 DEF Row
  <2>3. Row.ok /\ Row.id >= dialog[Row.client].first => valid[Row.client]
    BY <2>1 DEF Row
  <2>4. logs' \cap lostLogs' = {}
    BY <2>1, <2>2
  <2>5. \A r, s \in LogRows' : r.id = s.id => r = s
    BY <2>2
  <2> QED
    BY <2>1, <2>2, <2>3, <2>4, <2>5
<1>13. ASSUME send_response PROVE RowsTell'
  BY <1>13 DEF send_response, Idle
<1>14. ASSUME crash PROVE RowsTell'
  BY <1>14 DEF crash, Idle
<1>15. ASSUME change_account PROVE RowsTell'
  BY <1>15 DEF change_account
<1>16. CASE UNCHANGED vars
  BY <1>16 DEF vars
<1> QED
  BY <1>1, <1>2, <1>3, <1>4, <1>5, <1>6, <1>7, <1>8, <1>9, <1>10, <1>11, <1>12,
     <1>13, <1>14, <1>15, <1>16 DEF Next, LoginQuery, Finish
-----------------------------------------------------------------------------
(***************************************************************************)
(* The theorems.                                                           *)
(***************************************************************************)
\* Types, invariant and both properties are inductive together: what the
\* handler finds needs that an accepted dialog has been valid.
LEMMA Inductive ==
    Spec => [](TypeOK /\ LoginInv /\ LoggedInAsSelf /\ RowsTell)
<1>1. Init => TypeOK /\ LoginInv /\ LoggedInAsSelf /\ RowsTell
  BY InitType, InitInv
<1>2. TypeOK /\ LoginInv /\ LoggedInAsSelf /\ RowsTell /\ [Next]_vars
        => (TypeOK /\ LoginInv /\ LoggedInAsSelf /\ RowsTell)'
  <2> SUFFICES ASSUME TypeOK, LoginInv, LoggedInAsSelf, RowsTell, [Next]_vars
               PROVE  (TypeOK /\ LoginInv /\ LoggedInAsSelf /\ RowsTell)'
    OBVIOUS
  <2>1. TypeOK'
    BY TypeStep DEF LoginInv
  <2>2. IdsInv' /\ DialogInv' /\ ServerInv' /\ AnswerInv'
    BY IdsStep, DialogStep, ServerStep, AnswerStep DEF LoginInv
  <2>3. LoggedInAsSelf' /\ RowsTell'
    BY LoggedStep, AuditStep
  <2> QED
    BY <2>1, <2>2, <2>3 DEF LoginInv
<1> QED
  BY <1>1, <1>2, PTL DEF Spec

\* Nobody logs in as somebody else, as nobody, or with a name and a password
\* that were not right at some moment since they were sent to the server.
THEOREM LoginIsOwn == Spec => []LoggedInAsSelf
BY Inductive, PTL

\* The login log has one row at most for a request, a row for whoever got in,
\* and none of success for an attempt that was never right.
THEOREM LogTellsTruth == Spec => []AuditTrail
<1>1. TypeOK /\ RowsTell => AuditTrail
  BY DEF AuditTrail, RowsTell, LogRows
<1> QED
  BY <1>1, Inductive, PTL
=============================================================================
