---------------------------- MODULE TenantTokens ----------------------------
(***************************************************************************)
(* The delegated sign-in of one tenant: the token service's requests       *)
(* (token-api-server.ts, lib/tenant-auth.ts), the row they share           *)
(* (lib/token-store.ts and its backends), the portal's page that starts a  *)
(* device code and polls it, and Entra ID.  The service is one process but *)
(* every fetch and every store call is awaited, so requests interleave     *)
(* there.  The Key Vault backend reads the secret, merges and writes it     *)
(* back in two calls; SQLite and MSSQL change the row in one statement,    *)
(* which are the behaviours in which nothing comes between the two.        *)
(*                                                                         *)
(* A code is the sign-in it leads to.  Tokens are serial numbers in the    *)
(* order in which Entra ID issued them.                                    *)
(***************************************************************************)
EXTENDS Naturals, Sequences, FiniteSets

CONSTANTS
  Requests,    \* slots for requests under way
  MaxCodes,    \* bound: device codes
  MaxTokens,   \* bound: pairs of tokens issued
  MaxFaults    \* bound: faults, one of a kind

ASSUME TokensAssumption == MaxCodes \in Nat /\ MaxTokens \in Nat /\ MaxFaults \in Nat

Codes   == 1 .. MaxCodes
Tokens  == 1 .. MaxTokens
None    == 0
Unknown == MaxCodes + 1    \* in "newest", once a stale write was made
Faults  == {"store", "restart", "timeout", "answer"}

VARIABLES
  row,       \* the tenant's row
  req,       \* req[r]: a request under way
  page,      \* what the page with the Connect button shows
  code,      \* code[c]: what Entra ID knows of a device code
  signIn,    \* signIn[s]: the sign-in that pair of tokens descends from
  due,       \* tokens with less than ten minutes to go
  newest,    \* history: the last sign-in saved since the last disconnect,
             \* or Unknown after a write over what its request had not seen
  void,      \* history: sign-ins that a disconnect has ended
  saved,     \* history: sign-ins whose tokens were saved
  faults     \* what has failed so far

entra   == <<code, signIn, due>>
history == <<newest, void, saved>>
vars    == <<row, req, page, entra, history, faults>>

Row     == [access : Tokens \cup {None}, refresh : Tokens \cup {None},
            expires : Tokens \cup {None}, code : Codes \cup {None}]
NoRow   == [access |-> None, refresh |-> None, expires |-> None, code |-> None]
Request == [kind : {"idle", "start", "poll", "graph", "mde"},
            at : {"idle", "read", "entra", "save", "saveWrite", "clear", "clearWrite"},
            seen : Row,          \* the tokens as read by the request
            payload : Row,       \* the secret as read by the vault backend
            code : Codes \cup {None}, tokens : Row,
            answers : BOOLEAN,   \* is the portal still waiting?
            result : {"failed", "success"}]
Idle    == [kind |-> "idle", at |-> "idle", seen |-> NoRow, payload |-> NoRow,
            code |-> None, tokens |-> NoRow, answers |-> FALSE, result |-> "failed"]

\* "right", "wrong": somebody signed in, to the tenant's directory or another;
\* "used": a right one was redeemed; "expired" also stands for declined and for
\* a wrong one that was redeemed.
CodeState == {"unknown", "pending", "right", "wrong", "used", "expired"}

TypeOK ==
  /\ row \in Row
  /\ req \in [Requests -> Request]
  /\ page \in {"idle", "starting", "polling"}
  /\ code \in [Codes -> CodeState]
  /\ signIn \in Seq(Codes) /\ Len(signIn) <= MaxTokens
  /\ due \subseteq Tokens
  /\ newest \in Codes \cup {None, Unknown}
  /\ void \subseteq Codes /\ saved \subseteq Codes
  /\ faults \subseteq Faults /\ Cardinality(faults) <= MaxFaults

Init ==
  /\ row = NoRow
  /\ req = [r \in Requests |-> Idle]
  /\ page = "idle"
  /\ code = [c \in Codes |-> "unknown"]
  /\ signIn = <<>> /\ due = {}
  /\ newest = None /\ void = {} /\ saved = {}
  /\ faults = {}

SignInOf(s) == IF s = None THEN None ELSE signIn[s]

Fault(kind) ==
  /\ kind \notin faults /\ Cardinality(faults) < MaxFaults
  /\ faults' = faults \cup {kind}

-----------------------------------------------------------------------------
(* Requests. *)

Begin(r, kind, at, answers) ==
  /\ req[r].at = "idle"
  /\ req' = [req EXCEPT ![r] = [Idle EXCEPT !.kind = kind, !.at = at, !.answers = answers]]

\* The request ends.  If the portal still waits, the page sees the answer: a code
\* makes it poll, and whatever settles a poll stops the polling, whichever attempt
\* the poll belonged to (the timers are the page's).
End(r, result) ==
  /\ req' = [req EXCEPT ![r] = Idle]
  /\ page' = IF ~req[r].answers \/ result = "pending" THEN page
             ELSE IF req[r].kind = "start" THEN IF result = "success" THEN "polling" ELSE "idle"
             ELSE IF page = "starting" THEN page ELSE "idle"

\* The next pair of tokens is issued, for sign-in c.
Issue(c) == Len(signIn) < MaxTokens /\ signIn' = Append(signIn, c)
Issued   == Len(signIn) + 1

-----------------------------------------------------------------------------
(* The store. *)

\* Mutant: INSERT OR REPLACE, the row is written whole.
CodeReplacesRow(r, stored) ==
  CASE req[r].kind = "start" -> [NoRow EXCEPT !.code = req[r].code]
    [] req[r].at = "clearWrite" -> [stored EXCEPT !.code = None]
    [] OTHER -> [req[r].tokens EXCEPT !.code = stored.code]

\* Mutant: only what is not empty in the request's tokens is updated, and the
\* Defender request does not carry the access token along.
RefreshAlone(r, stored) ==
  CASE req[r].kind = "start" -> [stored EXCEPT !.code = req[r].code]
    [] req[r].at = "clearWrite" -> [stored EXCEPT !.code = None]
    [] req[r].kind = "mde" -> [stored EXCEPT !.refresh = req[r].tokens.refresh]
    [] OTHER -> [req[r].tokens EXCEPT !.code = stored.code]

\* What the request's store call makes of the row: saveTenantTokens leaves the
\* pending code alone, savePendingDeviceCode the tokens.
Merged(r, stored) ==
  CASE req[r].kind = "start" -> [stored EXCEPT !.code = req[r].code]
    [] req[r].at = "clearWrite" -> [stored EXCEPT !.code = None]
    [] OTHER -> [req[r].tokens EXCEPT !.code = stored.code]

\* Does the write put back what its request has not seen changed?
Stale(r) ==
  \/ row # req[r].payload
  \/ req[r].kind = "poll" /\ row.code \notin {req[r].code, None}
  \/ req[r].kind = "poll" /\ req[r].at = "saveWrite" /\ row.code = None
  \/ /\ req[r].kind \in {"graph", "mde"}
     /\ <<row.access, row.refresh>> # <<req[r].seen.access, req[r].seen.refresh>>

ReadSecret(r) ==
  /\ req[r].at \in {"save", "clear"}
  /\ req' = [req EXCEPT ![r].payload = row,
                        ![r].at = IF @ = "save" THEN "saveWrite" ELSE "clearWrite"]
  /\ UNCHANGED <<row, page, entra, history, faults>>

\* The write and what follows it: a poll clears its code next, every other
\* request is done.
WriteSecret(r) ==
  /\ req[r].at \in {"saveWrite", "clearWrite"}
  /\ row' = Merged(r, req[r].payload)
  /\ newest' = IF Stale(r) \/ newest = Unknown THEN Unknown
               ELSE IF req[r].at = "saveWrite" /\ req[r].kind = "poll" THEN req[r].code
               ELSE newest
  /\ IF req[r].at = "saveWrite" /\ req[r].kind = "poll"
       THEN /\ saved' = saved \cup {req[r].code}
            /\ req' = [req EXCEPT ![r].at = "clear", ![r].payload = NoRow, ![r].tokens = NoRow]
            /\ UNCHANGED page
       ELSE /\ UNCHANGED saved
            /\ End(r, req[r].result)
  /\ UNCHANGED <<entra, void, faults>>

\* A store call fails; a refresh whose look-up of the MSP failed is saved under
\* another key ("unknown-..."), which for the row comes to the same.
StoreFails(r) ==
  /\ req[r].at \in {"save", "clear", "saveWrite", "clearWrite"}
  /\ Fault("store")
  /\ End(r, "failed")
  /\ UNCHANGED <<row, entra, history>>

-----------------------------------------------------------------------------
(* Connecting: the page, device-start and device-poll. *)

StartConnect(r) ==
  /\ page = "idle"
  /\ Begin(r, "start", "entra", TRUE)
  /\ page' = "starting"
  /\ UNCHANGED <<row, entra, history, faults>>

\* startDeviceCodeFlow: Entra ID issues a code, or refuses.
DeviceCode(r) ==
  /\ req[r].kind = "start" /\ req[r].at = "entra"
  /\ \/ \E c \in Codes :
          /\ code[c] = "unknown" /\ \A d \in Codes : d < c => code[d] # "unknown"
          /\ code' = [code EXCEPT ![c] = "pending"]
          /\ req' = [req EXCEPT ![r].code = c, ![r].at = "save", ![r].result = "success"]
          /\ UNCHANGED page
     \/ End(r, "failed") /\ UNCHANGED code
  /\ UNCHANGED <<row, signIn, due, history, faults>>

\* The timer does not wait for the answer to the last poll.
PollTick(r) ==
  /\ page = "polling"
  /\ Begin(r, "poll", "read", TRUE)
  /\ UNCHANGED <<row, page, entra, history, faults>>

\* pollDeviceCodeFlow up to its request; without a pending code it throws.
ReadCode(r) ==
  /\ req[r].kind = "poll" /\ req[r].at = "read"
  /\ IF row.code = None
       THEN End(r, "failed")
       ELSE /\ req' = [req EXCEPT ![r].code = row.code, ![r].at = "entra"]
            /\ UNCHANGED page
  /\ UNCHANGED <<row, entra, history, faults>>

\* Entra ID's answer to a poll: still pending; declined, expired, used before or
\* any other error, of the request too; or tokens, to be saved if they are for the
\* tenant's directory.
Redeem(r) ==
  /\ req[r].kind = "poll" /\ req[r].at = "entra"
  /\ LET c == req[r].code IN
     \/ /\ code[c] = "pending"
        /\ End(r, "pending") /\ UNCHANGED <<code, signIn>>
     \/ End(r, "failed") /\ UNCHANGED <<code, signIn>>
     \/ /\ code[c] = "wrong"
        /\ code' = [code EXCEPT ![c] = "expired"]
        /\ req' = [req EXCEPT ![r].at = "clear"]
        /\ UNCHANGED <<signIn, page>>
     \/ /\ code[c] = "right" /\ Issue(c)
        /\ code' = [code EXCEPT ![c] = "used"]
        /\ req' = [req EXCEPT ![r].at = "save", ![r].result = "success",
                     ![r].tokens = [access |-> Issued, refresh |-> Issued,
                                    expires |-> Issued, code |-> None]]
        /\ UNCHANGED page
  /\ UNCHANGED <<row, due, history, faults>>

\* Entra ID redeems the code, but its answer does not reach the service: no answer
\* in 30 s, a lost connection or a body that cannot be read.
AnswerLost(r) ==
  /\ req[r].kind = "poll" /\ req[r].at = "entra"
  /\ code[req[r].code] = "right"
  /\ Fault("answer")
  /\ code' = [code EXCEPT ![req[r].code] = "used"]
  /\ End(r, "failed")
  /\ UNCHANGED <<row, signIn, due, history>>

\* The operator cancels, or the countdown is over.
StopPolling ==
  /\ page = "polling"
  /\ page' = "idle"
  /\ UNCHANGED <<row, req, entra, history, faults>>

\* Mutant: the service gives up, too, when the portal closes the connection.
GiveUpTogether(r) ==
  /\ req[r].answers
  /\ Fault("timeout")
  /\ End(r, "failed")
  /\ UNCHANGED <<row, entra, history>>

\* The portal's own time limit (10 s, 8 s) is shorter than that of the service
\* (30 s): the page gets an error and the request goes on.
PortalGivesUp(r) ==
  /\ req[r].answers
  /\ Fault("timeout")
  /\ req' = [req EXCEPT ![r].answers = FALSE]
  /\ page' = IF req[r].kind = "poll" /\ page = "starting" THEN page ELSE "idle"
  /\ UNCHANGED <<row, entra, history>>

-----------------------------------------------------------------------------
(* Pipelines asking for tokens, and disconnecting. *)

\* getOrRefreshTenantToken (graph) and getMdeTenantToken (mde) begin alike; a
\* Graph token that is good for ten minutes is handed out at once.
AskToken(r, kind) ==
  /\ kind \in {"graph", "mde"}
  /\ row.access # None
  /\ kind = "graph" => row.expires \in due
  /\ req[r].at = "idle"
  /\ req' = [req EXCEPT ![r] = [Idle EXCEPT !.kind = kind, !.at = "entra",
                                    !.seen = [row EXCEPT !.code = None]]]
  /\ UNCHANGED <<row, page, entra, history, faults>>

\* The request that is to save these tokens when Entra ID has answered.
Saving(r, tokens) ==
  /\ Issue(SignInOf(req[r].seen.refresh))
  /\ req' = [req EXCEPT ![r].at = "save", ![r].result = "success", ![r].tokens = tokens]
  /\ UNCHANGED page

\* Entra ID refuses, or answers with tokens, the refresh token new or not.
RefreshGraph(r) ==
  /\ req[r].kind = "graph" /\ req[r].at = "entra"
  /\ \/ End(r, "failed") /\ UNCHANGED signIn
     \/ \E refresh \in {Issued, req[r].seen.refresh} :
          Saving(r, [access |-> Issued, refresh |-> refresh, expires |-> Issued, code |-> None])
  /\ UNCHANGED <<row, code, due, history, faults>>

\* The Defender request saves the refresh token if it is new, together with what
\* it has read of the rest.
RefreshMde(r) ==
  /\ req[r].kind = "mde" /\ req[r].at = "entra"
  /\ \/ End(r, "failed") /\ UNCHANGED signIn
     \/ Saving(r, [req[r].seen EXCEPT !.refresh = Issued])
  /\ UNCHANGED <<row, code, due, history, faults>>

\* Mutant: the disconnect clears the tokens but not the pending code.
DisconnectTokens ==
  /\ row # NoRow
  /\ row' = [NoRow EXCEPT !.code = row.code]
  /\ page' \in {page} \cup (IF page = "starting" THEN {} ELSE {"idle"})
  /\ newest' = None
  /\ void' = void \cup ({row.code, SignInOf(row.access)} \ {None})
  /\ UNCHANGED <<req, entra, saved, faults>>

\* DELETE /tenant-auth/disconnect, from this page or another.  That the vault does
\* not delete the secret is only told to the portal's route, which ignores it.
Disconnect ==
  /\ row # NoRow
  /\ page' \in {page} \cup (IF page = "starting" THEN {} ELSE {"idle"})
  /\ \/ /\ row' = NoRow /\ newest' = None
        /\ void' = void \cup ({row.code, SignInOf(row.access)} \ {None})
        /\ UNCHANGED faults
     \/ Fault("store") /\ UNCHANGED <<row, newest, void>>
  /\ UNCHANGED <<req, entra, saved>>

\* The token service restarts: its requests are gone.
Restart ==
  /\ Fault("restart")
  /\ req' = [r \in Requests |-> Idle]
  /\ page' = IF \E r \in Requests : req[r].answers THEN "idle" ELSE page
  /\ UNCHANGED <<row, entra, history>>

-----------------------------------------------------------------------------
(* Entra ID and time. *)

\* Somebody enters the code, with an account of this directory or another.
SignIn(c) ==
  /\ code[c] = "pending"
  /\ \E state \in {"right", "wrong"} : code' = [code EXCEPT ![c] = state]
  /\ UNCHANGED <<row, req, page, signIn, due, history, faults>>

CodeExpires(c) ==
  /\ code[c] \in {"pending", "right"}
  /\ code' = [code EXCEPT ![c] = "expired"]
  /\ UNCHANGED <<row, req, page, signIn, due, history, faults>>

\* Only the age of the token in the row is ever looked at.
TokenAges(s) ==
  /\ s = row.expires /\ s \notin due
  /\ due' = due \cup {s}
  /\ UNCHANGED <<row, req, page, code, signIn, history, faults>>

-----------------------------------------------------------------------------
RequestStep(r) ==
  \/ StartConnect(r) \/ DeviceCode(r) \/ PollTick(r) \/ ReadCode(r) \/ Redeem(r) \/ AnswerLost(r)
  \/ \E kind \in {"graph", "mde"} : AskToken(r, kind)
  \/ RefreshGraph(r) \/ RefreshMde(r) \/ ReadSecret(r) \/ WriteSecret(r) \/ StoreFails(r) \/ PortalGivesUp(r)

Next ==
  \/ \E r \in Requests : RequestStep(r)
  \/ StopPolling \/ Disconnect \/ Restart
  \/ \E c \in Codes : SignIn(c) \/ CodeExpires(c)
  \/ \E s \in Tokens : TokenAges(s)

Spec == Init /\ [][Next]_vars

-----------------------------------------------------------------------------
(* Properties. *)

\* Whatever requests interleave, with either kind of backend, the row's access
\* and refresh token come from one sign-in, made to the tenant's own directory,
\* and the expiry that decides on refreshing is that of the access token.
RowOfOneSignIn ==
  row.access # None =>
    /\ SignInOf(row.access) = SignInOf(row.refresh)
    /\ code[SignInOf(row.access)] = "used"
    /\ row.expires = row.access

\* The row holds the sign-in saved last, or nothing after a disconnect: only a
\* request that writes over what it has not read takes it back to an older one.
NewestKept == newest # Unknown => SignInOf(row.access) = newest

\* A disconnect that deletes the row ends the sign-in and the code that was
\* pending, too: they come back only through a request under way at the time.
DisconnectHolds == newest # Unknown => SignInOf(row.access) \notin void

\* A code can be redeemed once.  When Entra ID has done so its tokens are saved or
\* about to be, even if the portal has given up on the poll, the page has stopped,
\* other polls have failed or the tenant was disconnected: only an answer that does
\* not reach the service, a failing store or a restart loses them.
RedeemedIsKept ==
  \A c \in Codes : code[c] = "used" =>
    \/ c \in saved
    \/ \E r \in Requests : req[r].kind = "poll" /\ req[r].code = c
                          /\ req[r].at \in {"save", "saveWrite"}
    \/ faults \cap {"answer", "store", "restart"} # {}
=============================================================================
