------------------------- MODULE TenantTokensProofs -------------------------
(* Any number of requests, codes and pairs of tokens: what TenantTokens says of *)
(* the tenant's row.                                                            *)
EXTENDS TenantTokens, FiniteSetTheorems, TLAPS

\* A row or a request's tokens, given the pairs issued and the codes: nothing, or
\* a pair of one sign-in whose code was redeemed, with its own expiry.
Whole(x, issued, codes) ==
  IF x.access = None
  THEN x.refresh = None /\ x.expires = None
  ELSE /\ x.access \in 1 .. Len(issued) /\ x.refresh \in 1 .. Len(issued)
       /\ issued[x.access] = issued[x.refresh]
       /\ codes[issued[x.access]] = "used"
       /\ x.expires = x.access

Writing(q) == q.at \in {"save", "saveWrite"}

\* What a request carries from one await to the next.
Carried(q, issued, codes) ==
  /\ q.at \in {"saveWrite", "clearWrite"} => Whole(q.payload, issued, codes)
  /\ q.at \in {"clear", "clearWrite", "read"} => q.kind = "poll"
  /\ q.kind = "idle" => q.at = "idle"
  /\ q.kind \in {"start", "poll"} /\ q.at = "entra" => q.kind = "start" \/ q.code # None
  /\ q.kind \in {"start", "poll"} /\ Writing(q) => q.code # None
  /\ q.kind # "start" /\ Writing(q) =>
       Whole(q.tokens, issued, codes) /\ q.tokens.access # None
  /\ q.kind = "poll" /\ Writing(q) => issued[q.tokens.access] = q.code
  /\ q.kind \in {"graph", "mde"} =>
       /\ Whole(q.seen, issued, codes) /\ q.seen.access # None
       /\ Writing(q) => issued[q.tokens.access] = issued[q.seen.access]

RequestFacts == \A r \in Requests : Carried(req[r], signIn, code)
RowFacts     == Whole(row, signIn, code)

\* A code nobody has been given, or that its start has still to save, is nowhere else.
Untouched(c) ==
  /\ c \notin void /\ row.code # c
  /\ \A q \in Requests : req[q].payload.code # c
Starting(q, c) == q.kind = "start" /\ Writing(q) /\ q.code = c
CodeFacts ==
  /\ \A c \in Codes : code[c] = "unknown" =>
       Untouched(c) /\ \A q \in Requests : req[q].code # c
  /\ \A r \in Requests : \A c \in Codes : Starting(req[r], c) =>
       /\ Untouched(c) /\ code[c] # "used"
       /\ \A q \in Requests \ {r} : req[q].code # c

\* The code in the row was not part of what a disconnect ended.
PendingNotVoid == newest # Unknown => row.code \notin void

IInv == /\ TypeOK /\ RowFacts /\ RequestFacts /\ CodeFacts /\ PendingNotVoid
        /\ NewestKept /\ DisconnectHolds

-----------------------------------------------------------------------------
(* Types. *)

LEMMA IdleIsRequest == Idle \in Request /\ NoRow \in Row
BY TokensAssumption, SMT DEF Idle, Request, NoRow, Row, Codes, Tokens, None

LEMMA FaultType ==
  ASSUME TypeOK, NEW kind \in Faults, Fault(kind)
  PROVE  faults' \subseteq Faults /\ Cardinality(faults') <= MaxFaults
<1>1. IsFiniteSet(faults)
  <2>1. IsFiniteSet({"store"})
    BY FS_Singleton
  <2>2. IsFiniteSet({"store"} \cup {"restart"})
    BY <2>1, FS_AddElement
  <2>3. IsFiniteSet(({"store"} \cup {"restart"}) \cup {"timeout"})
    BY <2>2, FS_AddElement
  <2>4. IsFiniteSet((({"store"} \cup {"restart"}) \cup {"timeout"}) \cup {"answer"})
    BY <2>3, FS_AddElement
  <2>5. Faults = (({"store"} \cup {"restart"}) \cup {"timeout"}) \cup {"answer"}
    BY DEF Faults
  <2> QED BY <2>4, <2>5, FS_Subset DEF TypeOK
<1>2. Cardinality(faults') = Cardinality(faults) + 1
  BY <1>1, FS_AddElement DEF Fault
<1>3. Cardinality(faults) \in Nat /\ Cardinality(faults) < MaxFaults /\ faults \subseteq Faults
  BY <1>1, FS_CardinalityType DEF Fault, TypeOK
<1>4. faults' \subseteq Faults
  BY <1>3 DEF Fault
<1> QED BY <1>2, <1>3, <1>4, TokensAssumption, SMT

LEMMA EndType ==
  ASSUME TypeOK, NEW r \in Requests, NEW result, End(r, result)
  PROVE  req' \in [Requests -> Request] /\ page' \in {"idle", "starting", "polling"}
BY IdleIsRequest, SMT DEF End, TypeOK

LEMMA IssueType ==
  ASSUME TypeOK, NEW c \in Codes, Issue(c)
  PROVE  /\ signIn' \in Seq(Codes) /\ Len(signIn') = Len(signIn) + 1 /\ Len(signIn') <= MaxTokens
         /\ Issued \in Tokens /\ Len(signIn) \in Nat
         /\ \A i \in 1 .. Len(signIn) : signIn'[i] = signIn[i]
         /\ signIn'[Issued] = c
BY TokensAssumption, SMT DEF TypeOK, Issue, Issued, Tokens

-----------------------------------------------------------------------------
(* What Entra ID knows only grows. *)

EntraGrows ==
  /\ Len(signIn') \in Nat
  /\ \A i \in 1 .. Len(signIn) : i <= Len(signIn') /\ signIn'[i] = signIn[i]
  /\ \A c \in Codes : code[c] = "used" => code'[c] = "used"
  /\ \A c \in Codes : code'[c] = "unknown" => code[c] = "unknown"

LEMMA WholeStays ==
  ASSUME TypeOK, EntraGrows, NEW x, Whole(x, signIn, code)
  PROVE  Whole(x, signIn', code')
<1>1. CASE x.access = None
  BY <1>1 DEF Whole
<1>2. CASE x.access # None
  <2>1. x.access \in 1 .. Len(signIn) /\ x.refresh \in 1 .. Len(signIn) /\ Len(signIn) \in Nat
        /\ signIn[x.access] \in Codes
    BY <1>2, SMT DEF Whole, TypeOK
  <2> QED BY <1>2, <2>1, SMT DEF Whole, EntraGrows
<1> QED BY <1>1, <1>2

LEMMA CarriedStays ==
  ASSUME TypeOK, EntraGrows, NEW q, Carried(q, signIn, code)
  PROVE  Carried(q, signIn', code')
<1>1. \A x : Whole(x, signIn, code) => Whole(x, signIn', code')
  BY WholeStays
<1>2. \A x : Whole(x, signIn, code) /\ x.access # None =>
        /\ x.access \in 1 .. Len(signIn) /\ signIn'[x.access] = signIn[x.access]
  BY SMT DEF Whole, EntraGrows
<1> QED BY <1>1, <1>2 DEF Carried

\* A step that is one request's: what is to be shown of what it carries then.
LEMMA OneRequest ==
  ASSUME IInv, EntraGrows, NEW r \in Requests, NEW x \in Request,
         req' = [req EXCEPT ![r] = x], UNCHANGED <<row, newest, void>>,
         Carried(x, signIn', code'),
         x.payload.code \in {None, row.code, req[r].payload.code},
         \A c \in Codes : code'[c] = "used" =>
            code[c] = "used" \/ (c = req[r].code /\ req[r].kind = "poll"),
         \/ /\ x.code \in {None, row.code, req[r].code}
            /\ x.kind = "start" /\ Writing(x) =>
                 req[r].kind = "start" /\ Writing(req[r]) /\ x.code = req[r].code
         \/ /\ x.code \in Codes /\ code[x.code] = "unknown" /\ code'[x.code] = "pending"
  PROVE  RowFacts' /\ RequestFacts' /\ CodeFacts' /\ PendingNotVoid'
<1>1. RowFacts'
  BY WholeStays DEF IInv, RowFacts
<1>2. RequestFacts'
  <2> SUFFICES ASSUME NEW q \in Requests PROVE Carried(req'[q], signIn', code')
    BY DEF RequestFacts
  <2>1. CASE q = r
    BY <2>1 DEF IInv, TypeOK
  <2>2. CASE q # r
    BY <2>2, CarriedStays DEF IInv, TypeOK, RequestFacts
  <2> QED BY <2>1, <2>2
<1>3. PendingNotVoid'
  BY DEF IInv, PendingNotVoid
<1>4. req'[r] = x /\ \A q \in Requests \ {r} : req'[q] = req[q]
  BY DEF IInv, TypeOK
<1>5. None \notin Codes /\ row.code \in Codes \cup {None} /\ void \subseteq Codes
  BY TokensAssumption, SMT DEF IInv, TypeOK, Codes, None, Row
<1>6. ASSUME NEW c \in Codes, code'[c] = "unknown"
      PROVE  Untouched(c)' /\ \A q \in Requests : req'[q].code # c
  <2>1. code[c] = "unknown" /\ Untouched(c) /\ \A q \in Requests : req[q].code # c
    BY <1>6 DEF EntraGrows, IInv, CodeFacts
  <2>2. x.code # c /\ x.payload.code # c
    BY <2>1, <1>5, <1>6 DEF Untouched
  <2> QED BY <2>1, <2>2, <1>4 DEF Untouched
<1>7. ASSUME NEW q \in Requests, NEW c \in Codes, Starting(req'[q], c)
      PROVE  /\ Untouched(c)' /\ code'[c] # "used"
             /\ \A p \in Requests \ {q} : req'[p].code # c
  <2>1. CASE q = r /\ code[c] = "unknown"
    <3>1. Untouched(c) /\ \A p \in Requests : req[p].code # c
      BY <2>1 DEF IInv, CodeFacts
    <3>2. x.code = c /\ x.payload.code # c /\ code'[c] # "used"
      BY <3>1, <2>1, <1>4, <1>5, <1>7 DEF Untouched, Starting
    <3> QED BY <3>1, <3>2, <2>1, <1>4 DEF Untouched
  <2>2. CASE ~(q = r /\ code[c] = "unknown")
    <3>1. Starting(req[q], c)
      BY <2>2, <1>4, <1>7 DEF Starting
    <3>2. Untouched(c) /\ code[c] # "used" /\ \A p \in Requests \ {q} : req[p].code # c
      BY <3>1 DEF IInv, CodeFacts
    <3>3. code'[c] # "used"
      BY <3>1, <3>2 DEF Starting
    <3>4. x.payload.code # c
      BY <3>2, <1>5 DEF Untouched
    <3>5. q # r => x.code # c
      BY <3>1, <3>2, <1>4, <1>5 DEF Untouched, IInv, CodeFacts, Starting
    <3> QED BY <3>2, <3>3, <3>4, <3>5, <1>4 DEF Untouched
  <2> QED BY <2>1, <2>2
<1>8. CodeFacts'
  BY <1>6, <1>7 DEF CodeFacts
<1> QED BY <1>1, <1>2, <1>3, <1>8

Facts == RowFacts /\ RequestFacts /\ CodeFacts /\ PendingNotVoid /\ NewestKept /\ DisconnectHolds

\* The history properties hold on when neither the row nor the history changes.
LEMMA RowStays ==
  ASSUME IInv, EntraGrows, UNCHANGED <<row, newest, void>>
  PROVE  NewestKept' /\ DisconnectHolds'
<1>1. SignInOf(row.access)' = SignInOf(row.access)
  <2>1. CASE row.access = None
    BY <2>1 DEF SignInOf
  <2>2. CASE row.access # None
    BY <2>2 DEF SignInOf, IInv, RowFacts, Whole, EntraGrows
  <2> QED BY <2>1, <2>2
<1> QED BY <1>1 DEF IInv, NewestKept, DisconnectHolds

\* Steps of Entra ID, of the page and of time.
LEMMA QuietStep ==
  ASSUME IInv, EntraGrows, UNCHANGED <<row, req, newest, void>>,
         \A c \in Codes : code'[c] = "used" => code[c] = "used"
  PROVE  Facts'
<1>1. RowFacts'
  BY WholeStays DEF IInv, RowFacts
<1>2. RequestFacts'
  BY CarriedStays DEF IInv, RequestFacts
<1>3. CodeFacts'
  BY DEF IInv, CodeFacts, Untouched, EntraGrows
<1>4. PendingNotVoid'
  BY DEF IInv, PendingNotVoid
<1> QED BY <1>1, <1>2, <1>3, <1>4, RowStays DEF Facts

\* Nothing is issued and no code changes.
LEMMA EntraRests ==
  ASSUME TypeOK, UNCHANGED <<signIn, code>>
  PROVE  EntraGrows
BY SMT DEF TypeOK, EntraGrows

LEMMA IdleCarries == \A s, k : Carried(Idle, s, k)
BY DEF Carried, Idle, Writing

\* A request that ends.
LEMMA EndStep ==
  ASSUME IInv, NEW r \in Requests, NEW result, End(r, result),
         UNCHANGED <<row, newest, void, signIn, code>>
  PROVE  Facts'
<1>1. EntraGrows /\ req' = [req EXCEPT ![r] = Idle] /\ Carried(Idle, signIn', code')
  BY EntraRests, IdleCarries DEF IInv, End
<1>2. Idle \in Request /\ Idle.payload.code = None /\ Idle.code = None /\ Idle.kind = "idle"
  BY IdleIsRequest DEF Idle, NoRow
<1>3. RowFacts' /\ RequestFacts' /\ CodeFacts' /\ PendingNotVoid'
  BY <1>1, <1>2, OneRequest
<1> QED BY <1>1, <1>3, RowStays DEF Facts

-----------------------------------------------------------------------------
(* The steps of a request. *)

LEMMA StartConnectFacts ==
  ASSUME IInv, NEW r \in Requests, StartConnect(r)
  PROVE  TypeOK' /\ Facts'
<1> DEFINE x == [Idle EXCEPT !.kind = "start", !.at = "entra", !.answers = TRUE]
<1>1. /\ EntraGrows /\ x \in Request /\ req' = [req EXCEPT ![r] = x]
      /\ Carried(x, signIn', code') /\ x.payload.code = None /\ x.code = None /\ ~Writing(x)
      /\ UNCHANGED <<row, newest, void, saved, signIn, code, due, faults>>
  BY EntraRests, IdleIsRequest DEF IInv, StartConnect, Begin, Carried, Idle, NoRow, Writing,
     Request, entra, history
<1>2. TypeOK'
  BY <1>1 DEF IInv, TypeOK, StartConnect
<1>3. RowFacts' /\ RequestFacts' /\ CodeFacts' /\ PendingNotVoid'
  <2> HIDE DEF x
  <2> QED BY <1>1, OneRequest
<1> QED BY <1>1, <1>2, <1>3, RowStays DEF Facts

LEMMA PollTickFacts ==
  ASSUME IInv, NEW r \in Requests, PollTick(r)
  PROVE  TypeOK' /\ Facts'
<1> DEFINE x == [Idle EXCEPT !.kind = "poll", !.at = "read", !.answers = TRUE]
<1>1. /\ EntraGrows /\ x \in Request /\ req' = [req EXCEPT ![r] = x]
      /\ Carried(x, signIn', code') /\ x.payload.code = None /\ x.code = None /\ ~Writing(x)
      /\ UNCHANGED <<row, newest, void, saved, signIn, code, due, faults, page>>
  BY EntraRests, IdleIsRequest DEF IInv, PollTick, Begin, Carried, Idle, NoRow, Writing,
     Request, entra, history
<1>2. TypeOK'
  BY <1>1 DEF IInv, TypeOK
<1>3. RowFacts' /\ RequestFacts' /\ CodeFacts' /\ PendingNotVoid'
  <2> HIDE DEF x
  <2> QED BY <1>1, OneRequest
<1> QED BY <1>1, <1>2, <1>3, RowStays DEF Facts

LEMMA RequestSaves ==
  ASSUME NEW q \in Request, NEW t \in Row
  PROVE  [q EXCEPT !.at = "save", !.result = "success", !.tokens = t] \in Request
BY Zenon DEF Request

LEMMA RequestStarts ==
  ASSUME NEW q \in Request, NEW c \in Codes
  PROVE  [q EXCEPT !.code = c, !.at = "save", !.result = "success"] \in Request
BY Zenon DEF Request

\* An answer that ends the request without tokens.
LEMMA EndFacts ==
  ASSUME IInv, NEW r \in Requests, NEW result, End(r, result), faults' = faults,
         UNCHANGED <<row, newest, void, saved, signIn, code, due>>
  PROVE  TypeOK' /\ Facts'
<1>1. TypeOK'
  BY EndType DEF IInv, TypeOK
<1> QED BY <1>1, EndStep

LEMMA ReadCodeFacts ==
  ASSUME IInv, NEW r \in Requests, ReadCode(r)
  PROVE  TypeOK' /\ Facts'
<1>1. CASE row.code = None
  BY <1>1, EndFacts DEF ReadCode, entra, history
<1>2. CASE row.code # None
  <2> DEFINE x == [req[r] EXCEPT !.code = row.code, !.at = "entra"]
  <2>1. /\ x \in Request /\ req' = [req EXCEPT ![r] = x]
        /\ UNCHANGED <<row, newest, void, saved, signIn, code, due, faults, page>>
    BY <1>2, SMT DEF IInv, TypeOK, ReadCode, Request, Row, entra, history
  <2>2. EntraGrows
    BY <2>1, EntraRests DEF IInv
  <2>3. Carried(x, signIn', code') /\ x.code = row.code /\ ~Writing(x)
        /\ x.payload.code = req[r].payload.code
    BY <1>2, <2>1, SMT DEF IInv, TypeOK, RequestFacts, Carried, ReadCode, Request, Writing
  <2>4. TypeOK'
    BY <2>1 DEF IInv, TypeOK
  <2>5. RowFacts' /\ RequestFacts' /\ CodeFacts' /\ PendingNotVoid'
    <3> HIDE DEF x
    <3> QED BY <2>1, <2>2, <2>3, OneRequest
  <2> QED BY <2>1, <2>2, <2>4, <2>5, RowStays DEF Facts
<1> QED BY <1>1, <1>2

LEMMA DeviceCodeFacts ==
  ASSUME IInv, NEW r \in Requests, DeviceCode(r)
  PROVE  TypeOK' /\ Facts'
<1>1. CASE End(r, "failed") /\ UNCHANGED code
  BY <1>1, EndFacts DEF DeviceCode, history
<1>2. ASSUME NEW c \in Codes, code[c] = "unknown", code' = [code EXCEPT ![c] = "pending"],
             req' = [req EXCEPT ![r].code = c, ![r].at = "save", ![r].result = "success"],
             UNCHANGED page
      PROVE  TypeOK' /\ Facts'
  <2> DEFINE x == [req[r] EXCEPT !.code = c, !.at = "save", !.result = "success"]
  <2>0. req \in [Requests -> Request] /\ req[r].kind = "start"
        /\ UNCHANGED <<row, newest, void, saved, signIn, due, faults, page>>
    BY <1>2 DEF IInv, TypeOK, DeviceCode, history
  <2>1. /\ x \in Request /\ req' = [req EXCEPT ![r] = x]
        /\ UNCHANGED <<row, newest, void, saved, signIn, due, faults, page>>
    BY <1>2, <2>0, RequestStarts, Zenon
  <2>2. EntraGrows /\ code' \in [Codes -> CodeState]
        /\ \A d \in Codes : code'[d] = "used" => code[d] = "used"
    BY <1>2, <2>1, SMT DEF IInv, TypeOK, EntraGrows, CodeState
  <2>3. x.code = c /\ x.kind = "start" /\ x.at = "save" /\ c # None
    BY <1>2, <2>0, TokensAssumption, SMT DEF Request, Codes, None
  <2>4. Carried(x, signIn', code')
    BY <2>3 DEF Carried, Writing
  <2>5. TypeOK'
    BY <2>1, <2>2 DEF IInv, TypeOK
  <2>6. x.payload.code = req[r].payload.code /\ req' = [req EXCEPT ![r] = x]
    BY <2>0, <2>1, SMT DEF Request
  <2>7. code[x.code] = "unknown" /\ code'[x.code] = "pending"
    BY <1>2, <2>3 DEF IInv, TypeOK
  <2>8. RowFacts' /\ RequestFacts' /\ CodeFacts' /\ PendingNotVoid'
    <3> HIDE DEF x
    <3> QED BY <2>1, <2>2, <2>3, <2>4, <2>6, <2>7, OneRequest
  <2> QED BY <2>1, <2>2, <2>5, <2>8, RowStays DEF Facts
<1> QED BY <1>1, <1>2 DEF DeviceCode

\* Redeeming: tokens of the code's sign-in.
LEMMA TokensFacts ==
  ASSUME IInv, NEW r \in Requests, req[r].at = "entra", req[r].kind \in {"poll", "graph", "mde"},
         NEW c \in Codes, Issue(c), NEW t \in Row,
         req' = [req EXCEPT ![r].at = "save", ![r].result = "success", ![r].tokens = t],
         Whole(t, signIn', code'), t.access # None, signIn'[t.access] = c,
         req[r].kind = "poll" => c = req[r].code,
         req[r].kind # "poll" => c = signIn[req[r].seen.access],
         code' \in [Codes -> CodeState],
         \A d \in Codes : code'[d] # code[d] => d = req[r].code /\ req[r].kind = "poll"
                                               /\ code[d] = "right" /\ code'[d] = "used",
         UNCHANGED <<row, newest, void, saved, due, faults, page>>
  PROVE  TypeOK' /\ Facts'
<1> DEFINE x == [req[r] EXCEPT !.at = "save", !.result = "success", !.tokens = t]
<1>1. req \in [Requests -> Request] /\ req[r] \in Request
  BY DEF IInv, TypeOK
<1>2. x \in Request /\ req' = [req EXCEPT ![r] = x]
  BY <1>1, RequestSaves, Zenon
<1>3. /\ x.kind = req[r].kind /\ x.at = "save" /\ x.code = req[r].code /\ x.seen = req[r].seen
      /\ x.tokens = t /\ x.payload = req[r].payload
  BY <1>1, SMT DEF Request
<1>4. EntraGrows
  BY IssueType, SMT DEF IInv, TypeOK, EntraGrows, CodeState
<1>5. Carried(req[r], signIn', code')
  BY <1>4, CarriedStays DEF IInv, RequestFacts
<1>6. req[r].kind # "poll" => signIn'[req[r].seen.access] = c
  BY <1>4, SMT DEF IInv, RequestFacts, Carried, Whole, EntraGrows
<1>7. Carried(x, signIn', code')
  <2> HIDE DEF x
  <2> QED BY <1>3, <1>5, <1>6 DEF Carried, Writing
<1>8. TypeOK'
  BY <1>2, <1>1, IssueType DEF IInv, TypeOK
<1>9. RowFacts' /\ RequestFacts' /\ CodeFacts' /\ PendingNotVoid'
  <2> HIDE DEF x
  <2> QED BY <1>2, <1>3, <1>4, <1>7, OneRequest
<1> QED BY <1>4, <1>8, <1>9, RowStays DEF Facts

\* A step that only moves a request on, to x.
LEMMA MoveFacts ==
  ASSUME IInv, NEW r \in Requests, NEW x \in Request, req' = [req EXCEPT ![r] = x],
         UNCHANGED <<row, newest, void, saved, signIn, code, due>>,
         page' \in {"idle", "starting", "polling"},
         faults' \subseteq Faults, Cardinality(faults') <= MaxFaults,
         Carried(x, signIn, code),
         x.payload.code \in {None, row.code, req[r].payload.code},
         x.code \in {None, row.code, req[r].code},
         x.kind = "start" /\ Writing(x) =>
            req[r].kind = "start" /\ Writing(req[r]) /\ x.code = req[r].code
  PROVE  TypeOK' /\ Facts'
<1>1. TypeOK'
  BY DEF IInv, TypeOK
<1>2. EntraGrows
  BY EntraRests DEF IInv
<1> QED BY <1>1, <1>2, OneRequest, RowStays DEF Facts

LEMMA RedeemFacts ==
  ASSUME IInv, NEW r \in Requests, Redeem(r)
  PROVE  TypeOK' /\ Facts'
<1> DEFINE c == req[r].code
<1>1. /\ req[r].kind = "poll" /\ req[r].at = "entra" /\ c \in Codes
      /\ req[r] \in Request /\ req \in [Requests -> Request]
      /\ UNCHANGED <<row, due, newest, void, saved, faults>>
  BY SMT DEF Redeem, IInv, TypeOK, RequestFacts, Carried, Request, history
<1>2. ASSUME NEW result, End(r, result), UNCHANGED <<code, signIn>>
      PROVE  TypeOK' /\ Facts'
  BY <1>1, <1>2, EndFacts
<1>3. ASSUME code[c] = "wrong", code' = [code EXCEPT ![c] = "expired"],
             req' = [req EXCEPT ![r].at = "clear"], UNCHANGED <<signIn, page>>
      PROVE  TypeOK' /\ Facts'
  <2> DEFINE x == [req[r] EXCEPT !.at = "clear"]
  <2>1. x \in Request /\ x.at = "clear" /\ x.kind = "poll" /\ x.code = c
        /\ x.payload = req[r].payload /\ ~Writing(x)
    BY <1>1, SMT DEF Request, Writing
  <2>2. req' = [req EXCEPT ![r] = x]
    BY <1>3
  <2>3. Carried(x, signIn', code')
    BY <2>1 DEF Carried
  <2>4. EntraGrows /\ code' \in [Codes -> CodeState]
        /\ \A d \in Codes : code'[d] = "used" => code[d] = "used"
    BY <1>1, <1>3, SMT DEF IInv, TypeOK, EntraGrows, CodeState
  <2>5. TypeOK'
    BY <1>1, <1>3, <2>1, <2>2, <2>4 DEF IInv, TypeOK
  <2>6. RowFacts' /\ RequestFacts' /\ CodeFacts' /\ PendingNotVoid'
    <3> HIDE DEF x
    <3> QED BY <1>1, <2>1, <2>2, <2>3, <2>4, OneRequest
  <2> QED BY <1>1, <2>4, <2>5, <2>6, RowStays DEF Facts
<1>4. ASSUME code[c] = "right", Issue(c), code' = [code EXCEPT ![c] = "used"],
             req' = [req EXCEPT ![r].at = "save", ![r].result = "success",
                       ![r].tokens = [access |-> Issued, refresh |-> Issued,
                                      expires |-> Issued, code |-> None]],
             UNCHANGED page
      PROVE  TypeOK' /\ Facts'
  <2> DEFINE t == [access |-> Issued, refresh |-> Issued, expires |-> Issued, code |-> None]
  <2>1. /\ Issued \in Tokens /\ signIn'[Issued] = c /\ Issued \in 1 .. Len(signIn') /\ Issued # None
    BY <1>1, <1>4, IssueType, SMT DEF Issued, None, IInv
  <2>2. code' \in [Codes -> CodeState] /\ code'[c] = "used" /\ \A d \in Codes : d # c => code'[d] = code[d]
    BY <1>1, <1>4 DEF IInv, TypeOK, CodeState
  <2>3. t \in Row /\ t.access # None /\ signIn'[t.access] = c
    BY <2>1 DEF Row
  <2>4. Whole(t, signIn', code')
    BY <2>1, <2>2 DEF Whole
  <2>5. req' = [req EXCEPT ![r].at = "save", ![r].result = "success", ![r].tokens = t]
    BY <1>4
  <2>6. \A d \in Codes : code'[d] # code[d] =>
           d = req[r].code /\ req[r].kind = "poll" /\ code[d] = "right" /\ code'[d] = "used"
    BY <1>1, <1>4, <2>2
  <2> HIDE DEF t
  <2> QED BY <1>1, <1>4, <2>2, <2>3, <2>4, <2>5, <2>6, TokensFacts
<1> QED BY <1>2, <1>3, <1>4 DEF Redeem

LEMMA AnswerLostFacts ==
  ASSUME IInv, NEW r \in Requests, AnswerLost(r)
  PROVE  TypeOK' /\ Facts'
<1> DEFINE c == req[r].code
<1>1. /\ req[r].kind = "poll" /\ c \in Codes /\ End(r, "failed") /\ Fault("answer")
      /\ code[c] = "right" /\ code' = [code EXCEPT ![c] = "used"]
      /\ UNCHANGED <<row, signIn, due, newest, void, saved>>
  BY SMT DEF AnswerLost, IInv, TypeOK, RequestFacts, Carried, Request, history
<1>2. EntraGrows /\ code' \in [Codes -> CodeState]
      /\ \A d \in Codes : code'[d] = "used" => code[d] = "used" \/ d = c
  BY <1>1, SMT DEF IInv, TypeOK, EntraGrows, CodeState
<1>3. TypeOK'
  BY <1>1, <1>2, EndType, FaultType DEF IInv, TypeOK, Faults
<1>4. req' = [req EXCEPT ![r] = Idle] /\ Carried(Idle, signIn', code')
  BY <1>1, IdleCarries DEF End
<1>5. Idle \in Request /\ Idle.payload.code = None /\ Idle.code = None /\ Idle.kind = "idle"
  BY IdleIsRequest DEF Idle, NoRow
<1>6. RowFacts' /\ RequestFacts' /\ CodeFacts' /\ PendingNotVoid'
  BY <1>1, <1>2, <1>4, <1>5, OneRequest
<1> QED BY <1>1, <1>2, <1>3, <1>6, RowStays DEF Facts

LEMMA AskTokenFacts ==
  ASSUME IInv, NEW r \in Requests, NEW kind, AskToken(r, kind)
  PROVE  TypeOK' /\ Facts'
<1> DEFINE s == [row EXCEPT !.code = None]
           x == [Idle EXCEPT !.kind = kind, !.at = "entra", !.seen = s]
<1>1. /\ kind \in {"graph", "mde"} /\ row.access # None /\ row \in Row
      /\ req' = [req EXCEPT ![r] = x]
      /\ UNCHANGED <<row, newest, void, saved, signIn, code, due, faults, page>>
  BY DEF AskToken, IInv, TypeOK, entra, history
<1>2. s \in Row /\ s.access = row.access /\ s.refresh = row.refresh /\ s.expires = row.expires
  BY <1>1, SMT DEF Row
<1>3. Whole(s, signIn, code) /\ s.access # None
  BY <1>1, <1>2 DEF IInv, RowFacts, Whole
<1>4. x \in Request
  <2> HIDE DEF s
  <2> QED BY <1>1, <1>2, IdleIsRequest, Zenon DEF Request
<1>5. /\ x.kind = kind /\ x.at = "entra" /\ x.seen = s /\ x.payload.code = None /\ x.code = None
      /\ ~Writing(x)
  BY DEF Idle, NoRow, Writing
<1>6. Carried(x, signIn, code)
  <2> HIDE DEF s, x
  <2> QED BY <1>1, <1>3, <1>5 DEF Carried
<1> HIDE DEF s, x
<1> QED BY <1>1, <1>4, <1>5, <1>6, MoveFacts DEF IInv, TypeOK

LEMMA SeenFacts ==
  ASSUME IInv, NEW r \in Requests, req[r].kind \in {"graph", "mde"}, req[r].at = "entra"
  PROVE  /\ req[r].seen \in Row /\ req[r].seen.access # None
         /\ Whole(req[r].seen, signIn, code)
         /\ SignInOf(req[r].seen.refresh) = signIn[req[r].seen.access]
         /\ signIn[req[r].seen.access] \in Codes
<1>1. req[r].seen \in Row
  BY DEF IInv, TypeOK, Request
<1>2. req[r].seen.access # None /\ Whole(req[r].seen, signIn, code)
  BY DEF IInv, RequestFacts, Carried
<1>3. /\ req[r].seen.refresh # None /\ signIn[req[r].seen.refresh] = signIn[req[r].seen.access]
      /\ req[r].seen.access \in 1 .. Len(signIn)
  BY <1>2, SMT DEF Whole, None
<1> QED BY <1>1, <1>2, <1>3, SMT DEF SignInOf, IInv, TypeOK

\* Refreshing: the new pair is of the sign-in that was read.
LEMMA SavingFacts ==
  ASSUME IInv, NEW r \in Requests, req[r].kind \in {"graph", "mde"}, req[r].at = "entra",
         NEW t \in Row, Saving(r, t),
         t.access \in {Issued, req[r].seen.access}, t.expires = t.access,
         t.refresh \in {Issued, req[r].seen.refresh},
         UNCHANGED <<row, newest, void, saved, code, due, faults>>
  PROVE  TypeOK' /\ Facts'
<1> DEFINE seen == req[r].seen
           c == signIn[seen.access]
<1>1. /\ Issue(c) /\ c \in Codes /\ seen.access # None /\ Whole(seen, signIn, code)
      /\ req' = [req EXCEPT ![r].at = "save", ![r].result = "success", ![r].tokens = t]
      /\ UNCHANGED page
  BY SeenFacts DEF Saving
<1>2. EntraGrows /\ Issued # None /\ Issued \in 1 .. Len(signIn') /\ signIn'[Issued] = c
  BY <1>1, IssueType, SMT DEF IInv, TypeOK, EntraGrows, Issued, None
<1>3. /\ seen.access \in 1 .. Len(signIn') /\ seen.refresh \in 1 .. Len(signIn')
      /\ signIn'[seen.access] = c /\ signIn'[seen.refresh] = c /\ code'[c] = "used"
  BY <1>1, <1>2, SMT DEF Whole, EntraGrows
<1>4. t.access # None /\ signIn'[t.access] = c
  BY <1>1, <1>2, <1>3
<1>5. Whole(t, signIn', code')
  BY <1>2, <1>3, <1>4 DEF Whole
<1>6. code' \in [Codes -> CodeState] /\ \A d \in Codes : code'[d] = code[d]
  BY DEF IInv, TypeOK
<1> QED BY <1>1, <1>4, <1>5, <1>6, TokensFacts

LEMMA RefreshGraphFacts ==
  ASSUME IInv, NEW r \in Requests, RefreshGraph(r)
  PROVE  TypeOK' /\ Facts'
<1>1. /\ req[r].kind = "graph" /\ req[r].at = "entra"
      /\ UNCHANGED <<row, code, due, newest, void, saved, faults>>
  BY DEF RefreshGraph, history
<1>2. ASSUME End(r, "failed"), UNCHANGED signIn
      PROVE  TypeOK' /\ Facts'
  BY <1>1, <1>2, EndFacts
<1>3. ASSUME NEW refresh \in {Issued, req[r].seen.refresh},
             Saving(r, [access |-> Issued, refresh |-> refresh, expires |-> Issued, code |-> None])
      PROVE  TypeOK' /\ Facts'
  <2> DEFINE t == [access |-> Issued, refresh |-> refresh, expires |-> Issued, code |-> None]
  <2>1. Issued \in Tokens /\ req[r].seen \in Row
    BY <1>1, <1>3, SeenFacts, IssueType DEF Saving, IInv
  <2>2. t \in Row /\ t.access = Issued /\ t.expires = Issued /\ t.refresh = refresh
    BY <2>1, <1>3, SMT DEF Row
  <2> HIDE DEF t
  <2> QED BY <1>1, <1>3, <2>2, SavingFacts DEF t
<1> QED BY <1>2, <1>3 DEF RefreshGraph

LEMMA RefreshMdeFacts ==
  ASSUME IInv, NEW r \in Requests, RefreshMde(r)
  PROVE  TypeOK' /\ Facts'
<1>1. /\ req[r].kind = "mde" /\ req[r].at = "entra"
      /\ UNCHANGED <<row, code, due, newest, void, saved, faults>>
  BY DEF RefreshMde, history
<1>2. ASSUME End(r, "failed"), UNCHANGED signIn
      PROVE  TypeOK' /\ Facts'
  BY <1>1, <1>2, EndFacts
<1>3. ASSUME Saving(r, [req[r].seen EXCEPT !.refresh = Issued])
      PROVE  TypeOK' /\ Facts'
  <2> DEFINE t == [req[r].seen EXCEPT !.refresh = Issued]
  <2>1. /\ Issued \in Tokens /\ req[r].seen \in Row
        /\ req[r].seen.expires = req[r].seen.access
    BY <1>1, <1>3, SeenFacts, IssueType DEF Saving, IInv, Whole, RequestFacts, Carried
  <2>2. /\ t \in Row /\ t.access = req[r].seen.access /\ t.expires = t.access
        /\ t.refresh = Issued
    BY <2>1, SMT DEF Row
  <2> HIDE DEF t
  <2> QED BY <1>1, <1>3, <2>2, SavingFacts DEF t
<1> QED BY <1>2, <1>3 DEF RefreshMde

LEMMA ReadSecretFacts ==
  ASSUME IInv, NEW r \in Requests, ReadSecret(r)
  PROVE  TypeOK' /\ Facts'
<1> DEFINE next == IF req[r].at = "save" THEN "saveWrite" ELSE "clearWrite"
           x == [req[r] EXCEPT !.payload = row, !.at = next]
<1>1. /\ req[r].at \in {"save", "clear"} /\ req \in [Requests -> Request] /\ req[r] \in Request
      /\ row \in Row /\ UNCHANGED <<row, newest, void, saved, signIn, code, due, faults, page>>
  BY DEF ReadSecret, IInv, TypeOK, entra, history
<1>2. req' = [req EXCEPT ![r] = x]
  BY <1>1, Zenon DEF ReadSecret
<1>3. x \in Request
  BY <1>1, Zenon DEF Request
<1>4. /\ x.payload = row /\ x.at = next /\ x.kind = req[r].kind /\ x.code = req[r].code
      /\ x.tokens = req[r].tokens /\ x.seen = req[r].seen
      /\ Writing(x) = Writing(req[r])
  BY <1>1, SMT DEF Request, Writing
<1>5. Carried(req[r], signIn, code) /\ Whole(row, signIn, code)
  BY DEF IInv, RequestFacts, RowFacts
<1>6. Carried(x, signIn, code)
  <2> HIDE DEF x
  <2> QED BY <1>1, <1>4, <1>5 DEF Carried, Writing
<1> HIDE DEF x
<1> QED BY <1>1, <1>2, <1>3, <1>4, <1>6, MoveFacts DEF IInv, TypeOK

LEMMA StoreFailsFacts ==
  ASSUME IInv, NEW r \in Requests, StoreFails(r)
  PROVE  TypeOK' /\ Facts'
<1>1. /\ End(r, "failed") /\ Fault("store")
      /\ UNCHANGED <<row, newest, void, saved, signIn, code, due>>
  BY DEF StoreFails, entra, history
<1>2. TypeOK'
  BY <1>1, EndType, FaultType DEF IInv, TypeOK, Faults
<1> QED BY <1>1, <1>2, EndStep

LEMMA PortalGivesUpFacts ==
  ASSUME IInv, NEW r \in Requests, PortalGivesUp(r)
  PROVE  TypeOK' /\ Facts'
<1> DEFINE x == [req[r] EXCEPT !.answers = FALSE]
<1>1. /\ Fault("timeout") /\ req[r] \in Request /\ req \in [Requests -> Request]
      /\ UNCHANGED <<row, newest, void, saved, signIn, code, due>>
  <2>1. req[r] \in Request /\ req \in [Requests -> Request]
    BY DEF IInv, TypeOK
  <2>2. Fault("timeout") /\ UNCHANGED <<row, newest, void, saved, signIn, code, due>>
    BY Zenon DEF PortalGivesUp, entra, history
  <2> QED BY <2>1, <2>2
<1>2. x \in Request /\ x.kind = req[r].kind /\ x.at = req[r].at /\ x.code = req[r].code
      /\ x.tokens = req[r].tokens /\ x.seen = req[r].seen /\ x.payload = req[r].payload
  <2>1. x \in Request
    BY <1>1, Zenon DEF Request
  <2> QED BY <1>1, <2>1, SMT DEF Request
<1>3. Carried(x, signIn, code) /\ Writing(x) = Writing(req[r])
  BY <1>2 DEF IInv, RequestFacts, Carried, Writing
<1>4. faults' \subseteq Faults /\ Cardinality(faults') <= MaxFaults
  BY <1>1, FaultType DEF IInv, Faults
<1>5. page' \in {"idle", "starting", "polling"}
  BY DEF PortalGivesUp, IInv, TypeOK
<1>6. req' = [req EXCEPT ![r] = x]
  BY <1>1, Zenon DEF PortalGivesUp
<1> HIDE DEF x
<1> QED BY <1>1, <1>2, <1>3, <1>4, <1>5, <1>6, MoveFacts

-----------------------------------------------------------------------------
(* The write. *)

\* A write takes its tokens whole, from the secret it read or from its request, and
\* its code from the secret, from its request if that is a start, or from nowhere.
LEMMA MergedShape ==
  ASSUME IInv, NEW r \in Requests, req[r].at \in {"saveWrite", "clearWrite"}
  PROVE  LET q == req[r] new == Merged(r, q.payload) IN
         /\ new \in Row /\ Whole(new, signIn, code)
         /\ q.kind = "start" => new.access = q.payload.access /\ new.code = q.code /\ q.at = "saveWrite"
         /\ q.at = "clearWrite" => new.access = q.payload.access /\ new.code = None
         /\ q.kind # "start" /\ q.at = "saveWrite" =>
              new.access = q.tokens.access /\ new.code = q.payload.code
<1> DEFINE q == req[r]
<1>1. q.payload \in Row /\ q.tokens \in Row /\ q.code \in Codes \cup {None}
  BY DEF IInv, TypeOK, Request
<1>2. Whole(q.payload, signIn, code) /\ (q.kind = "start" => q.at = "saveWrite")
      /\ (q.kind # "start" /\ q.at = "saveWrite" => Whole(q.tokens, signIn, code))
  BY DEF IInv, RequestFacts, Carried, Writing
<1>3. ASSUME NEW t \in Row, NEW c \in Codes \cup {None}, Whole(t, signIn, code)
      PROVE  LET new == [t EXCEPT !.code = c] IN
             new \in Row /\ Whole(new, signIn, code) /\ new.access = t.access /\ new.code = c
  <2> DEFINE new == [t EXCEPT !.code = c]
  <2>1. /\ new \in Row /\ new.access = t.access /\ new.code = c
        /\ new.refresh = t.refresh /\ new.expires = t.expires
    BY SMT DEF Row
  <2> HIDE DEF new
  <2>2. Whole(new, signIn, code)
    BY <1>3, <2>1 DEF Whole
  <2> QED BY <2>1, <2>2 DEF new
<1>4. q.payload.code \in Codes \cup {None} /\ None \in Codes \cup {None}
  BY <1>1 DEF Row
<1>5. CASE q.kind = "start"
  <2>1. Merged(r, q.payload) = [q.payload EXCEPT !.code = q.code]
    BY <1>2, <1>5 DEF Merged
  <2> HIDE DEF q
  <2> QED BY <1>1, <1>2, <1>3, <1>5, <2>1 DEF q
<1>6. CASE q.kind # "start" /\ q.at = "clearWrite"
  <2>1. Merged(r, q.payload) = [q.payload EXCEPT !.code = None]
    BY <1>6 DEF Merged
  <2> HIDE DEF q
  <2> QED BY <1>1, <1>2, <1>3, <1>4, <1>6, <2>1 DEF q
<1>7. CASE q.kind # "start" /\ q.at = "saveWrite"
  <2>1. Merged(r, q.payload) = [q.tokens EXCEPT !.code = q.payload.code]
    BY <1>7 DEF Merged
  <2> HIDE DEF q
  <2> QED BY <1>1, <1>2, <1>3, <1>4, <1>7, <2>1 DEF q
<1> QED BY <1>5, <1>6, <1>7

LEMMA WriteSecretFacts ==
  ASSUME IInv, NEW r \in Requests, WriteSecret(r)
  PROVE  TypeOK' /\ Facts'
<1> DEFINE q == req[r]
           polled == q.at = "saveWrite" /\ q.kind = "poll"
           x == IF polled THEN [q EXCEPT !.at = "clear", !.payload = NoRow, !.tokens = NoRow] ELSE Idle
<1>1. /\ q \in Request /\ req \in [Requests -> Request] /\ row \in Row /\ q.code \in Codes \cup {None}
      /\ None \notin Codes /\ void \subseteq Codes /\ newest \in Codes \cup {None, Unknown}
  BY TokensAssumption, SMT DEF IInv, TypeOK, Request, Codes, None
<1>2. /\ q.at \in {"saveWrite", "clearWrite"} /\ row' = Merged(r, q.payload)
      /\ UNCHANGED <<signIn, code, due, void, faults>>
  BY DEF WriteSecret, entra
<1>3. Carried(q, signIn, code)
  BY DEF IInv, RequestFacts
<1>4. /\ row' \in Row /\ Whole(row', signIn, code)
      /\ q.kind = "start" => row'.access = q.payload.access /\ row'.code = q.code /\ q.at = "saveWrite"
      /\ q.at = "clearWrite" => row'.access = q.payload.access /\ row'.code = None
      /\ q.kind # "start" /\ q.at = "saveWrite" =>
           row'.access = q.tokens.access /\ row'.code = q.payload.code
  BY <1>2, MergedShape
<1>5. /\ req' = [req EXCEPT ![r] = x] /\ page' \in {"idle", "starting", "polling"}
      /\ saved' \subseteq Codes
  <2>1. CASE polled
    <3>1. q.code \in Codes
      BY <1>1, <1>3, <2>1 DEF Carried, Writing
    <3>2. req' = [req EXCEPT ![r] = x]
      BY <1>1, <2>1, Zenon DEF WriteSecret
    <3> QED BY <2>1, <3>1, <3>2 DEF WriteSecret, IInv, TypeOK
  <2>2. CASE ~polled
    BY <2>2 DEF WriteSecret, End, IInv, TypeOK
  <2> QED BY <2>1, <2>2
<1>6. /\ x \in Request /\ Carried(x, signIn, code) /\ x.payload.code = None /\ ~Writing(x)
      /\ x.code \in {None, q.code}
  <2>1. CASE polled
    <3>1. x \in Request
      BY <1>1, <2>1, IdleIsRequest, Zenon DEF Request
    <3>2. x.at = "clear" /\ x.kind = "poll" /\ x.payload = NoRow /\ x.code = q.code
      BY <1>1, <2>1, SMT DEF Request
    <3> HIDE DEF x
    <3> QED BY <3>1, <3>2 DEF Carried, Writing, NoRow
  <2>2. CASE ~polled
    BY <2>2, IdleIsRequest, IdleCarries DEF Idle, NoRow, Writing
  <2> QED BY <2>1, <2>2
<1>7. /\ newest' \in Codes \cup {None, Unknown}
      /\ newest' # Unknown => /\ newest # Unknown /\ ~Stale(r)
                              /\ newest' = IF polled THEN q.code ELSE newest
  BY <1>1, <1>3, Zenon DEF WriteSecret, Writing, Carried
<1> HIDE DEF x
<1>8. TypeOK'
  BY <1>1, <1>2, <1>4, <1>5, <1>6, <1>7 DEF IInv, TypeOK
<1>9. RowFacts' /\ RequestFacts'
  BY <1>1, <1>2, <1>4, <1>5, <1>6 DEF IInv, RowFacts, RequestFacts
<1>10. CodeFacts'
  <2>1. req'[r] = x /\ \A p \in Requests \ {r} : req'[p] = req[p]
    BY <1>1, <1>5
  <2>2. row'.code \in {None, q.payload.code} \/ (Starting(q, q.code) /\ row'.code = q.code)
    BY <1>2, <1>4 DEF Starting, Writing
  <2>3. ASSUME NEW c \in Codes, Untouched(c), \A p \in Requests \ {r} : req[p].code # c, q.code # c
        PROVE  Untouched(c)'
    BY <1>1, <1>2, <1>6, <2>1, <2>2, <2>3 DEF Untouched
  <2>4. ASSUME NEW c \in Codes, code'[c] = "unknown"
        PROVE  Untouched(c)' /\ \A p \in Requests : req'[p].code # c
    BY <1>1, <1>2, <1>6, <2>1, <2>3, <2>4 DEF IInv, CodeFacts
  <2>5. ASSUME NEW p \in Requests, NEW c \in Codes, Starting(req'[p], c)
        PROVE  /\ Untouched(c)' /\ code'[c] # "used"
               /\ \A o \in Requests \ {p} : req'[o].code # c
    <3>1. p # r /\ Starting(req[p], c)
      BY <1>6, <2>1, <2>5 DEF Starting
    <3>2. Untouched(c) /\ code[c] # "used" /\ \A o \in Requests \ {p} : req[o].code # c
      BY <3>1 DEF IInv, CodeFacts
    <3>3. Untouched(c)'
      BY <1>1, <1>2, <1>6, <2>1, <2>2, <3>1, <3>2 DEF Untouched
    <3> QED BY <1>1, <1>2, <1>6, <2>1, <3>1, <3>2, <3>3
  <2> QED BY <2>4, <2>5 DEF CodeFacts
<1>11. ASSUME newest' # Unknown
       PROVE  row'.code \notin void' /\ SignInOf(row.access)' = newest' /\ SignInOf(row.access)' \notin void'
  <2>1. /\ row = q.payload /\ newest # Unknown /\ row.code \notin void
        /\ SignInOf(row.access) = newest /\ newest \notin void
    BY <1>7, <1>11 DEF Stale, IInv, NewestKept, DisconnectHolds, PendingNotVoid
  <2>2. \A s : SignInOf(s)' = SignInOf(s)
    BY <1>2 DEF SignInOf
  <2>3. CASE q.kind = "start"
    <3>1. q.code \in Codes /\ Starting(q, q.code)
      BY <1>1, <1>2, <1>3, <1>4, <2>3 DEF Carried, Starting, Writing
    <3>2. q.code \notin void
      BY <3>1 DEF IInv, CodeFacts, Untouched
    <3>3. row'.access = row.access /\ row'.code = q.code /\ newest' = newest
      BY <1>4, <1>7, <1>11, <2>1, <2>3
    <3> QED BY <1>2, <2>1, <3>2, <3>3 DEF SignInOf
  <2>4. CASE q.at = "clearWrite"
    <3>1. row'.access = row.access /\ row'.code = None /\ newest' = newest
      BY <1>4, <1>7, <1>11, <2>1, <2>4
    <3> QED BY <1>1, <1>2, <2>1, <3>1 DEF SignInOf
  <2>5. CASE polled
    <3>1. row'.access = q.tokens.access /\ row'.code = row.code /\ newest' = q.code
      BY <1>4, <1>7, <1>11, <2>1, <2>5
    <3>2. q.tokens.access # None /\ signIn[q.tokens.access] = q.code
      BY <1>3, <2>5 DEF Carried, Writing
    <3>3. row.code = q.code
      BY <1>7, <1>11, <2>5 DEF Stale
    <3> QED BY <1>2, <2>1, <3>1, <3>2, <3>3 DEF SignInOf
  <2>6. CASE q.kind \in {"graph", "mde"} /\ q.at = "saveWrite"
    <3>1. row'.access = q.tokens.access /\ row'.code = row.code /\ newest' = newest
      BY <1>4, <1>7, <1>11, <2>1, <2>6
    <3>2. /\ q.tokens.access # None /\ q.seen.access # None
          /\ signIn[q.tokens.access] = signIn[q.seen.access]
      BY <1>3, <2>6 DEF Carried, Writing
    <3>3. row.access = q.seen.access
      BY <1>7, <1>11, <2>6 DEF Stale
    <3> QED BY <1>2, <2>1, <3>1, <3>2, <3>3 DEF SignInOf
  <2>7. q.kind \in {"start", "poll", "graph", "mde"}
    BY <1>1, <1>2, <1>3 DEF Request, Carried
  <2> QED BY <1>2, <2>3, <2>4, <2>5, <2>6, <2>7
<1> QED BY <1>8, <1>9, <1>10, <1>11 DEF Facts, PendingNotVoid, NewestKept, DisconnectHolds

-----------------------------------------------------------------------------
(* Disconnect, restart, Entra ID and time. *)

LEMMA DeletedFacts ==
  ASSUME IInv, row' = NoRow, newest' = None, page' \in {"idle", "starting", "polling"},
         void' = void \cup ({row.code, SignInOf(row.access)} \ {None}),
         UNCHANGED <<req, signIn, code, due, saved, faults>>
  PROVE  TypeOK' /\ Facts'
<1>2. row.code \in Codes \cup {None} /\ None \notin Codes
  BY TokensAssumption, SMT DEF IInv, TypeOK, Row, Codes, None
<1>3. SignInOf(row.access) # None =>
        SignInOf(row.access) \in Codes /\ code[SignInOf(row.access)] = "used"
  BY SMT DEF IInv, TypeOK, RowFacts, Whole, SignInOf
<1>4. TypeOK'
  BY <1>2, <1>3, IdleIsRequest DEF IInv, TypeOK
<1>5. RowFacts' /\ RequestFacts'
  BY DEF IInv, RowFacts, RequestFacts, Whole, NoRow
<1>6. ASSUME NEW c \in Codes, Untouched(c), code[c] # "used"
      PROVE  Untouched(c)'
  BY <1>2, <1>3, <1>6 DEF Untouched, NoRow
<1>7. CodeFacts'
  BY <1>6 DEF IInv, CodeFacts
<1>8. SignInOf(row.access)' = None /\ row'.code = None /\ None \notin void'
  BY <1>2 DEF NoRow, SignInOf, IInv, TypeOK
<1> QED BY <1>4, <1>5, <1>7, <1>8 DEF Facts, PendingNotVoid, NewestKept, DisconnectHolds

LEMMA DisconnectFacts ==
  ASSUME IInv, Disconnect
  PROVE  TypeOK' /\ Facts'
<1>1. UNCHANGED <<req, signIn, code, due, saved>> /\ page' \in {"idle", "starting", "polling"}
  BY DEF Disconnect, entra, IInv, TypeOK
<1>2. CASE /\ row' = NoRow /\ newest' = None /\ UNCHANGED faults
           /\ void' = void \cup ({row.code, SignInOf(row.access)} \ {None})
  BY <1>1, <1>2, DeletedFacts
<1>3. CASE Fault("store") /\ UNCHANGED <<row, newest, void>>
  <2>1. TypeOK'
    BY <1>1, <1>3, FaultType DEF IInv, TypeOK, Faults
  <2>2. EntraGrows
    BY <1>1, EntraRests DEF IInv
  <2> QED BY <1>1, <1>3, <2>1, <2>2, QuietStep
<1> QED BY <1>2, <1>3 DEF Disconnect

LEMMA RestartFacts ==
  ASSUME IInv, Restart
  PROVE  TypeOK' /\ Facts'
<1>1. /\ Fault("restart") /\ req' = [r \in Requests |-> Idle]
      /\ UNCHANGED <<row, newest, void, saved, signIn, code, due>>
  BY DEF Restart, entra, history
<1>2. TypeOK'
  BY <1>1, FaultType, IdleIsRequest DEF Restart, IInv, TypeOK, Faults
<1>3. RowFacts' /\ RequestFacts' /\ PendingNotVoid'
  BY <1>1, IdleCarries DEF IInv, RowFacts, RequestFacts, PendingNotVoid
<1>4. CodeFacts'
  <2>1. Idle.code = None /\ Idle.payload.code = None /\ Idle.kind = "idle" /\ None \notin Codes
    BY TokensAssumption, SMT DEF Idle, NoRow, Codes, None
  <2> QED BY <1>1, <2>1 DEF IInv, CodeFacts, Untouched, Starting
<1>5. NewestKept' /\ DisconnectHolds'
  BY <1>1, EntraRests, RowStays DEF IInv
<1> QED BY <1>2, <1>3, <1>4, <1>5 DEF Facts

LEMMA CodeMoves ==
  ASSUME IInv, NEW c \in Codes, SignIn(c) \/ CodeExpires(c)
  PROVE  TypeOK' /\ Facts'
<1>1. /\ code' \in [Codes -> CodeState] /\ code[c] \in {"pending", "right"}
      /\ \A d \in Codes : code'[d] = code[d] \/ (d = c /\ code'[d] \in {"right", "wrong", "expired"})
      /\ UNCHANGED <<row, req, page, signIn, due, newest, void, saved, faults>>
  BY DEF SignIn, CodeExpires, IInv, TypeOK, CodeState, history
<1>2. EntraGrows /\ \A d \in Codes : code'[d] = "used" => code[d] = "used"
  <2>1. ~ EntraGrows => FALSE
    BY <1>1, SMT DEF EntraGrows, IInv, TypeOK
  <2>2. \A d \in Codes : code'[d] = "used" => code[d] = "used"
    BY <1>1
  <2> QED BY <2>1, <2>2
<1>3. TypeOK'
  BY <1>1 DEF IInv, TypeOK
<1> QED BY <1>1, <1>2, <1>3, QuietStep

LEMMA OtherSteps ==
  ASSUME IInv, StopPolling \/ (\E s \in Tokens : TokenAges(s)) \/ UNCHANGED vars
  PROVE  TypeOK' /\ Facts'
<1>1. UNCHANGED <<row, req, code, signIn, newest, void, saved, faults>>
  BY DEF StopPolling, TokenAges, vars, entra, history
<1>2. TypeOK'
  BY DEF StopPolling, TokenAges, vars, entra, history, IInv, TypeOK
<1>3. EntraGrows
  BY <1>1, EntraRests DEF IInv
<1> QED BY <1>1, <1>2, <1>3, QuietStep

-----------------------------------------------------------------------------
LEMMA InitIInv == Init => IInv
<1> SUFFICES ASSUME Init PROVE IInv
  OBVIOUS
<1>1. TypeOK
  <2>1. Cardinality({}) = 0 /\ 0 <= MaxFaults
    BY FS_EmptySet, TokensAssumption, SMT
  <2>2. <<>> \in Seq(Codes) /\ Len(<<>>) <= MaxTokens
    BY TokensAssumption, SMT
  <2> QED BY <2>1, <2>2, IdleIsRequest DEF Init, TypeOK, CodeState
<1>2. RowFacts /\ RequestFacts
  BY IdleCarries DEF Init, RowFacts, RequestFacts, Whole, NoRow
<1>3. CodeFacts
  <2>1. Idle.code = None /\ Idle.payload.code = None /\ Idle.kind = "idle" /\ None \notin Codes
    BY TokensAssumption, SMT DEF Idle, NoRow, Codes, None
  <2> QED BY <2>1 DEF Init, CodeFacts, Untouched, Starting, NoRow
<1>4. PendingNotVoid /\ NewestKept /\ DisconnectHolds
  BY DEF Init, PendingNotVoid, NewestKept, DisconnectHolds, SignInOf, NoRow
<1> QED BY <1>1, <1>2, <1>3, <1>4 DEF IInv

LEMMA NextIInv == IInv /\ [Next]_vars => IInv'
<1> SUFFICES ASSUME IInv, [Next]_vars PROVE TypeOK' /\ Facts'
  BY DEF Facts, IInv
<1>1. ASSUME NEW r \in Requests, RequestStep(r) PROVE TypeOK' /\ Facts'
  BY <1>1, StartConnectFacts, DeviceCodeFacts, PollTickFacts, ReadCodeFacts, RedeemFacts,
     AnswerLostFacts, AskTokenFacts, RefreshGraphFacts, RefreshMdeFacts, ReadSecretFacts, WriteSecretFacts,
     StoreFailsFacts, PortalGivesUpFacts DEF RequestStep
<1> QED BY <1>1, DisconnectFacts, RestartFacts, CodeMoves, OtherSteps DEF Next

LEMMA Invariance == Spec => []IInv
BY InitIInv, NextIInv, PTL DEF Spec

\* Every variable keeps its type.
THEOREM TypeCorrect == Spec => []TypeOK
<1>1. IInv => TypeOK
  BY DEF IInv
<1> QED BY <1>1, Invariance, PTL

\* The row's access and refresh token are of one sign-in to the tenant's directory,
\* with either kind of backend and any number of requests under way.
THEOREM OneSignIn == Spec => []RowOfOneSignIn
<1>1. IInv => RowOfOneSignIn
  BY SMT DEF IInv, RowFacts, Whole, RowOfOneSignIn, SignInOf, None
<1> QED BY <1>1, Invariance, PTL

\* Only a write over what its request has not read takes the row back to an older
\* sign-in.
THEOREM NewestStays == Spec => []NewestKept
<1>1. IInv => NewestKept
  BY DEF IInv
<1> QED BY <1>1, Invariance, PTL

\* Nor does anything else bring back what a disconnect has ended.
THEOREM DisconnectIsFinal == Spec => []DisconnectHolds
<1>1. IInv => DisconnectHolds
  BY DEF IInv
<1> QED BY <1>1, Invariance, PTL

-----------------------------------------------------------------------------
(* What was redeemed is kept: by its poll until it is saved. *)

Keeps(q, c) == q.kind = "poll" /\ q.code = c /\ Writing(q)
Lost(fs)    == fs \cap {"answer", "store", "restart"} # {}

LEMMA KeptStep ==
  ASSUME RedeemedIsKept, NEW r \in Requests,
         \A q \in Requests \ {r} : req'[q] = req[q],
         saved \subseteq saved', faults \subseteq faults',
         \A c \in Codes : code'[c] = "used" => code[c] = "used" \/ Keeps(req'[r], c),
         \A c \in Codes : Keeps(req[r], c) => Keeps(req'[r], c) \/ c \in saved' \/ Lost(faults')
  PROVE  RedeemedIsKept'
<1> SUFFICES ASSUME NEW c \in Codes, code'[c] = "used"
             PROVE  c \in saved' \/ (\E q \in Requests : Keeps(req'[q], c)) \/ Lost(faults')
  BY DEF RedeemedIsKept, Keeps, Writing, Lost
<1>1. CASE Keeps(req'[r], c)
  BY <1>1
<1>2. CASE ~Keeps(req'[r], c)
  <2>1. code[c] = "used"
    BY <1>2
  <2>2. c \in saved \/ (\E q \in Requests : Keeps(req[q], c)) \/ Lost(faults)
    BY <2>1 DEF RedeemedIsKept, Keeps, Writing, Lost
  <2>3. CASE c \in saved \/ Lost(faults)
    BY <2>3 DEF Lost
  <2>4. ASSUME NEW q \in Requests, Keeps(req[q], c)
        PROVE  c \in saved' \/ (\E o \in Requests : Keeps(req'[o], c)) \/ Lost(faults')
    <3>1. CASE q = r
      BY <2>4, <3>1
    <3>2. CASE q # r
      BY <2>4, <3>2
    <3> QED BY <3>1, <3>2
  <2> QED BY <2>2, <2>3, <2>4
<1> QED BY <1>1, <1>2

\* A step of a request that holds no tokens, and redeems none.
LEMMA KeptByOthers ==
  ASSUME RedeemedIsKept, NEW r \in Requests, ~Writing(req[r]), NEW x,
         req \in [Requests -> Request], req' = [req EXCEPT ![r] = x],
         UNCHANGED <<saved, faults>>,
         \A c \in Codes : code'[c] = "used" => code[c] = "used"
  PROVE  RedeemedIsKept'
BY KeptStep DEF Keeps

LEMMA RequestKeeps ==
  ASSUME IInv, RedeemedIsKept, NEW r \in Requests, RequestStep(r)
  PROVE  RedeemedIsKept'
<1> USE DEF Writing
<1>1. req \in [Requests -> Request] /\ req[r] \in Request
  BY DEF IInv, TypeOK
<1>2. \A q, result : End(q, result) => req' = [req EXCEPT ![q] = Idle]
  BY DEF End
<1>3. CASE StartConnect(r)
  BY <1>1, <1>3, KeptByOthers DEF StartConnect, Begin, entra, history
<1>4. CASE DeviceCode(r)
  <2>1. ~Writing(req[r]) /\ UNCHANGED <<saved, faults>>
    BY <1>4 DEF DeviceCode, history
  <2>2. CASE End(r, "failed") /\ UNCHANGED code
    BY <1>1, <1>2, <2>1, <2>2, KeptByOthers
  <2>3. ASSUME NEW c \in Codes, code' = [code EXCEPT ![c] = "pending"],
               req' = [req EXCEPT ![r].code = c, ![r].at = "save", ![r].result = "success"]
        PROVE  RedeemedIsKept'
    <3>1. req' = [req EXCEPT ![r] = [req[r] EXCEPT !.code = c, !.at = "save", !.result = "success"]]
      BY <1>1, <2>3, Zenon
    <3>2. \A d \in Codes : code'[d] = "used" => code[d] = "used"
      BY <2>3 DEF IInv, TypeOK
    <3> QED BY <1>1, <2>1, <3>1, <3>2, KeptByOthers
  <2> QED BY <1>4, <2>2, <2>3 DEF DeviceCode
<1>5. CASE PollTick(r)
  BY <1>1, <1>5, KeptByOthers DEF PollTick, Begin, entra, history
<1>6. CASE ReadCode(r)
  <2>1. ~Writing(req[r]) /\ UNCHANGED <<saved, faults, code>>
    BY <1>6 DEF ReadCode, entra, history
  <2>2. \E x : req' = [req EXCEPT ![r] = x]
    <3>1. CASE row.code = None
      BY <1>2, <1>6, <3>1 DEF ReadCode
    <3>2. CASE row.code # None
      BY <1>1, <1>6, <3>2, Zenon DEF ReadCode
    <3> QED BY <3>1, <3>2
  <2> QED BY <1>1, <2>1, <2>2, KeptByOthers
<1>7. CASE Redeem(r)
  <2> DEFINE c == req[r].code
  <2>1. /\ ~Writing(req[r]) /\ UNCHANGED <<saved, faults>>
        /\ req[r].kind = "poll"
    BY <1>7 DEF Redeem, history
  <2>2. ASSUME NEW result, End(r, result), UNCHANGED code
        PROVE  RedeemedIsKept'
    BY <1>1, <1>2, <2>1, <2>2, KeptByOthers
  <2>3. CASE code' = [code EXCEPT ![c] = "expired"] /\ req' = [req EXCEPT ![r].at = "clear"]
    <3>1. req' = [req EXCEPT ![r] = [req[r] EXCEPT !.at = "clear"]]
      BY <1>1, <2>3, Zenon
    <3>2. \A d \in Codes : code'[d] = "used" => code[d] = "used"
      BY <2>3 DEF IInv, TypeOK
    <3> QED BY <1>1, <2>1, <3>1, <3>2, KeptByOthers
  <2>4. CASE /\ code' = [code EXCEPT ![c] = "used"]
             /\ req' = [req EXCEPT ![r].at = "save", ![r].result = "success",
                          ![r].tokens = [access |-> Issued, refresh |-> Issued,
                                         expires |-> Issued, code |-> None]]
    <3>1. Keeps(req'[r], c) /\ \A q \in Requests \ {r} : req'[q] = req[q]
      BY <1>1, <2>1, <2>4, SMT DEF Keeps, Request
    <3>2. \A d \in Codes : code'[d] = "used" => code[d] = "used" \/ d = c
      BY <2>4 DEF IInv, TypeOK
    <3> QED BY <2>1, <3>1, <3>2, KeptStep DEF Keeps
  <2> QED BY <1>7, <2>2, <2>3, <2>4 DEF Redeem
<1>8. ASSUME NEW kind, AskToken(r, kind) PROVE RedeemedIsKept'
  BY <1>1, <1>8, KeptByOthers DEF AskToken, entra, history
<1>9. CASE RefreshGraph(r) \/ RefreshMde(r)
  <2>1. ~Writing(req[r]) /\ UNCHANGED <<saved, faults, code>>
    BY <1>9 DEF RefreshGraph, RefreshMde, history
  <2>2. ASSUME NEW t, Saving(r, t)
        PROVE  \E x : req' = [req EXCEPT ![r] = x]
    BY <1>1, <2>2, Zenon DEF Saving
  <2>3. \E x : req' = [req EXCEPT ![r] = x]
    BY <1>2, <1>9, <2>2 DEF RefreshGraph, RefreshMde
  <2> QED BY <1>1, <2>1, <2>3, KeptByOthers
<1>10. CASE ReadSecret(r)
  <2>1. UNCHANGED <<saved, faults, code>>
    BY <1>10, Zenon DEF ReadSecret, entra, history
  <2>2. req' = [req EXCEPT ![r] = [req[r] EXCEPT !.payload = row,
                  !.at = IF req[r].at = "save" THEN "saveWrite" ELSE "clearWrite"]]
    BY <1>1, <1>10, Zenon DEF ReadSecret
  <2>3. /\ \A q \in Requests \ {r} : req'[q] = req[q]
        /\ \A c \in Codes : Keeps(req[r], c) => Keeps(req'[r], c)
    BY <1>1, <1>10, <2>2, SMT DEF Keeps, ReadSecret, Request
  <2> QED BY <2>1, <2>3, KeptStep
<1>11. CASE WriteSecret(r)
  <2>1. UNCHANGED <<faults, code>> /\ req[r].at \in {"saveWrite", "clearWrite"}
    BY <1>11 DEF WriteSecret, entra
  <2>2. CASE req[r].at = "saveWrite" /\ req[r].kind = "poll"
    <3>1. saved' = saved \cup {req[r].code} /\ \A q \in Requests \ {r} : req'[q] = req[q]
      BY <1>1, <1>11, <2>2 DEF WriteSecret
    <3> QED BY <2>1, <3>1, KeptStep DEF Keeps
  <2>3. CASE ~(req[r].at = "saveWrite" /\ req[r].kind = "poll")
    <3>1. UNCHANGED saved /\ req' = [req EXCEPT ![r] = Idle]
      BY <1>2, <1>11, <2>3 DEF WriteSecret
    <3>2. \A c \in Codes : ~Keeps(req[r], c)
      BY <2>1, <2>3 DEF Keeps
    <3> QED BY <1>1, <2>1, <3>1, <3>2, KeptStep
  <2> QED BY <2>2, <2>3
<1>12. CASE StoreFails(r)
  <2>1. /\ req' = [req EXCEPT ![r] = Idle] /\ UNCHANGED <<saved, code>>
        /\ faults \subseteq faults' /\ Lost(faults')
    BY <1>2, <1>12 DEF StoreFails, Fault, Lost, entra, history
  <2> QED BY <1>1, <2>1, KeptStep
<1>13. CASE PortalGivesUp(r)
  <2>1. UNCHANGED <<saved, code>> /\ faults \subseteq faults'
    BY <1>13, Zenon DEF PortalGivesUp, Fault, entra, history
  <2>2. req' = [req EXCEPT ![r] = [req[r] EXCEPT !.answers = FALSE]]
    BY <1>1, <1>13, Zenon DEF PortalGivesUp
  <2>3. /\ \A q \in Requests \ {r} : req'[q] = req[q]
        /\ \A c \in Codes : Keeps(req[r], c) => Keeps(req'[r], c)
    BY <1>1, <2>2, SMT DEF Keeps, Request
  <2> QED BY <2>1, <2>3, KeptStep
<1>14. CASE AnswerLost(r)
  BY <1>14 DEF AnswerLost, Fault, RedeemedIsKept
<1> QED BY <1>3, <1>4, <1>5, <1>6, <1>7, <1>8, <1>9, <1>10, <1>11, <1>12, <1>13, <1>14
        DEF RequestStep

LEMMA NextKeeps == IInv /\ RedeemedIsKept /\ [Next]_vars => RedeemedIsKept'
<1> SUFFICES ASSUME IInv, RedeemedIsKept, [Next]_vars PROVE RedeemedIsKept'
  OBVIOUS
<1>1. ASSUME NEW r \in Requests, RequestStep(r) PROVE RedeemedIsKept'
  BY <1>1, RequestKeeps
<1>2. ASSUME UNCHANGED <<req, saved, faults>>, \A c \in Codes : code'[c] = "used" => code[c] = "used"
      PROVE  RedeemedIsKept'
  BY <1>2 DEF RedeemedIsKept
<1>3. CASE StopPolling \/ (\E s \in Tokens : TokenAges(s)) \/ UNCHANGED vars
  BY <1>2, <1>3 DEF StopPolling, TokenAges, vars, entra, history
<1>6. CASE Disconnect
  <2>1. UNCHANGED <<req, saved, code>> /\ faults \subseteq faults'
    BY <1>6 DEF Disconnect, Fault, entra
  <2> QED BY <2>1 DEF RedeemedIsKept
<1>4. CASE Restart
  BY <1>4 DEF Restart, Fault, RedeemedIsKept
<1>5. ASSUME NEW c \in Codes, SignIn(c) \/ CodeExpires(c) PROVE RedeemedIsKept'
  <2>1. \A d \in Codes : code'[d] = "used" => code[d] = "used"
    BY <1>5 DEF SignIn, CodeExpires, IInv, TypeOK
  <2>2. UNCHANGED <<req, saved, faults>>
    BY <1>5 DEF SignIn, CodeExpires, history
  <2> QED BY <1>2, <2>1, <2>2
<1> QED BY <1>1, <1>3, <1>4, <1>5, <1>6 DEF Next

\* The tokens a code was redeemed for are saved or about to be, unless the answer
\* was lost, the store failed or the service restarted.
THEOREM RedeemedStays == Spec => []RedeemedIsKept
<1>1. Init => RedeemedIsKept
  BY DEF Init, RedeemedIsKept
<1> QED BY <1>1, NextKeeps, Invariance, PTL DEF Spec
=============================================================================
