------------------------ MODULE AccountSessionProofs ------------------------
(***************************************************************************)
(* Proofs about AccountSession for every set of accounts, keys and clients.*)
(***************************************************************************)
EXTENDS AccountSession, TLAPS

(* The registration in flight was served. *)
Served ==
  \/ step["register"] = "served"
  \/ step["register"] = "answered" /\ answer["register"] = "ok"

(* Keys are made once; the one being registered was current when it was     *)
(* chosen and is still known, unless a login made the configuration forget  *)
(* it together with the old keys sent along.                                *)
KeysAreFresh ==
  /\ key \in mine \cup {NONE} /\ key \notin old
  /\ mine \subseteq made /\ old \subseteq made
  /\ regPrev \subseteq made /\ regKey \in made \cup {NONE}
  /\ \A a \in Account : server[a] \subseteq made

RegistrationIsOurs ==
  /\ key \notin regPrev /\ regKey \notin regPrev
  /\ regKey \in mine => regKey \in Kept
  /\ regKey \notin mine => regPrev \cap mine = {}

(* What a served registration has done at the server. *)
ServedIsKnown ==
  Served =>
    /\ \E a \in Account : regKey \in server[a]
    /\ ~mixed /\ regKey \in mine => account # NONE /\ regKey \in server[account]
    /\ ~mixed /\ account # NONE => server[account] \cap mine \cap regPrev = {}

KeyInv ==
  KeysAreFresh /\ RegistrationIsOurs /\ ServedIsKnown /\ RegisteredKeyIsKnown /\ NoForgottenKey

Inv == TypeOK /\ KeyInv /\ ClientIsCurrentUnlessRaced

-----------------------------------------------------------------------------
(* Types *)

LEMMA CallerType == "register" \in Caller /\ "connect" \in Caller
BY DEF Caller

LEMMA RotateType ==
  ASSUME TypeOK, NEW k \in Key, RotateTo(k)
  PROVE  /\ key' \in Key /\ secret' \in BOOLEAN /\ registered' \in BOOLEAN
         /\ old' \in SUBSET Key /\ made' \in SUBSET Key /\ mine' \in SUBSET Key
BY DEF TypeOK, RotateTo, Kept

LEMMA EnsureType ==
  ASSUME TypeOK, EnsureKeyPair
  PROVE  /\ key' \in Key /\ secret' \in BOOLEAN /\ registered' \in BOOLEAN
         /\ old' \in SUBSET Key /\ made' \in SUBSET Key /\ mine' \in SUBSET Key
<1>1. CASE key # NONE /\ secret
  BY <1>1 DEF EnsureKeyPair, keyVars, TypeOK
<1>2. CASE ~(key # NONE /\ secret)
  BY <1>2, RotateType DEF EnsureKeyPair
<1> QED BY <1>1, <1>2

(* Dropping clients keeps those in use. *)
LEMMA DropType ==
  ASSUME TypeOK, DropUnheld
  PROVE  /\ clientOf' \in [Client -> Account \cup {NONE}]
         /\ clientToken' \in [Client -> Account \cup {NONE}]
         /\ \A i \in Client : i \in InUse' => clientOf'[i] = clientOf[i]
BY DEF TypeOK, DropUnheld

(* A client that a sent request uses stays made for an account. *)
ClientsType ==
  /\ clientOf \in [Client -> Account \cup {NONE}]
  /\ clientToken \in [Client -> Account \cup {NONE}]
  /\ via \in [Caller -> Client \cup {NONE}]
  /\ cached \in Client \cup {NONE}
  /\ cached # NONE => clientOf[cached] \in Account
  /\ \A c \in Caller : step[c] \in {"sent", "served"} => via[c] \in Client /\ clientOf[via[c]] \in Account

LEMMA ClearType ==
  ASSUME TypeOK, ClearClient, UNCHANGED <<step, via>>
  PROVE  ClientsType'
<1>1. \A c \in Caller : via'[c] \in InUse'
  BY DEF InUse
<1> QED BY <1>1, DropType DEF TypeOK, ClearClient, ClientsType

LEMMA TypeInit == Init => TypeOK
<1> SUFFICES ASSUME Init PROVE TypeOK
  OBVIOUS
<1>1. \A c \in Caller : step[c] = "idle"
  BY DEF Init
<1>2. step \in [Caller -> {"idle", "ready", "picked", "sent", "served", "answered"}]
  BY DEF Init
<1>3. /\ who \in [Caller -> Account \cup {NONE}]
      /\ via \in [Caller -> Client \cup {NONE}]
      /\ answer \in [Caller -> {"none", "ok", "rotate", "err"}]
      /\ clientOf \in [Client -> Account \cup {NONE}]
      /\ clientToken \in [Client -> Account \cup {NONE}]
      /\ server \in [Account -> SUBSET Key]
  BY DEF Init
<1> QED BY <1>1, <1>2, <1>3, CallerType DEF Init, TypeOK

LEMMA ForgetType ==
  ASSUME TypeOK, NEW c \in Caller, Forget(c), step'["register"] = "idle" \/ c # "register"
  PROVE  /\ regKey' \in Key \cup {NONE} /\ regPrev' \in SUBSET Key
         /\ step'["register"] # "idle" => regKey' = regKey
BY DEF TypeOK, Forget

(* Every step preserves the types. *)
LEMMA TypeSetAccountId ==
  ASSUME TypeOK, NEW a \in Account \cup {NONE}, NEW t \in Account \cup {NONE}, SetAccountId(a, t)
  PROVE  TypeOK'
<1>1. ClientsType'
  BY ClearType DEF SetAccountId, callVars
<1>2. /\ key' \in Key \cup {NONE} /\ secret' \in BOOLEAN /\ registered' \in BOOLEAN
      /\ old' \in SUBSET Key /\ made' \in SUBSET Key /\ mine' \in SUBSET Key
      /\ mixed' \in BOOLEAN
  <2>1. CASE a # account
    BY <2>1 DEF SetAccountId, TypeOK
  <2>2. CASE a = account
    BY <2>2 DEF SetAccountId, TypeOK, keyVars
  <2> QED BY <2>1, <2>2
<1>3. clientOf' \in [Client -> Account \cup {NONE}] /\ clientToken' \in [Client -> Account \cup {NONE}]
  BY <1>1 DEF ClientsType
<1> QED BY <1>1, <1>2 DEF TypeOK, SetAccountId, ClientsType, callVars

LEMMA TypeRotate ==
  ASSUME TypeOK, Rotate
  PROVE  TypeOK'
BY RotateType DEF TypeOK, Rotate, configVars, clientVars, callVars, historyVars

LEMMA TypeSetApiUrl ==
  ASSUME TypeOK, SetApiUrl
  PROVE  TypeOK'
<1>1. ClientsType'
  BY ClearType DEF SetApiUrl, callVars
<1>2. /\ key' \in Key /\ secret' \in BOOLEAN /\ registered' \in BOOLEAN
      /\ old' \in SUBSET Key /\ made' \in SUBSET Key /\ mine' \in SUBSET Key
  BY RotateType DEF SetApiUrl
<1> QED BY <1>1, <1>2 DEF TypeOK, SetApiUrl, ClientsType, configVars, callVars, historyVars

LEMMA TypeSetHostOrInterface ==
  ASSUME TypeOK, SetHostOrInterface
  PROVE  TypeOK'
<1>1. ClientsType'
  BY ClearType DEF SetHostOrInterface, callVars
<1> QED BY <1>1 DEF TypeOK, SetHostOrInterface, ClientsType, configVars, keyVars, callVars, historyVars

LEMMA TypeNeedRegistration ==
  ASSUME TypeOK, NeedRegistration
  PROVE  TypeOK'
<1>1. /\ key' \in Key /\ secret' \in BOOLEAN /\ registered' \in BOOLEAN
      /\ old' \in SUBSET Key /\ made' \in SUBSET Key /\ mine' \in SUBSET Key
  BY EnsureType DEF NeedRegistration
<1>2. /\ step' \in [Caller -> {"idle", "ready", "picked", "sent", "served", "answered"}]
      /\ \A c \in Caller : step'[c] = step[c] \/ step'[c] = "ready"
      /\ regKey' \in Key \cup {NONE} /\ regPrev' \in SUBSET Key
      /\ step'["register"] # "idle" => regKey' \in Key
  BY <1>1, CallerType DEF TypeOK, NeedRegistration
<1> QED BY <1>1, <1>2 DEF TypeOK, NeedRegistration, configVars, clientVars, historyVars

LEMMA TypeUseKeyPair ==
  ASSUME TypeOK, UseKeyPair
  PROVE  TypeOK'
<1>1. /\ key' \in Key /\ secret' \in BOOLEAN /\ registered' \in BOOLEAN
      /\ old' \in SUBSET Key /\ made' \in SUBSET Key /\ mine' \in SUBSET Key
  BY EnsureType DEF UseKeyPair
<1>2. /\ step' \in [Caller -> {"idle", "ready", "picked", "sent", "served", "answered"}]
      /\ \A c \in Caller : step'[c] = step[c] \/ step'[c] = "ready"
      /\ step'["register"] = step["register"]
  BY CallerType DEF TypeOK, UseKeyPair, Goto
<1> QED BY <1>1, <1>2 DEF TypeOK, UseKeyPair, configVars, clientVars, historyVars

LEMMA TypeReadAccount ==
  ASSUME TypeOK, NEW c \in Caller, ReadAccount(c)
  PROVE  TypeOK'
BY CallerType DEF TypeOK, ReadAccount, Goto, configVars, keyVars, clientVars, historyVars

LEMMA TypeNotLoggedIn ==
  ASSUME TypeOK, NEW c \in Caller, NotLoggedIn(c)
  PROVE  TypeOK'
<1>1. /\ step' \in [Caller -> {"idle", "ready", "picked", "sent", "served", "answered"}]
      /\ \A d \in Caller : step'[d] = IF d = c THEN "idle" ELSE step[d]
  BY DEF TypeOK, NotLoggedIn, Goto
<1>2. /\ regKey' \in Key \cup {NONE} /\ regPrev' \in SUBSET Key
      /\ step'["register"] # "idle" => regKey' = regKey /\ step["register"] # "idle"
  BY <1>1, ForgetType, CallerType DEF NotLoggedIn
<1> QED BY <1>1, <1>2 DEF TypeOK, NotLoggedIn, configVars, keyVars, clientVars, historyVars

LEMMA TypeCannotMakeClient ==
  ASSUME TypeOK, NEW c \in Caller, CannotMakeClient(c)
  PROVE  TypeOK'
<1>1. /\ step' \in [Caller -> {"idle", "ready", "picked", "sent", "served", "answered"}]
      /\ \A d \in Caller : step'[d] = IF d = c THEN "idle" ELSE step[d]
  BY DEF TypeOK, CannotMakeClient, Goto
<1>2. /\ regKey' \in Key \cup {NONE} /\ regPrev' \in SUBSET Key
      /\ step'["register"] # "idle" => regKey' = regKey /\ step["register"] # "idle"
  BY <1>1, ForgetType, CallerType DEF CannotMakeClient
<1>3. /\ who' \in [Caller -> Account \cup {NONE}]
      /\ \A d \in Caller : d # c => who'[d] = who[d]
  BY DEF TypeOK, CannotMakeClient
<1> QED BY <1>1, <1>2, <1>3 DEF TypeOK, CannotMakeClient, configVars, keyVars, clientVars, historyVars

LEMMA TypeUseCachedClient ==
  ASSUME TypeOK, NEW c \in Caller, UseCachedClient(c)
  PROVE  TypeOK'
<1>1. /\ step' \in [Caller -> {"idle", "ready", "picked", "sent", "served", "answered"}]
      /\ \A d \in Caller : step'[d] = IF d = c THEN "sent" ELSE step[d]
      /\ step[c] = "picked"
  BY DEF TypeOK, UseCachedClient, Goto
<1>2. /\ who' \in [Caller -> Account \cup {NONE}] /\ via' \in [Caller -> Client \cup {NONE}]
      /\ \A d \in Caller : d # c => who'[d] = who[d] /\ via'[d] = via[d]
      /\ via'[c] = cached
  BY DEF TypeOK, UseCachedClient
<1>r. step'["register"] # "idle" => regKey' \in Key
  BY <1>1, CallerType DEF TypeOK, UseCachedClient
<1> QED BY <1>r, <1>1, <1>2 DEF TypeOK, UseCachedClient, configVars, keyVars, clientVars, historyVars

LEMMA TypeMakeClient ==
  ASSUME TypeOK, NEW c \in Caller, NEW i \in Client, MakeClient(c, i)
  PROVE  TypeOK'
<1>1. /\ step' \in [Caller -> {"idle", "ready", "picked", "sent", "served", "answered"}]
      /\ \A d \in Caller : step'[d] = IF d = c THEN "sent" ELSE step[d]
      /\ step[c] = "picked" /\ who[c] \in Account
  BY DEF TypeOK, MakeClient, Goto
<1>2. /\ who' \in [Caller -> Account \cup {NONE}] /\ via' \in [Caller -> Client \cup {NONE}]
      /\ \A d \in Caller : d # c => who'[d] = who[d] /\ via'[d] = via[d]
      /\ via'[c] = i
  BY DEF TypeOK, MakeClient
<1>3. \A d \in Caller : via[d] # i
  BY DEF MakeClient, InUse
<1>4. /\ clientOf' \in [Client -> Account \cup {NONE}] /\ clientToken' \in [Client -> Account \cup {NONE}]
      /\ clientOf'[i] \in Account /\ \A j \in Client : j # i => clientOf'[j] = clientOf[j]
  BY <1>1 DEF TypeOK, MakeClient
<1>5. raced' \in BOOLEAN
  BY DEF TypeOK, MakeClient
<1>6. \A d \in Caller : step'[d] \in {"sent", "served"} => via'[d] \in Client /\ clientOf'[via'[d]] \in Account
  BY <1>1, <1>2, <1>3, <1>4 DEF TypeOK
<1>r. step'["register"] # "idle" => regKey' \in Key
  BY <1>1, CallerType DEF TypeOK, MakeClient
<1> QED BY <1>r, <1>1, <1>2, <1>4, <1>5, <1>6 DEF TypeOK, MakeClient, configVars, keyVars

LEMMA TypeServe ==
  ASSUME TypeOK, NEW c \in Caller, Serve(c)
  PROVE  TypeOK'
<1>1. /\ step' \in [Caller -> {"idle", "ready", "picked", "sent", "served", "answered"}]
      /\ \A d \in Caller : step'[d] = IF d = c THEN "served" ELSE step[d]
      /\ step[c] = "sent" /\ via[c] \in Client /\ clientOf[via[c]] \in Account
  BY DEF TypeOK, Serve, Goto
<1>2. PICK a \in ServedFor(via[c]) :
        /\ clientToken' = [clientToken EXCEPT ![via[c]] = a]
        /\ server' = IF c = "register"
                     THEN [server EXCEPT ![a] = (server[a] \ regPrev) \cup {regKey}]
                     ELSE server
        /\ mixed' = (mixed \/ (c = "register" /\ regKey \in mine /\ a # account))
  BY DEF Serve
<1>3. a \in Account
  BY <1>1 DEF ServedFor, TypeOK
<1>4. clientToken' \in [Client -> Account \cup {NONE}]
  BY <1>1, <1>2, <1>3 DEF TypeOK
<1>5. server' \in [Account -> SUBSET Key]
  BY <1>1, <1>2, <1>3 DEF TypeOK
<1>6. mixed' \in BOOLEAN
  BY <1>2 DEF TypeOK
<1>r. step'["register"] # "idle" => regKey' \in Key
  BY <1>1, CallerType DEF TypeOK, Serve
<1> QED BY <1>r, <1>1, <1>4, <1>5, <1>6 DEF TypeOK, Serve, configVars, keyVars

LEMMA TypeAnswer ==
  ASSUME TypeOK, NEW c \in Caller, NEW r \in {"ok", "rotate", "err"}, Answer(c, r)
  PROVE  TypeOK'
<1>1. /\ step' \in [Caller -> {"idle", "ready", "picked", "sent", "served", "answered"}]
      /\ \A d \in Caller : step'[d] = IF d = c THEN "answered" ELSE step[d]
      /\ step[c] \in {"sent", "served"} /\ via[c] \in Client
  BY DEF TypeOK, Answer
<1>2. /\ via' \in [Caller -> Client \cup {NONE}]
      /\ \A d \in Caller : d # c => via'[d] = via[d]
      /\ answer' \in [Caller -> {"none", "ok", "rotate", "err"}]
      /\ token' \in Account \cup {NONE}
  BY <1>1 DEF TypeOK, Answer
<1>3. /\ \A d \in Caller : via'[d] \in InUse'
      /\ cached' \in InUse'
  BY DEF InUse
<1>4. /\ clientOf' \in [Client -> Account \cup {NONE}]
      /\ clientToken' \in [Client -> Account \cup {NONE}]
      /\ \A i \in Client : i \in InUse' => clientOf'[i] = clientOf[i]
  BY DropType DEF Answer
<1>5. \A d \in Caller : step'[d] \in {"sent", "served"} => via'[d] \in Client /\ clientOf'[via'[d]] \in Account
  BY <1>1, <1>2, <1>3, <1>4 DEF TypeOK
<1>6. cached' # NONE => clientOf'[cached'] \in Account
  BY <1>3, <1>4 DEF TypeOK, Answer
<1> QED BY <1>1, <1>2, <1>4, <1>5, <1>6 DEF TypeOK, Answer, keyVars, historyVars

LEMMA TypeFinish ==
  ASSUME TypeOK, NEW c \in Caller, Finish(c)
  PROVE  TypeOK'
<1>1. /\ step' \in [Caller -> {"idle", "ready", "picked", "sent", "served", "answered"}]
      /\ \A d \in Caller : step'[d] = IF d = c THEN "idle" ELSE step[d]
  BY DEF TypeOK, Finish, Goto
<1>2. /\ regKey' \in Key \cup {NONE} /\ regPrev' \in SUBSET Key
      /\ step'["register"] # "idle" => regKey' = regKey /\ step["register"] # "idle"
  BY <1>1, ForgetType, CallerType DEF Finish
<1>3. answer' \in [Caller -> {"none", "ok", "rotate", "err"}]
  BY DEF TypeOK, Finish
<1>4. /\ key' \in Key \cup {NONE} /\ secret' \in BOOLEAN /\ registered' \in BOOLEAN
      /\ old' \in SUBSET Key /\ made' \in SUBSET Key /\ mine' \in SUBSET Key
  <2>1. CASE answer[c] = "ok" /\ c = "register"
    BY <2>1 DEF Finish, Registered, TypeOK
  <2>2. CASE answer[c] = "rotate"
    <3>1. PICK k \in Key : RotateTo(k)
      BY <2>2 DEF Finish
    <3> QED BY <3>1, RotateType
  <2>3. CASE ~(answer[c] = "ok" /\ c = "register") /\ answer[c] # "rotate"
    BY <2>3 DEF Finish, keyVars, TypeOK
  <2> QED BY <2>1, <2>2, <2>3
<1> QED BY <1>1, <1>2, <1>3, <1>4 DEF TypeOK, Finish, configVars, clientVars, historyVars

LEMMA TypeRestart ==
  ASSUME TypeOK, Restart
  PROVE  TypeOK'
<1>1. /\ clientOf' \in [Client -> Account \cup {NONE}]
      /\ clientToken' \in [Client -> Account \cup {NONE}]
  BY DropType DEF Restart
<1> QED BY <1>1, CallerType DEF TypeOK, Restart, configVars, historyVars

LEMMA TypeStutter ==
  ASSUME TypeOK, UNCHANGED vars
  PROVE  TypeOK'
BY DEF TypeOK, vars, configVars, keyVars, clientVars, callVars, historyVars

LEMMA TypeNext == TypeOK /\ [Next]_vars => TypeOK'
<1> SUFFICES ASSUME TypeOK, [Next]_vars PROVE TypeOK'
  OBVIOUS
<1>1. ASSUME NEW a \in Account, Login(a) PROVE TypeOK'
  BY <1>1, TypeSetAccountId DEF Login
<1>2. CASE Logout
  BY <1>2, TypeSetAccountId DEF Logout
<1>3. ASSUME NEW c \in Caller, Request(c) PROVE TypeOK'
  <2>1. CASE ReadAccount(c)
    BY <2>1, TypeReadAccount
  <2>2. CASE NotLoggedIn(c)
    BY <2>2, TypeNotLoggedIn
  <2>3. CASE CannotMakeClient(c)
    BY <2>3, TypeCannotMakeClient
  <2>4. CASE UseCachedClient(c)
    BY <2>4, TypeUseCachedClient
  <2>5. CASE \E i \in Client : MakeClient(c, i)
    BY <2>5, TypeMakeClient
  <2>6. CASE Serve(c)
    BY <2>6, TypeServe
  <2>7. CASE \E r \in {"ok", "rotate", "err"} : Answer(c, r)
    BY <2>7, TypeAnswer
  <2>8. CASE Finish(c)
    BY <2>8, TypeFinish
  <2> QED BY <1>3, <2>1, <2>2, <2>3, <2>4, <2>5, <2>6, <2>7, <2>8 DEF Request
<1> QED
  BY <1>1, <1>2, <1>3, TypeRotate, TypeSetApiUrl, TypeSetHostOrInterface, TypeNeedRegistration,
     TypeUseKeyPair, TypeRestart, TypeStutter DEF Next

-----------------------------------------------------------------------------
(* The keys *)

(* What a step does to the registration in flight: nothing, unless it is    *)
(* given up or finished.                                                    *)
CallsOn ==
  \/ /\ UNCHANGED <<regKey, regPrev>>
     /\ Served' => Served
  \/ regKey' = NONE /\ regPrev' = {} /\ ~Served'

(* A step that leaves the keys and the server alone. *)
LEMMA Quiet ==
  ASSUME TypeOK, KeyInv, CallsOn, UNCHANGED <<account, key, registered, old, made, mine, server, mixed>>
  PROVE  KeyInv'
<1>1. NONE \notin Key
  BY SessionConstants
<1>2. KeysAreFresh'
  BY DEF KeyInv, KeysAreFresh, CallsOn
<1>3. RegistrationIsOurs'
  BY <1>1 DEF KeyInv, RegistrationIsOurs, CallsOn, Kept, TypeOK
<1>4. ServedIsKnown'
  BY DEF KeyInv, ServedIsKnown, CallsOn
<1>5. RegisteredKeyIsKnown' /\ NoForgottenKey'
  BY DEF KeyInv, RegisteredKeyIsKnown, NoForgottenKey, Kept
<1> QED BY <1>2, <1>3, <1>4, <1>5 DEF KeyInv

(* A rotation: the new key is one the server and the registration in flight *)
(* have never heard of.                                                     *)
LEMMA RotationIsSafe ==
  ASSUME TypeOK, KeyInv, CallsOn, NEW k \in Key, RotateTo(k), UNCHANGED <<account, server, mixed>>
  PROVE  KeyInv'
<1>1. /\ k # NONE /\ NONE \notin Key
      /\ k \notin made /\ k \notin mine /\ k \notin old /\ k \notin regPrev /\ k # regKey
      /\ \A a \in Account : k \notin server[a]
  BY SessionConstants DEF KeyInv, KeysAreFresh, RotateTo
<1>2. /\ Kept' = Kept \cup {k} /\ Kept \subseteq made /\ k \notin Kept
  BY <1>1 DEF Kept, RotateTo, KeyInv, KeysAreFresh
<1>3. KeysAreFresh'
  BY <1>1, <1>2 DEF KeyInv, KeysAreFresh, RotateTo, CallsOn
<1>4. RegistrationIsOurs'
  BY <1>1, <1>2 DEF KeyInv, RegistrationIsOurs, RotateTo, CallsOn, TypeOK
<1>5. ServedIsKnown'
  BY <1>1 DEF KeyInv, ServedIsKnown, RotateTo, CallsOn
<1>6. RegisteredKeyIsKnown'
  BY DEF RegisteredKeyIsKnown, RotateTo
<1>7. NoForgottenKey'
  <2> SUFFICES ASSUME account # NONE, ~mixed PROVE server[account] \cap mine' \subseteq Kept'
    BY DEF NoForgottenKey
  <2>1. server[account] \cap mine \subseteq Kept /\ k \notin server[account]
    BY <1>1 DEF KeyInv, NoForgottenKey, TypeOK
  <2> QED BY <1>2, <2>1 DEF RotateTo
<1> QED BY <1>3, <1>4, <1>5, <1>6, <1>7 DEF KeyInv

LEMMA EnsureIsSafe ==
  ASSUME TypeOK, KeyInv, CallsOn, EnsureKeyPair, UNCHANGED <<account, server, mixed>>
  PROVE  KeyInv'
<1>1. CASE key # NONE /\ secret
  BY <1>1, Quiet DEF EnsureKeyPair, keyVars
<1>2. CASE ~(key # NONE /\ secret)
  BY <1>2, RotationIsSafe DEF EnsureKeyPair
<1> QED BY <1>1, <1>2

(* A login or logout *)
LEMMA KeysSetAccountId ==
  ASSUME TypeOK, KeyInv, NEW a \in Account \cup {NONE}, NEW t \in Account \cup {NONE}, SetAccountId(a, t)
  PROVE  KeyInv'
<1>1. UNCHANGED <<step, answer, regKey, regPrev, server>> /\ (Served' <=> Served)
  BY DEF SetAccountId, callVars, Served
<1>2. CASE a = account
  BY <1>1, <1>2, Quiet DEF SetAccountId, keyVars, CallsOn
<1>3. CASE a # account
  <2>1. /\ key' = NONE /\ registered' = FALSE /\ old' = {} /\ made' = made /\ mine' = {} /\ mixed' = FALSE
        /\ NONE \notin Key
    BY <1>3, SessionConstants DEF SetAccountId
  <2>2. KeysAreFresh'
    BY <1>1, <2>1 DEF KeyInv, KeysAreFresh
  <2>3. RegistrationIsOurs'
    BY <1>1, <2>1 DEF KeyInv, RegistrationIsOurs, TypeOK
  <2>4. ServedIsKnown'
    BY <1>1, <2>1 DEF KeyInv, ServedIsKnown
  <2>5. RegisteredKeyIsKnown' /\ NoForgottenKey'
    BY <2>1 DEF RegisteredKeyIsKnown, NoForgottenKey
  <2> QED BY <2>2, <2>3, <2>4, <2>5 DEF KeyInv
<1> QED BY <1>2, <1>3

LEMMA KeysRotate ==
  ASSUME TypeOK, KeyInv, Rotate \/ SetApiUrl
  PROVE  KeyInv'
<1>1. UNCHANGED <<account, server, mixed, step, answer, regKey, regPrev>>
  BY DEF Rotate, SetApiUrl, configVars, callVars, historyVars
<1>2. CallsOn
  BY <1>1 DEF CallsOn, Served
<1>3. PICK k \in Key : RotateTo(k)
  BY DEF Rotate, SetApiUrl
<1> QED BY <1>1, <1>2, <1>3, RotationIsSafe

(* The registration starts: it takes the current key and the old ones. *)
LEMMA KeysNeedRegistration ==
  ASSUME TypeOK, KeyInv, NeedRegistration
  PROVE  KeyInv'
<1>1. /\ EnsureKeyPair /\ UNCHANGED <<account, server, mixed, answer>> /\ step["register"] = "idle"
  BY DEF NeedRegistration, configVars, historyVars
<1>2. CASE registered'
  <2>1. CallsOn
    BY <1>1, <1>2 DEF NeedRegistration, CallsOn, Served
  <2> QED BY <1>1, <2>1, EnsureIsSafe
<1>3. CASE ~registered'
  <2>1. /\ step'["register"] = "ready" /\ regKey' = key' /\ regPrev' = old'
    BY <1>3, CallerType DEF NeedRegistration, TypeOK
  <2>2. ~Served'
    BY <2>1 DEF Served
  <2>3. /\ key' \in Key /\ key' \in mine' /\ key' \notin old' /\ mine' \subseteq made' /\ old' \subseteq made'
        /\ \A a \in Account : server'[a] \subseteq made'
        /\ account # NONE /\ ~mixed => server[account] \cap mine' \subseteq Kept'
    <3>1. CASE key # NONE /\ secret
      BY <1>1, <3>1 DEF EnsureKeyPair, keyVars, KeyInv, KeysAreFresh, NoForgottenKey, Kept, TypeOK
    <3>2. CASE ~(key # NONE /\ secret)
      <4>1. PICK k \in Key : RotateTo(k)
        BY <1>1, <3>2 DEF EnsureKeyPair
      <4>2. /\ k \notin made /\ key' = k /\ old' = Kept /\ made' = made \cup {k} /\ mine' = mine \cup {k}
        BY <4>1 DEF RotateTo
      <4>3. Kept' = Kept \cup {k} /\ Kept \subseteq made
        BY <4>2, SessionConstants DEF Kept, KeyInv, KeysAreFresh
      <4>4. account # NONE /\ ~mixed => server[account] \cap mine' \subseteq Kept'
        BY <4>2, <4>3 DEF KeyInv, KeysAreFresh, NoForgottenKey, TypeOK
      <4> QED BY <1>1, <4>2, <4>3, <4>4 DEF KeyInv, KeysAreFresh
    <3> QED BY <3>1, <3>2
  <2>4. KeysAreFresh'
    BY <2>1, <2>3 DEF KeysAreFresh
  <2>5. RegistrationIsOurs'
    BY <2>1, <2>3, SessionConstants DEF RegistrationIsOurs, Kept
  <2>6. ServedIsKnown' /\ RegisteredKeyIsKnown' /\ NoForgottenKey'
    BY <1>1, <1>3, <2>2, <2>3 DEF ServedIsKnown, RegisteredKeyIsKnown, NoForgottenKey
  <2> QED BY <2>4, <2>5, <2>6 DEF KeyInv
<1> QED BY <1>2, <1>3

LEMMA KeysUseKeyPair ==
  ASSUME TypeOK, KeyInv, UseKeyPair
  PROVE  KeyInv'
<1>1. EnsureKeyPair /\ UNCHANGED <<account, server, mixed, answer, regKey, regPrev>>
  BY DEF UseKeyPair, configVars, historyVars
<1>2. step'["register"] = step["register"]
  BY CallerType DEF UseKeyPair, Goto, TypeOK
<1> QED BY <1>1, <1>2, EnsureIsSafe DEF CallsOn, Served

(* The server serves the registration. *)
LEMMA KeysServe ==
  ASSUME TypeOK, KeyInv, Serve("register")
  PROVE  KeyInv'
<1>1. /\ UNCHANGED <<account, key, registered, old, made, mine, regKey, regPrev>>
      /\ regKey \in Key /\ Kept' = Kept
  BY CallerType DEF Serve, Goto, configVars, keyVars, TypeOK, Kept
<1>2. PICK a \in ServedFor(via["register"]) :
        /\ server' = [server EXCEPT ![a] = (server[a] \ regPrev) \cup {regKey}]
        /\ mixed' = (mixed \/ (regKey \in mine /\ a # account))
  BY DEF Serve
<1>3. a \in Account
  BY CallerType DEF Serve, Goto, ServedFor, TypeOK
<1>4. /\ server'[a] = (server[a] \ regPrev) \cup {regKey}
      /\ \A b \in Account : b # a => server'[b] = server[b]
  BY <1>2, <1>3 DEF TypeOK
<1>5. /\ ~mixed' => ~mixed
      /\ ~mixed' /\ regKey \in mine => a = account
  BY <1>2 DEF TypeOK
<1>6. NONE \notin Account /\ NONE \notin Key
  BY SessionConstants
<1>7. KeysAreFresh'
  BY <1>1, <1>3, <1>4, <1>6 DEF KeyInv, KeysAreFresh
<1>8. RegistrationIsOurs'
  BY <1>1 DEF KeyInv, RegistrationIsOurs
<1>9. ServedIsKnown'
  <2>1. \E b \in Account : regKey \in server'[b]
    BY <1>3, <1>4
  <2>2. ~mixed' /\ regKey \in mine => account # NONE /\ regKey \in server'[account]
    BY <1>3, <1>4, <1>5, <1>6
  <2>3. ~mixed' /\ account # NONE => server'[account] \cap mine \cap regPrev = {}
    <3> SUFFICES ASSUME ~mixed', account # NONE PROVE server'[account] \cap mine \cap regPrev = {}
      OBVIOUS
    <3>1. CASE a = account
      BY <1>4, <3>1 DEF KeyInv, RegistrationIsOurs
    <3>2. CASE a # account
      BY <1>5, <3>2 DEF KeyInv, RegistrationIsOurs
    <3> QED BY <3>1, <3>2
  <2> QED BY <1>1, <2>1, <2>2, <2>3 DEF ServedIsKnown
<1>10. RegisteredKeyIsKnown'
  <2> SUFFICES ASSUME registered PROVE RegisteredKeyIsKnown'
    BY <1>1 DEF RegisteredKeyIsKnown
  <2>1. \A b \in Account : key \in server[b] => key \in server'[b]
    BY <1>4 DEF KeyInv, RegistrationIsOurs
  <2>2. \E b \in Account : key \in server'[b]
    BY <2>1 DEF KeyInv, RegisteredKeyIsKnown
  <2>3. ~mixed' => account # NONE /\ key \in server'[account]
    BY <1>5, <2>1 DEF KeyInv, RegisteredKeyIsKnown, TypeOK
  <2> QED BY <1>1, <2>2, <2>3 DEF RegisteredKeyIsKnown
<1>11. NoForgottenKey'
  <2> SUFFICES ASSUME account # NONE, ~mixed' PROVE server'[account] \cap mine \subseteq Kept
    BY <1>1 DEF NoForgottenKey
  <2>1. server[account] \cap mine \subseteq Kept
    BY <1>5 DEF KeyInv, NoForgottenKey
  <2>2. CASE a = account
    BY <1>4, <2>1, <2>2 DEF KeyInv, RegistrationIsOurs
  <2>3. CASE a # account
    BY <1>4, <2>1, <2>3 DEF TypeOK
  <2> QED BY <2>2, <2>3
<1> QED BY <1>7, <1>8, <1>9, <1>10, <1>11 DEF KeyInv

(* The registration ends. *)
LEMMA KeysFinish ==
  ASSUME TypeOK, KeyInv, NEW c \in Caller, Finish(c)
  PROVE  KeyInv'
<1>1. UNCHANGED <<account, server, mixed>>
  BY DEF Finish, configVars, historyVars
<1>2. /\ step' = [step EXCEPT ![c] = "idle"] /\ step[c] = "answered"
      /\ answer' = [answer EXCEPT ![c] = "none"]
  BY DEF Finish, Goto
<1>3. CallsOn
  <2>1. CASE c = "register"
    BY <1>2, <2>1, CallerType DEF Finish, Forget, CallsOn, Served, TypeOK
  <2>2. CASE c # "register"
    BY <1>2, <2>2, CallerType DEF Finish, Forget, CallsOn, Served, TypeOK
  <2> QED BY <2>1, <2>2
<1>4. CASE answer[c] = "rotate"
  <2>1. PICK k \in Key : RotateTo(k)
    BY <1>4 DEF Finish
  <2> QED BY <1>1, <1>3, <2>1, RotationIsSafe
<1>5. CASE answer[c] # "rotate" /\ ~(answer[c] = "ok" /\ c = "register")
  BY <1>1, <1>3, <1>5, Quiet DEF Finish, keyVars
<1>6. CASE answer[c] = "ok" /\ c = "register"
  <2>1. /\ registered' = (registered \/ regKey = key) /\ old' = old \ regPrev
        /\ UNCHANGED <<key, made, mine>>
        /\ regKey' = NONE /\ regPrev' = {} /\ ~Served' /\ Served /\ regKey \in Key
        /\ NONE \notin Key
    BY <1>2, <1>6, CallerType, SessionConstants DEF Finish, Registered, Forget, Served, TypeOK
  <2>2. KeysAreFresh'
    BY <1>1, <2>1 DEF KeyInv, KeysAreFresh
  <2>3. RegistrationIsOurs'
    BY <2>1 DEF RegistrationIsOurs, TypeOK
  <2>4. ServedIsKnown'
    BY <2>1 DEF ServedIsKnown
  <2>5. RegisteredKeyIsKnown'
    <3> SUFFICES ASSUME registered' PROVE RegisteredKeyIsKnown'
      BY DEF RegisteredKeyIsKnown
    <3>1. CASE registered
      BY <1>1, <2>1, <3>1 DEF KeyInv, RegisteredKeyIsKnown
    <3>2. CASE regKey = key
      BY <1>1, <2>1, <3>2 DEF KeyInv, KeysAreFresh, ServedIsKnown, RegisteredKeyIsKnown
    <3> QED BY <2>1, <3>1, <3>2
  <2>6. NoForgottenKey'
    <3> SUFFICES ASSUME account # NONE, ~mixed PROVE server[account] \cap mine \subseteq Kept'
      BY <1>1, <2>1 DEF NoForgottenKey
    <3>1. server[account] \cap mine \subseteq Kept /\ server[account] \cap mine \cap regPrev = {}
      BY <2>1 DEF KeyInv, NoForgottenKey, ServedIsKnown
    <3> QED BY <2>1, <3>1 DEF Kept
  <2> QED BY <2>2, <2>3, <2>4, <2>5, <2>6 DEF KeyInv
<1> QED BY <1>4, <1>5, <1>6

LEMMA KeysRequest ==
  ASSUME TypeOK, KeyInv, NEW c \in Caller, Request(c)
  PROVE  KeyInv'
<1>1. CASE ReadAccount(c) \/ UseCachedClient(c) \/ \E i \in Client : MakeClient(c, i)
  <2>1. /\ UNCHANGED <<account, key, registered, old, made, mine, server, mixed, answer, regKey, regPrev>>
        /\ step[c] \in {"ready", "picked"}
        /\ step' = [step EXCEPT ![c] = "picked"] \/ step' = [step EXCEPT ![c] = "sent"]
    BY <1>1 DEF ReadAccount, UseCachedClient, MakeClient, Goto, configVars, keyVars, historyVars
  <2>2. Served' => Served
    BY <2>1, CallerType DEF Served, TypeOK
  <2> QED BY <2>1, <2>2, Quiet DEF CallsOn
<1>2. CASE NotLoggedIn(c) \/ CannotMakeClient(c)
  <2>1. /\ UNCHANGED <<account, key, registered, old, made, mine, server, mixed, answer>>
        /\ step' = [step EXCEPT ![c] = "idle"] /\ Forget(c)
    BY <1>2 DEF NotLoggedIn, CannotMakeClient, Goto, configVars, keyVars, historyVars
  <2>2. CallsOn
    BY <2>1, CallerType DEF Forget, CallsOn, Served, TypeOK
  <2> QED BY <2>1, <2>2, Quiet
<1>3. CASE Serve(c) /\ c = "register"
  BY <1>3, KeysServe
<1>4. CASE Serve(c) /\ c # "register"
  <2>1. /\ UNCHANGED <<account, key, registered, old, made, mine, server, answer, regKey, regPrev>>
        /\ step' = [step EXCEPT ![c] = "served"]
    BY <1>4 DEF Serve, Goto, configVars, keyVars
  <2>2. mixed' = mixed
    BY <1>4 DEF Serve, TypeOK
  <2>3. Served' <=> Served
    BY <1>4, <2>1, CallerType DEF Served, TypeOK
  <2> QED BY <2>1, <2>2, <2>3, Quiet DEF CallsOn
<1>5. ASSUME NEW r \in {"ok", "rotate", "err"}, Answer(c, r) PROVE KeyInv'
  <2>1. /\ UNCHANGED <<account, key, registered, old, made, mine, server, mixed, regKey, regPrev>>
        /\ step' = [step EXCEPT ![c] = "answered"] /\ answer' = [answer EXCEPT ![c] = r]
        /\ step[c] \in {"sent", "served"} /\ r \in Answers(c)
    BY <1>5 DEF Answer, keyVars, historyVars
  <2>2. r = "ok" => step[c] = "served"
    BY <2>1 DEF Answers
  <2>3. Served' => Served
    BY <2>1, <2>2, CallerType DEF Served, TypeOK
  <2> QED BY <2>1, <2>3, Quiet DEF CallsOn
<1>6. CASE Finish(c)
  BY <1>6, KeysFinish
<1> QED BY <1>1, <1>2, <1>3, <1>4, <1>5, <1>6 DEF Request

LEMMA KeysNext == TypeOK /\ KeyInv /\ [Next]_vars => KeyInv'
<1> SUFFICES ASSUME TypeOK, KeyInv, [Next]_vars PROVE KeyInv'
  OBVIOUS
<1>1. ASSUME NEW a \in Account, Login(a) PROVE KeyInv'
  BY <1>1, KeysSetAccountId DEF Login
<1>2. CASE Logout
  BY <1>2, KeysSetAccountId DEF Logout
<1>3. CASE SetHostOrInterface
  BY <1>3, Quiet DEF SetHostOrInterface, CallsOn, Served, configVars, keyVars, callVars, historyVars
<1>4. CASE Restart
  <2>1. /\ UNCHANGED <<account, key, registered, old, made, mine, server, mixed>>
        /\ regKey' = NONE /\ regPrev' = {} /\ ~Served'
    BY <1>4, CallerType DEF Restart, configVars, historyVars, Served
  <2> QED BY <2>1, Quiet DEF CallsOn
<1>5. CASE UNCHANGED vars
  BY <1>5, Quiet DEF vars, configVars, keyVars, callVars, historyVars, CallsOn, Served
<1> QED
  BY <1>1, <1>2, <1>3, <1>4, <1>5, KeysRotate, KeysNeedRegistration, KeysUseKeyPair, KeysRequest DEF Next

LEMMA KeysInit == Init => KeyInv
<1> SUFFICES ASSUME Init PROVE KeyInv
  OBVIOUS
<1>1. ~Served
  BY CallerType DEF Init, Served
<1> QED
  BY <1>1, SessionConstants DEF Init, KeyInv, KeysAreFresh, RegistrationIsOurs, ServedIsKnown,
     RegisteredKeyIsKnown, NoForgottenKey

-----------------------------------------------------------------------------
(* The cached client *)

LEMMA ClientNext == TypeOK /\ ClientIsCurrentUnlessRaced /\ [Next]_vars => ClientIsCurrentUnlessRaced'
<1> SUFFICES ASSUME TypeOK, ClientIsCurrentUnlessRaced, [Next]_vars, cached' # NONE, ~raced'
             PROVE  clientOf'[cached'] = account'
  BY DEF ClientIsCurrentUnlessRaced
<1>1. ASSUME NEW a \in Account, Login(a) PROVE clientOf'[cached'] = account'
  BY <1>1 DEF Login, SetAccountId, ClearClient
<1>2. CASE Logout \/ SetApiUrl \/ SetHostOrInterface
  BY <1>2 DEF Logout, SetAccountId, SetApiUrl, SetHostOrInterface, ClearClient
<1>3. CASE UNCHANGED <<account, cached, clientOf, raced>>
  BY <1>3 DEF ClientIsCurrentUnlessRaced
<1>4. CASE Rotate \/ NeedRegistration \/ UseKeyPair
  BY <1>3, <1>4 DEF Rotate, NeedRegistration, UseKeyPair, configVars, clientVars, historyVars
<1>5. ASSUME NEW c \in Caller, Request(c) PROVE clientOf'[cached'] = account'
  <2>1. CASE ReadAccount(c) \/ NotLoggedIn(c) \/ CannotMakeClient(c) \/ UseCachedClient(c) \/ Finish(c)
    BY <1>3, <2>1 DEF ReadAccount, NotLoggedIn, CannotMakeClient, UseCachedClient, Finish,
                      configVars, clientVars, historyVars
  <2>2. ASSUME NEW i \in Client, MakeClient(c, i) PROVE clientOf'[cached'] = account'
    <3>1. /\ cached' = i /\ account' = account
          /\ clientOf' = [clientOf EXCEPT ![i] = who[c]]
          /\ raced' = (raced \/ who[c] # account)
      BY <2>2 DEF MakeClient, configVars
    <3>2. clientOf'[i] = who[c]
      BY <3>1 DEF TypeOK
    <3>3. who[c] = account
      BY <3>1 DEF TypeOK
    <3> QED BY <3>1, <3>2, <3>3
  <2>3. CASE Serve(c)
    BY <1>3, <2>3 DEF Serve, configVars
  <2>4. ASSUME NEW r \in {"ok", "rotate", "err"}, Answer(c, r) PROVE clientOf'[cached'] = account'
    <3>1. UNCHANGED <<account, cached, raced>> /\ DropUnheld
      BY <2>4 DEF Answer, historyVars
    <3>2. cached' \in InUse'
      BY DEF InUse
    <3>3. clientOf'[cached'] = clientOf[cached]
      BY <3>1, <3>2, DropType DEF TypeOK
    <3> QED BY <3>1, <3>3 DEF ClientIsCurrentUnlessRaced
  <2> QED BY <1>5, <2>1, <2>2, <2>3, <2>4 DEF Request
<1>6. CASE Restart
  BY <1>6 DEF Restart
<1>7. CASE UNCHANGED vars
  BY <1>3, <1>7 DEF vars, configVars, clientVars, historyVars
<1> QED BY <1>1, <1>2, <1>4, <1>5, <1>6, <1>7 DEF Next

-----------------------------------------------------------------------------
(* The theorems *)

LEMMA InvHolds == Spec => []Inv
<1>1. Init => Inv
  BY TypeInit, KeysInit DEF Inv, Init, ClientIsCurrentUnlessRaced
<1>2. Inv /\ [Next]_vars => Inv'
  BY TypeNext, KeysNext, ClientNext DEF Inv
<1> QED BY <1>1, <1>2, PTL DEF Spec

(* The types hold: set_account_id, the rotations and the requests never     *)
(* leave a sent request without a client made for an account.               *)
THEOREM SessionTypeCorrect == Spec => []TypeOK
<1>1. Inv => TypeOK
  BY DEF Inv
<1> QED BY <1>1, InvHolds, PTL

(* A key that registered has marked is one the server knows, for any number *)
(* of accounts, keys and clients.                                           *)
THEOREM RegistrationCorrect == Spec => []RegisteredKeyIsKnown
<1>1. Inv => RegisteredKeyIsKnown
  BY DEF Inv, KeyInv
<1> QED BY <1>1, InvHolds, PTL

(* need_registration, registered and rotate_now_internal forget no key that *)
(* the server may still know.                                               *)
THEOREM KeysCorrect == Spec => []NoForgottenKey
<1>1. Inv => NoForgottenKey
  BY DEF Inv, KeyInv
<1> QED BY <1>1, InvHolds, PTL

(* Only the window between the two halves of api_client can leave a client  *)
(* of another account in the cache.                                         *)
THEOREM ClientCorrect == Spec => []ClientIsCurrentUnlessRaced
<1>1. Inv => ClientIsCurrentUnlessRaced
  BY DEF Inv
<1> QED BY <1>1, InvHolds, PTL
=============================================================================
