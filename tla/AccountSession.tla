--------------------------- MODULE AccountSession ---------------------------
(***************************************************************************)
(* Logins, requests to the API server and the WireGuard key: the parts of  *)
(* src/rustlib/src/client_state.rs and config/persistence.rs that several  *)
(* threads use at once.  A login or logout, a rotation of the key and the  *)
(* steps of requests in flight interleave freely: each closure given to    *)
(* ClientStateHandle::change is one step, and so is each read outside one. *)
(*                                                                         *)
(* The server is external: it knows the keys registered for an account and *)
(* serves a request on behalf of the account whose token it carries.  A    *)
(* request the client gave up on is not served afterwards.                 *)
(***************************************************************************)
EXTENDS Naturals

CONSTANTS
  Account,   (* accounts a user logs in to                  *)
  Key,       (* WireGuard key pairs, in place of random ones *)
  Client,    (* identities of API clients (Arc<Client>)     *)
  NONE       (* Option::None                                *)

ASSUME SessionConstants == NONE \notin Account \cup Key \cup Client

VARIABLES
  account,       (* Config.account_id                                         *)
  token,         (* Config.cached_auth_token, as the account it was issued to *)
  key,           (* the public key of Config.wireguard_key_cache              *)
  secret,        (* its secret key is at hand                                 *)
  registered,    (* registered_at is set                                      *)
  old,           (* old_public_keys                                           *)
  cached,        (* ClientState.cached_api_client                             *)
  clientOf,      (* the account each client was made for                      *)
  clientToken,   (* the token each client holds                               *)
  step,          (* where each caller is in its request                       *)
  who,           (* the account_id api_client has read for it                 *)
  via,           (* the client it sends the request with                      *)
  answer,        (* the result of its request                                 *)
  regKey,        (* the key need_registration returned to the registration    *)
  regPrev,       (* ... and the old keys                                      *)
  server,        (* the keys the server knows for each account                *)
  made,          (* history: every key made so far                            *)
  mine,          (* history: the keys made since the last login or logout     *)
  raced,         (* history: a client was made for an account other than the  *)
                 (* one logged in                                             *)
  mixed          (* history: a key of this login was registered on behalf of  *)
                 (* another account                                           *)

configVars  == <<account, token>>
keyVars     == <<key, secret, registered, old, made, mine>>
clientVars  == <<cached, clientOf, clientToken>>
callVars    == <<step, who, via, answer, regKey, regPrev>>
historyVars == <<raced, mixed>>
vars == <<configVars, keyVars, clientVars, callVars, server, historyVars>>

(* The registration task and the tunnel task in connect().  The request of  *)
(* a command of a user interface does to this state what one of connect()   *)
(* does that finds a key and is not asked to rotate it.                     *)
Caller == {"register", "connect"}

-----------------------------------------------------------------------------
Init ==
  /\ account = NONE /\ token = NONE
  /\ key = NONE /\ secret = FALSE /\ registered = FALSE /\ old = {}
  /\ cached = NONE
  /\ clientOf = [i \in Client |-> NONE] /\ clientToken = [i \in Client |-> NONE]
  /\ step = [c \in Caller |-> "idle"]
  /\ who = [c \in Caller |-> NONE]
  /\ via = [c \in Caller |-> NONE]
  /\ answer = [c \in Caller |-> "none"]
  /\ regKey = NONE /\ regPrev = {}
  /\ server = [a \in Account |-> {}]
  /\ made = {} /\ mine = {}
  /\ raced = FALSE /\ mixed = FALSE

(* The operators named Faulty... are what follows them with a mistake in    *)
(* it; no specification uses them.                                          *)

(* A client is gone when neither the cache nor a request holds it. *)
InUse == {cached} \cup {via[c] : c \in Caller}

FaultyDropUnheld ==
  /\ clientOf' = [i \in Client |-> IF i = cached' THEN clientOf[i] ELSE NONE]
  /\ clientToken' = [i \in Client |-> IF i = cached' THEN clientToken[i] ELSE NONE]

DropUnheld ==
  /\ clientOf' = [i \in Client |-> IF i \in InUse' THEN clientOf[i] ELSE NONE]
  /\ clientToken' = [i \in Client |-> IF i \in InUse' THEN clientToken[i] ELSE NONE]

-----------------------------------------------------------------------------
(* WireGuardKeyCache *)

Kept == old \cup ({key} \ {NONE})

(* rotate_now_internal *)
FaultyRotateTo(k) ==
  /\ k \notin made
  /\ key' = k /\ secret' = TRUE /\ registered' = FALSE
  /\ old' = {key} \ {NONE}
  /\ made' = made \cup {k} /\ mine' = mine \cup {k}

RotateTo(k) ==
  /\ k \notin made
  /\ key' = k /\ secret' = TRUE /\ registered' = FALSE
  /\ old' = Kept
  /\ made' = made \cup {k} /\ mine' = mine \cup {k}

(* ensure_key_pair *)
EnsureKeyPair ==
  IF key # NONE /\ secret THEN UNCHANGED keyVars ELSE \E k \in Key : RotateTo(k)

(* registered: the answer counts only for the key it was asked for. *)
FaultyRegistered == TRUE

Registered == registered \/ regKey = key

(* RotateWgKey, and rotate_if_required on the way to disconnected *)
Rotate ==
  /\ \E k \in Key : RotateTo(k)
  /\ UNCHANGED <<configVars, clientVars, callVars, server, historyVars>>

-----------------------------------------------------------------------------
(* Logins and changes of settings *)

FaultyClearClient == UNCHANGED clientVars

ClearClient == cached' = NONE /\ DropUnheld

(* set_account_id: another account, or none, resets the configuration. *)
SetAccountId(a, t) ==
  /\ account' = a
  /\ token' = t
  /\ IF a # account
     THEN /\ key' = NONE /\ secret' = FALSE /\ registered' = FALSE /\ old' = {}
          /\ made' = made /\ mine' = {}
          /\ mixed' = FALSE
     ELSE UNCHANGED <<keyVars, mixed>>
  /\ UNCHANGED <<callVars, server, raced>>
  /\ ClearClient

(* login, with the token acquired to validate the account or without *)
Login(a) == \E t \in {a, NONE} : SetAccountId(a, t)

Logout == SetAccountId(NONE, NONE)

SetApiUrl ==
  /\ \E k \in Key : RotateTo(k)
  /\ UNCHANGED <<configVars, callVars, server, historyVars>>
  /\ ClearClient

(* set_api_host_alternate, and set_network_interface with another interface *)
SetHostOrInterface ==
  /\ cached # NONE
  /\ UNCHANGED <<configVars, keyVars, callVars, server, historyVars>>
  /\ ClearClient

-----------------------------------------------------------------------------
(* A request *)

Goto(c, from, to) == step[c] = from /\ step' = [step EXCEPT ![c] = to]

(* A caller that is done holds no keys. *)
Forget(c) ==
  IF c = "register" THEN regKey' = NONE /\ regPrev' = {} ELSE UNCHANGED <<regKey, regPrev>>

(* The registration asks for a key that is not registered yet. *)
NeedRegistration ==
  /\ step["register"] = "idle"
  /\ EnsureKeyPair
  /\ IF registered' THEN UNCHANGED <<step, regKey, regPrev>>
     ELSE /\ step' = [step EXCEPT !["register"] = "ready"]
          /\ regKey' = key' /\ regPrev' = old'
  /\ UNCHANGED <<configVars, clientVars, who, via, answer, server, historyVars>>

UseKeyPair ==
  /\ Goto("connect", "idle", "ready")
  /\ EnsureKeyPair
  /\ UNCHANGED <<configVars, clientVars, who, via, answer, regKey, regPrev, server, historyVars>>

(* api_client: first the account is read ... *)
ReadAccount(c) ==
  /\ account # NONE
  /\ Goto(c, "ready", "picked")
  /\ who' = [who EXCEPT ![c] = account]
  /\ UNCHANGED <<configVars, keyVars, clientVars, via, answer, regKey, regPrev, server, historyVars>>

NotLoggedIn(c) ==
  /\ account = NONE
  /\ Goto(c, "ready", "idle")
  /\ Forget(c)
  /\ UNCHANGED <<configVars, keyVars, clientVars, who, via, answer, server, historyVars>>

(* ... and then, in a step of its own, the client is taken from the cache   *)
(* or made for the account that was read.                                   *)
UseCachedClient(c) ==
  /\ cached # NONE
  /\ Goto(c, "picked", "sent")
  /\ via' = [via EXCEPT ![c] = cached]
  /\ who' = [who EXCEPT ![c] = NONE]
  /\ UNCHANGED <<configVars, keyVars, clientVars, answer, regKey, regPrev, server, historyVars>>

CannotMakeClient(c) ==
  /\ cached = NONE
  /\ Goto(c, "picked", "idle")
  /\ who' = [who EXCEPT ![c] = NONE]
  /\ Forget(c)
  /\ UNCHANGED <<configVars, keyVars, clientVars, via, answer, server, historyVars>>

MakeClient(c, i) ==
  /\ cached = NONE
  /\ i \notin InUse
  /\ Goto(c, "picked", "sent")
  /\ via' = [via EXCEPT ![c] = i]
  /\ cached' = i
  /\ clientOf' = [clientOf EXCEPT ![i] = who[c]]
  /\ clientToken' = [clientToken EXCEPT ![i] = token]
  /\ raced' = (raced \/ who[c] # account)
  /\ who' = [who EXCEPT ![c] = NONE]
  /\ UNCHANGED <<configVars, keyVars, answer, regKey, regPrev, server, mixed>>

(* The account a request is served for: that of the client's token, or its  *)
(* own after it acquired a token.                                           *)
ServedFor(i) == {clientOf[i]} \cup ({clientToken[i]} \ {NONE})

(* The server serves the request: CacheWgKey registers a key and forgets    *)
(* the previous ones.                                                       *)
Serve(c) ==
  /\ Goto(c, "sent", "served")
  /\ \E a \in ServedFor(via[c]) :
       /\ clientToken' = [clientToken EXCEPT ![via[c]] = a]
       /\ server' = IF c = "register"
                    THEN [server EXCEPT ![a] = (server[a] \ regPrev) \cup {regKey}]
                    ELSE server
       /\ mixed' = (mixed \/ (c = "register" /\ regKey \in mine /\ a # account))
  /\ UNCHANGED <<configVars, keyVars, cached, clientOf, who, via, answer, regKey, regPrev, raced>>

(* The request ends, with or without an answer, and api_request caches the  *)
(* token its client holds.                                                  *)
Answers(c) == IF step[c] = "served" THEN {"ok", "err"} ELSE {"rotate", "err"}

Answer(c, r) ==
  /\ step[c] \in {"sent", "served"}
  /\ r \in Answers(c)
  /\ step' = [step EXCEPT ![c] = "answered"]
  /\ answer' = [answer EXCEPT ![c] = r]
  /\ token' = clientToken[via[c]]
  /\ via' = [via EXCEPT ![c] = NONE]
  /\ UNCHANGED <<account, keyVars, cached, who, regKey, regPrev, server, historyVars>>
  /\ DropUnheld

(* What the caller does with the answer: mark the key as registered, rotate *)
(* it when the server says so, or nothing.                                  *)
Finish(c) ==
  /\ Goto(c, "answered", "idle")
  /\ CASE answer[c] = "ok" /\ c = "register" ->
            /\ registered' = Registered
            /\ old' = old \ regPrev
            /\ UNCHANGED <<key, secret, made, mine>>
       [] answer[c] = "rotate" -> \E k \in Key : RotateTo(k)
       [] OTHER -> UNCHANGED keyVars
  /\ answer' = [answer EXCEPT ![c] = "none"]
  /\ Forget(c)
  /\ UNCHANGED <<configVars, clientVars, who, via, server, historyVars>>

(* The process dies and starts again from the configuration it saved, with  *)
(* or without the secret key.                                               *)
Restart ==
  /\ secret' \in BOOLEAN
  /\ secret' => key # NONE
  /\ cached' = NONE
  /\ step' = [c \in Caller |-> "idle"]
  /\ who' = [c \in Caller |-> NONE]
  /\ via' = [c \in Caller |-> NONE]
  /\ answer' = [c \in Caller |-> "none"]
  /\ regKey' = NONE /\ regPrev' = {}
  /\ UNCHANGED <<configVars, key, registered, old, made, mine, server, historyVars>>
  /\ DropUnheld

Request(c) ==
  \/ ReadAccount(c) \/ NotLoggedIn(c) \/ CannotMakeClient(c) \/ UseCachedClient(c)
  \/ \E i \in Client : MakeClient(c, i)
  \/ Serve(c)
  \/ \E r \in {"ok", "rotate", "err"} : Answer(c, r)
  \/ Finish(c)

Next ==
  \/ \E a \in Account : Login(a)
  \/ Logout
  \/ Rotate \/ SetApiUrl \/ SetHostOrInterface
  \/ NeedRegistration \/ UseKeyPair
  \/ \E c \in Caller : Request(c)
  \/ Restart

Spec == Init /\ [][Next]_vars

-----------------------------------------------------------------------------
(* Properties *)

(* Every variable has its type; a request that was sent has a client that   *)
(* was made for an account.                                                 *)
TypeOK ==
  /\ account \in Account \cup {NONE}
  /\ token \in Account \cup {NONE}
  /\ key \in Key \cup {NONE}
  /\ secret \in BOOLEAN /\ registered \in BOOLEAN
  /\ old \in SUBSET Key
  /\ cached \in Client \cup {NONE}
  /\ clientOf \in [Client -> Account \cup {NONE}]
  /\ clientToken \in [Client -> Account \cup {NONE}]
  /\ step \in [Caller -> {"idle", "ready", "picked", "sent", "served", "answered"}]
  /\ who \in [Caller -> Account \cup {NONE}]
  /\ via \in [Caller -> Client \cup {NONE}]
  /\ answer \in [Caller -> {"none", "ok", "rotate", "err"}]
  /\ regKey \in Key \cup {NONE} /\ regPrev \in SUBSET Key
  /\ server \in [Account -> SUBSET Key]
  /\ made \in SUBSET Key /\ mine \in SUBSET Key
  /\ raced \in BOOLEAN /\ mixed \in BOOLEAN
  /\ \A c \in Caller :
       /\ step[c] = "picked" => who[c] \in Account
       /\ step[c] \in {"sent", "served"} => via[c] \in Client /\ clientOf[via[c]] \in Account
  /\ cached # NONE => clientOf[cached] \in Account
  /\ step["register"] # "idle" => regKey \in Key

(* A key marked as registered is one the server knows, for the account      *)
(* logged in: whatever rotation, login or restart happened while the        *)
(* registration was in flight.                                              *)
RegisteredKeyIsKnown ==
  registered =>
    /\ \E a \in Account : key \in server[a]
    /\ ~mixed => account # NONE /\ key \in server[account]

(* Every key of this login that the server knows for the account is the     *)
(* current one or still on the list of keys to be removed: no rotation,     *)
(* lost answer or restart leaves a forgotten key at the server.             *)
NoForgottenKey ==
  account # NONE /\ ~mixed => server[account] \cap mine \subseteq Kept

(* The cached client is one for the account logged in, unless a client was  *)
(* made for an account read before a login.                                 *)
ClientIsCurrentUnlessRaced ==
  cached # NONE /\ ~raced => clientOf[cached] = account

(* "Clearing cached API client: account ID or auth token changed": a login  *)
(* leaves no client of another account in the cache.                        *)
ClientIsCurrent == cached # NONE => clientOf[cached] = account

(* A token does not persist on logout: set_account_id does not name it.     *)
LoggedOutHasNoToken == account = NONE => token = NONE
=============================================================================
