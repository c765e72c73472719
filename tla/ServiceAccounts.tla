--------------------------- MODULE ServiceAccounts ---------------------------
(***************************************************************************)
(* IAM service accounts: IAMBackend under the gRPC worker threads of       *)
(* IAMEmulator, with no lock, from the creation of the backend by the      *)
(* first RPC.  A thread can give way to another at a call; each step here  *)
(* runs from one such point to the next.                                   *)
(***************************************************************************)
EXTENDS Naturals, Sequences

CONSTANTS
  SaWorkers, SaEmails,
  SaMaxCalls      \* bound: RPCs

VARIABLES
  saBackend,      \* BackendDict has a backend for the project
  accounts,       \* all ServiceAccounts it has had
  serviceAccounts,\* email -> number of a ServiceAccount
  uniqueIds,      \* unique id -> email
  uidSeq,
  keyCounter,
  saw,            \* worker -> the call it serves
  saCalls,
  saContested,    \* ghost: emails two calls created or deleted at once
  saGiven         \* ghost: email -> unique id its creator was told, until deleted

saTables == <<accounts, serviceAccounts, uniqueIds, uidSeq, keyCounter>>
saGhosts == <<saContested, saGiven>>
saVars   == <<saBackend, saTables, saw, saCalls, saGhosts>>

SaWith(f, x, v) == [y \in DOMAIN f \union {x} |-> IF y = x THEN v ELSE f[y]]
SaDrop(f, x)    == [y \in DOMAIN f \ {x} |-> f[y]]
SaIdle == [at |-> "idle"]
SaOutside == {"idle", "first", "race", "ready", "lost"}   \* not yet or no longer at work on accounts

ServiceAccountsInit ==
  /\ saBackend = FALSE
  /\ accounts = <<>> /\ serviceAccounts = [e \in {} |-> 0] /\ uniqueIds = [u \in {} |-> 0]
  /\ uidSeq = 0 /\ keyCounter = 0 /\ saw = [w \in SaWorkers |-> SaIdle]
  /\ saCalls = 0 /\ saContested = {} /\ saGiven = [e \in {} |-> 0]

------------------------------------------------------------------------------
(* BackendDict.__getitem__, which every RPC calls first: check, create,    *)
(* assign.  "race" is a creation with another one at work.                 *)
SaCreators == {w \in SaWorkers : saw[w].at \in {"first", "race"}}
SaCall(w) ==
  /\ ~saBackend /\ saw[w] = SaIdle
  /\ saCalls < SaMaxCalls /\ saCalls' = saCalls + 1
  /\ saw' = [v \in SaWorkers |->
       IF v \in SaCreators \union {w}
       THEN [at |-> IF SaCreators = {} THEN "first" ELSE "race"] ELSE saw[v]]
  /\ UNCHANGED <<saBackend, saTables, saGhosts>>

(* A later creation takes everything from an earlier one: the accounts so  *)
(* far, and the backend that calls under way work on.                      *)
SaNewBackend(w) ==
  /\ w \in SaCreators /\ saBackend' = TRUE
  /\ accounts' = <<>> /\ serviceAccounts' = [e \in {} |-> 0] /\ uniqueIds' = [u \in {} |-> 0]
  /\ uidSeq' = 0 /\ keyCounter' = 0
  /\ saw' = [v \in SaWorkers |->
       IF v = w THEN [at |-> "ready"]
       ELSE IF saw[v].at \in SaOutside THEN saw[v] ELSE [at |-> "lost"]]
  /\ IF saw[w].at = "race" THEN saContested' = {} /\ saGiven' = [e \in {} |-> 0]
                           ELSE UNCHANGED saGhosts
  /\ UNCHANGED saCalls

(* The rest of a call on a backend nobody will find again *)
SaLost(w) ==
  /\ saw[w].at = "lost" /\ saw' = [saw EXCEPT ![w] = SaIdle]
  /\ UNCHANGED <<saBackend, saTables, saCalls, saGhosts>>

------------------------------------------------------------------------------
(* Workers creating or deleting e *)
SaBusy(e) == {w \in SaWorkers : /\ saw[w].at \notin SaOutside
                                /\ saw[w].op \in {"create", "delete"} /\ saw[w].email = e}

(* A call begins, holding what the record call says. *)
SaBegin(w, call) ==
  /\ \/ saw[w] = SaIdle /\ saBackend /\ saCalls < SaMaxCalls /\ saCalls' = saCalls + 1
     \/ saw[w].at = "ready" /\ UNCHANGED saCalls
  /\ saw' = [saw EXCEPT ![w] = call]
  /\ saContested' = IF call.op \in {"create", "delete"} /\ SaBusy(call.email) # {}
                    THEN saContested \union {call.email} ELSE saContested
  /\ UNCHANGED <<saBackend, saGiven>>

(* create_service_account, up to ServiceAccount(...) *)
SaCreate(w, e) ==
  /\ e \notin DOMAIN serviceAccounts /\ uidSeq' = uidSeq + 1
  /\ SaBegin(w, [at |-> "create", op |-> "create", email |-> e, uid |-> uidSeq'])
  /\ UNCHANGED <<accounts, serviceAccounts, uniqueIds, keyCounter>>

SaAccount(e, uid) == [email |-> e, uid |-> uid, disabled |-> FALSE, keys |-> {}]

(* ... and after: it does not look whether the email is still free. *)
SaInsert(w) ==
  /\ saw[w].at = "create"
  /\ accounts' = Append(accounts, SaAccount(saw[w].email, saw[w].uid))
  /\ serviceAccounts' = SaWith(serviceAccounts, saw[w].email, Len(accounts'))
  /\ uniqueIds' = SaWith(uniqueIds, saw[w].uid, saw[w].email)
  /\ saGiven' = SaWith(saGiven, saw[w].email, saw[w].uid)
  /\ saw' = [saw EXCEPT ![w] = SaIdle]
  /\ UNCHANGED <<saBackend, uidSeq, keyCounter, saCalls, saContested>>

SaOps == {"delete", "disable", "enable", "create_key", "delete_key"}

(* _resolve: by email in one go, by unique id with a pause in between *)
SaResolveEmail(w, op, e) ==
  /\ e \in DOMAIN serviceAccounts
  /\ SaBegin(w, [at |-> "held", op |-> op, email |-> e, account |-> serviceAccounts[e]])
  /\ UNCHANGED saTables
SaResolveUid(w, op, u) ==
  /\ u \in DOMAIN uniqueIds
  /\ SaBegin(w, [at |-> "lookup", op |-> op, email |-> uniqueIds[u]])
  /\ UNCHANGED saTables
SaLookup(w) ==
  /\ saw[w].at = "lookup"
  /\ saw' = [saw EXCEPT ![w] =
       IF saw[w].email \in DOMAIN serviceAccounts
         THEN [at |-> "held", op |-> @.op, email |-> @.email, account |-> serviceAccounts[@.email]]
         ELSE SaIdle]                                                     \* KeyError
  /\ UNCHANGED <<saBackend, saTables, saCalls, saGhosts>>

(* delete_service_account: the id, then the account, if it is still there *)
SaKeepUid(uids, u) == uids                                                \* mutant
SaForget(uids, u)  == SaDrop(uids, u)
SaDeleteUid(w) ==
  /\ saw[w].at = "held" /\ saw[w].op = "delete"
  /\ uniqueIds' = SaForget(uniqueIds, accounts[saw[w].account].uid)
  /\ saw' = [saw EXCEPT ![w].at = "popped"]
  /\ UNCHANGED <<saBackend, accounts, serviceAccounts, uidSeq, keyCounter, saCalls, saGhosts>>
SaDeleteAccount(w) ==
  /\ saw[w].at = "popped"
  /\ serviceAccounts' = SaDrop(serviceAccounts, saw[w].email)
  /\ saGiven' = SaDrop(saGiven, saw[w].email)
  /\ saw' = [saw EXCEPT ![w] = SaIdle]
  /\ UNCHANGED <<saBackend, accounts, uniqueIds, uidSeq, keyCounter, saCalls, saContested>>

(* The other calls: what is left once the account is at hand.  create_key *)
(* pauses once more, after it has drawn its number.                       *)
SaFinish(w, changed) ==
  /\ accounts' = [accounts EXCEPT ![saw[w].account] = changed]
  /\ saw' = [saw EXCEPT ![w] = SaIdle]
  /\ UNCHANGED <<saBackend, serviceAccounts, uniqueIds, uidSeq, keyCounter, saCalls, saGhosts>>

SaSetDisabled(w) ==
  /\ saw[w].at = "held" /\ saw[w].op \in {"disable", "enable"}
  /\ SaFinish(w, [accounts[saw[w].account] EXCEPT !.disabled = saw[w].op = "disable"])
SaDeleteKey(w) ==
  /\ saw[w].at = "held" /\ saw[w].op = "delete_key"
  /\ \E k \in 1..keyCounter : SaFinish(w, [accounts[saw[w].account] EXCEPT !.keys = @ \ {k}])
SaDrawKey(w) ==
  /\ saw[w].at = "held" /\ saw[w].op = "create_key"
  /\ keyCounter' = keyCounter + 1
  /\ saw' = [saw EXCEPT ![w] = [at |-> "keyed", op |-> @.op, email |-> @.email,
                                account |-> @.account, key |-> keyCounter + 1]]
  /\ UNCHANGED <<saBackend, accounts, serviceAccounts, uniqueIds, uidSeq, saCalls, saGhosts>>
SaAddKey(w) ==
  /\ saw[w].at = "keyed"
  /\ SaFinish(w, [accounts[saw[w].account] EXCEPT !.keys = @ \union {saw[w].key}])

ServiceAccountsNext ==
  \E w \in SaWorkers :
    \/ SaCall(w) \/ SaNewBackend(w) \/ SaLost(w)
    \/ \E e \in SaEmails : SaCreate(w, e) \/ \E op \in SaOps : SaResolveEmail(w, op, e)
    \/ \E u \in 1..SaMaxCalls, op \in SaOps : SaResolveUid(w, op, u)
    \/ SaInsert(w) \/ SaLookup(w) \/ SaDeleteUid(w) \/ SaDeleteAccount(w)
    \/ SaSetDisabled(w) \/ SaDrawKey(w) \/ SaAddKey(w) \/ SaDeleteKey(w)

ServiceAccountsSpec == ServiceAccountsInit /\ [][ServiceAccountsNext]_saVars

------------------------------------------------------------------------------
ServiceAccountsTypeOK ==
  /\ \A a \in DOMAIN accounts :
       accounts[a] \in [email : SaEmails, uid : 1..uidSeq, disabled : BOOLEAN,
                        keys : SUBSET (1..keyCounter)]
  /\ DOMAIN serviceAccounts \subseteq SaEmails
  /\ \A e \in DOMAIN serviceAccounts : serviceAccounts[e] \in DOMAIN accounts
  /\ DOMAIN uniqueIds \subseteq 1..uidSeq /\ \A u \in DOMAIN uniqueIds : uniqueIds[u] \in SaEmails
  /\ DOMAIN saGiven \subseteq SaEmails
  /\ \A w \in SaWorkers :
       saw[w].at \in SaOutside \union {"create", "lookup", "held", "popped", "keyed"}

(* An email has the account last created for it and not deleted since,     *)
(* under the unique id its creator was told, and no unique id and no key   *)
(* belongs to two accounts.  The two tables agree: an email's account is   *)
(* found by its own id, and an id leads to the account that carries it,    *)
(* between calls and while threads resolve and change the account - unless *)
(* two calls create or delete that email at once.  Besides that, only a    *)
(* backend created while another was is excused: it takes the place of the *)
(* other with all its accounts, and its ids begin anew.                    *)
AccountsAgree ==
  /\ saGiven = [e \in DOMAIN serviceAccounts |-> accounts[serviceAccounts[e]].uid]
  /\ \A e \in SaEmails : (e \notin saContested /\ SaBusy(e) = {}) =>
       /\ e \in DOMAIN serviceAccounts =>
            LET u == accounts[serviceAccounts[e]].uid
            IN u \in DOMAIN uniqueIds /\ uniqueIds[u] = e
       /\ \A u \in DOMAIN uniqueIds : uniqueIds[u] = e =>
            e \in DOMAIN serviceAccounts /\ accounts[serviceAccounts[e]].uid = u
  /\ \A a, b \in DOMAIN accounts : a # b =>
       /\ accounts[a].uid # accounts[b].uid
       /\ accounts[a].keys \intersect accounts[b].keys = {}
  /\ \A e \in DOMAIN serviceAccounts : accounts[serviceAccounts[e]].email = e
==============================================================================
