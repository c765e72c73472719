------------------------------- MODULE Secrets -------------------------------
(***************************************************************************)
(* Secret Manager and Cloud KMS, run one call at a time.  A version of a   *)
(* secret is found by its number, its place in the list, or as "latest",   *)
(* the newest one that is enabled; a KMS ciphertext is a token naming the  *)
(* key, the plaintext and the additional data it was made from.            *)
(***************************************************************************)
EXTENDS Naturals, Sequences

CONSTANTS
  SmSecrets, SmData, SmDestroyed,     \* SmDestroyed: the empty payload
  KmKeys, KmAads,
  SmMaxVersions, SmMaxCalls           \* bounds

ASSUME SecretsAssumption == SmDestroyed \notin SmData

VARIABLES
  secrets,        \* secret_id -> versions: sequence of [data, state]
  keyRings,
  cryptoKeys,
  tokens,         \* ciphertexts clients hold
  smCalls,
  smAdded,        \* ghost: secret_id -> what was added to it, in order
  smGone          \* ghost: versions destroyed, <<secret_id, number>>

smVars == <<secrets, keyRings, cryptoKeys, tokens, smCalls, smAdded, smGone>>

SecretsInit ==
  /\ secrets = [s \in {} |-> <<>>] /\ keyRings = {} /\ cryptoKeys = {} /\ tokens = {}
  /\ smCalls = 0 /\ smAdded = [s \in {} |-> <<>>] /\ smGone = {}

SmWith(f, x, v) == [y \in DOMAIN f \union {x} |-> IF y = x THEN v ELSE f[y]]
SmDrop(f, x)    == [y \in DOMAIN f \ {x} |-> f[y]]
SmCall == smCalls < SmMaxCalls /\ smCalls' = smCalls + 1
SmOnly == SmCall /\ UNCHANGED <<keyRings, cryptoKeys, tokens>>

SmVersion == [data : SmData \union {SmDestroyed}, state : {"ENABLED", "DISABLED", "DESTROYED"}]

(* _resolve_version: 0 is no such version, label 0 stands for "latest". *)
SmLast(s, label) == IF label = 0 THEN Len(secrets[s])                        \* mutant
                    ELSE IF label \in DOMAIN secrets[s] THEN label ELSE 0
SmResolve(s, label) ==
  LET enabled == {n \in DOMAIN secrets[s] : secrets[s][n].state = "ENABLED"}
  IN IF label = 0
       THEN IF enabled = {} THEN 0 ELSE CHOOSE n \in enabled : \A m \in enabled : m <= n
       ELSE IF label \in DOMAIN secrets[s] THEN label ELSE 0

(* access_version: the number of the version whose payload is returned *)
SmAccess(s, label) ==
  LET n == SmResolve(s, label)
  IN IF n # 0 /\ secrets[s][n].state = "ENABLED" THEN n ELSE 0

SmCreateSecret(s) ==
  /\ SmOnly /\ s \notin DOMAIN secrets
  /\ secrets' = SmWith(secrets, s, <<>>) /\ smAdded' = SmWith(smAdded, s, <<>>)
  /\ UNCHANGED smGone

(* The versions go with the secret: one created anew starts over from 1. *)
SmDeleteSecret(s) ==
  /\ SmOnly /\ s \in DOMAIN secrets
  /\ secrets' = SmDrop(secrets, s) /\ smAdded' = SmDrop(smAdded, s)
  /\ smGone' = {v \in smGone : v[1] # s}

SmAddVersion(s, data) ==
  /\ SmOnly /\ s \in DOMAIN secrets /\ Len(secrets[s]) < SmMaxVersions
  /\ secrets' = [secrets EXCEPT ![s] = Append(@, [data |-> data, state |-> "ENABLED"])]
  /\ smAdded' = [smAdded EXCEPT ![s] = Append(@, data)]
  /\ UNCHANGED smGone

(* set_version_state: from any state, a destroyed one's included *)
SmSetState(s, label, state) ==
  /\ SmOnly /\ s \in DOMAIN secrets /\ SmResolve(s, label) # 0
  /\ LET n == SmResolve(s, label)
     IN /\ secrets' = [secrets EXCEPT ![s][n] =
             [data |-> IF state = "DESTROYED" THEN SmDestroyed ELSE @.data, state |-> state]]
        /\ smGone' = IF state = "DESTROYED" THEN smGone \union {<<s, n>>} ELSE smGone
  /\ UNCHANGED smAdded

(* create_key_ring, create_crypto_key (whose ring need not exist), encrypt *)
KmOnly == SmCall /\ UNCHANGED <<secrets, smAdded, smGone>>
KmCreateKeyRing(ring) ==
  /\ KmOnly /\ ring \notin keyRings /\ keyRings' = keyRings \union {ring}
  /\ UNCHANGED <<cryptoKeys, tokens>>
KmCreateCryptoKey(k) ==
  /\ KmOnly /\ k \notin cryptoKeys /\ cryptoKeys' = cryptoKeys \union {k}
  /\ UNCHANGED <<keyRings, tokens>>
KmEncrypt(k, p, a) ==
  /\ KmOnly /\ k \in cryptoKeys /\ tokens' = tokens \union {[k |-> k, p |-> p, a |-> a]}
  /\ UNCHANGED <<keyRings, cryptoKeys>>

(* decrypt: the plaintexts it can return *)
KmDecrypt(k, token, a) ==
  IF k \in cryptoKeys /\ token.k = k /\ token.a = a THEN {token.p} ELSE {}

SecretManagerNext ==
  \E s \in SmSecrets :
    \/ SmCreateSecret(s) \/ SmDeleteSecret(s)
    \/ \E data \in SmData : SmAddVersion(s, data)
    \/ \E label \in 0..SmMaxVersions, state \in {"ENABLED", "DISABLED", "DESTROYED"} :
         SmSetState(s, label, state)
KMSNext ==
  \E k \in KmKeys : \/ KmCreateKeyRing(k[1]) \/ KmCreateCryptoKey(k)
                    \/ \E p \in SmData, a \in KmAads : KmEncrypt(k, p, a)

SecretsNext == SecretManagerNext \/ KMSNext
SecretsSpec == SecretsInit /\ [][SecretsNext]_smVars

------------------------------------------------------------------------------
SecretsTypeOK ==
  /\ DOMAIN secrets \subseteq SmSecrets
  /\ \A s \in DOMAIN secrets : secrets[s] \in Seq(SmVersion)
  /\ keyRings \subseteq {k[1] : k \in KmKeys} /\ cryptoKeys \subseteq KmKeys
  /\ tokens \subseteq [k : KmKeys, p : SmData, a : KmAads]

(* Accessing a version by number returns the payload that was added under  *)
(* that number since the secret was created, and after a destruction never *)
(* again, even if the version has been enabled since; "latest" answers     *)
(* whenever some version is enabled, with the newest such one.             *)
PayloadsKept ==
  \A s \in DOMAIN secrets : \A label \in 0..SmMaxVersions :
    LET n == SmAccess(s, label)
    IN /\ n # 0 => /\ secrets[s][n].data = IF <<s, n>> \in smGone THEN SmDestroyed
                                           ELSE smAdded[s][n]
                   /\ label \in {0, n}
       /\ label = 0 => \A m \in DOMAIN secrets[s] :
                         secrets[s][m].state = "ENABLED" => n >= m

(* A ciphertext opens with the key and the data it was made with, for good, *)
(* and with no others.                                                      *)
TokensOpen ==
  \A t \in tokens : \A k \in KmKeys, a \in KmAads :
    KmDecrypt(k, t, a) = IF k = t.k /\ a = t.a THEN {t.p} ELSE {}

SecretsKept == PayloadsKept /\ TokensOpen
==============================================================================
