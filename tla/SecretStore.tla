---------------------------- MODULE SecretStore ----------------------------
(***************************************************************************)
(* What the vault promises of its secrets while no single credential is    *)
(* rotated, without key versions, ciphertexts, requests, transactions or   *)
(* failures: a credential is stored with the secret its target accepts,    *)
(* and from then on that secret is what it reveals, deleted or not.        *)
(* Rotating every key of the tenant is not a step: nobody can tell.        *)
(* KeyVault, the detailed specification of backend/src/vault.ts,           *)
(* implements it.                                                          *)
(***************************************************************************)
CONSTANTS
    Creds, Secrets,
    None          \* what a ciphertext reveals that does not open

VARIABLES
    content,      \* content[c]: the secret that the stored credential c reveals
    deleted,      \* stored credentials that are hidden
    target        \* target[c]: the secret the target system accepts

store == <<content, deleted, target>>

StoreInit ==
    /\ content = [c \in {} |-> None]
    /\ deleted = {}
    /\ target \in [Creds -> Secrets]

(* A credential is stored once, and says what its target accepts.          *)
Keep(c) ==
    /\ c \notin DOMAIN content
    /\ content' = [d \in DOMAIN content \cup {c} |->
                       IF d = c THEN target[c] ELSE content[d]]
    /\ UNCHANGED <<deleted, target>>

Hide(c) ==
    /\ c \in DOMAIN content \ deleted
    /\ deleted' = deleted \cup {c}
    /\ UNCHANGED <<content, target>>

StoreNext == \E c \in Creds : Keep(c) \/ Hide(c)

StoreSpec == StoreInit /\ [][StoreNext]_store
=============================================================================
