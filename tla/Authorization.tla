----------------------------- MODULE Authorization -----------------------------
(***************************************************************************)
(* The authorization of REST requests by a security service (AuthClient),  *)
(* with its caches of session tokens and of API keys, and the REMOVE_TOKEN *)
(* events that take entries out of them.                                   *)
(*                                                                         *)
(* A cached credential is one that an answer of the service put there; the *)
(* service may be gone, and an answer may be under way while the event     *)
(* that revokes its credential arrives.                                    *)
(***************************************************************************)
EXTENDS Naturals

CONSTANTS
    SessionToken,   \* the session tokens
    ApiKey,         \* the API keys
    RestHandler         \* the threads that handle REST requests

\* Cache_ and ApiKeyCache_ are two caches.
ASSUME AuthAssumption == SessionToken \cap ApiKey = {}

VARIABLES
    revoked,    \* credentials the security service revoked
    removals,   \* REMOVE_TOKEN events under way
    removed,    \* credentials whose REMOVE_TOKEN was received
    overtaken,  \* credentials validated by an answer REMOVE_TOKEN overtook
    expired,    \* credentials past their expiry
    cached,     \* Cache_ and ApiKeyCache_
    presented     \* presented[h]: what handler h is doing

authVars == <<revoked, removals, removed, overtaken, expired, cached, presented>>

Credential == SessionToken \cup ApiKey

NoCredential == "none"

\* A request: its state, its credential, and the answer of the service.
Request(s, t, a) == [state |-> s, token |-> t, valid |-> a]

AuthIdle == Request("idle", NoCredential, FALSE)

AuthInit ==
    /\ revoked = {} /\ removals = {} /\ removed = {}
    /\ overtaken = {} /\ expired = {} /\ cached = {}
    /\ presented = [h \in RestHandler |-> AuthIdle]

\* Mutant: the removal reaches neither cache.
RemovedCachedTokenMutant(t) == cached

\* AuthClient::RemovedCachedToken: the credential leaves both caches.
RemovedCachedToken(t) == cached \ {t}

\* An answer for t that found it valid is on its way to a handler.
ValidUnderWay(t) ==
    \E h \in RestHandler : presented[h] = Request("answered", t, TRUE)

\* BusMessageReceived of a REMOVE_TOKEN event.
RemoveTokenReceived ==
    \E t \in removals :
        /\ removals' = removals \ {t}
        /\ removed' = removed \cup {t}
        /\ cached' = RemovedCachedToken(t)
        /\ overtaken' = IF ValidUnderWay(t) THEN overtaken \cup {t} ELSE overtaken
        /\ UNCHANGED <<revoked, expired, presented>>

\* The security service revokes a credential and announces it.
Revoke(t) ==
    /\ t \notin revoked
    /\ revoked' = revoked \cup {t}
    /\ removals' = removals \cup {t}
    /\ UNCHANGED <<removed, overtaken, expired, cached, presented>>

TokenExpires(t) ==
    /\ t \notin expired
    /\ expired' = expired \cup {t}
    /\ UNCHANGED <<revoked, removals, removed, overtaken, cached, presented>>

\* What a handler learns: the request ends, or a service is asked.
Ends(h, s, t) == presented' = [presented EXCEPT ![h] = Request(s, t, s = "accepted")]
Asks(h, t) == presented' = [presented EXCEPT ![h] = Request("asked", t, FALSE)]

\* A security service is asked, or none is known: not contacted.
Retrieve(h, t) == Asks(h, t) \/ Ends(h, "refused", t)

\* Mutant: the cached token's expiry is not looked at.
IsTokenExpiredMutant(t) == FALSE

IsTokenExpired(t) == t \in expired

\* A session token: served from the cache; refused and forgotten if it has
\* expired there; otherwise asked for.
IsAuthorized(h, t) ==
    /\ presented[h] = AuthIdle /\ t \in SessionToken
    /\ \/ /\ t \in cached /\ ~IsTokenExpired(t)
          /\ Ends(h, "accepted", t)
          /\ UNCHANGED cached
       \/ /\ t \in cached /\ IsTokenExpired(t)
          /\ Ends(h, "refused", t)
          /\ cached' = cached \ {t}
       \/ /\ t \notin cached
          /\ Retrieve(h, t)
          /\ UNCHANGED cached
    /\ UNCHANGED <<revoked, removals, removed, overtaken, expired>>

\* An API key: served from the cache when ExpiresOn < Now, otherwise
\* forgotten and asked for.
IsValidApiKey(h, t) ==
    /\ presented[h] = AuthIdle /\ t \in ApiKey
    /\ IF t \in cached /\ t \in expired
         THEN Ends(h, "accepted", t) /\ UNCHANGED cached
         ELSE Retrieve(h, t) /\ cached' = cached \ {t}
    /\ UNCHANGED <<revoked, removals, removed, overtaken, expired>>

\* OpenAPIRequestGet::Do: the service answers; or it is gone or too late, and
\* the call ends as not contacted.
ServiceAnswers(h) ==
    /\ presented[h].state = "asked"
    /\ LET t == presented[h].token
       IN  \E r \in {Request("answered", t, t \notin revoked),
                     Request("refused", t, FALSE)} :
               presented' = [presented EXCEPT ![h] = r]
    /\ UNCHANGED <<revoked, removals, removed, overtaken, expired, cached>>

\* The answer is read: an accepted credential is cached.
AuthAnswered(h, ok) ==
    /\ presented[h].state = "answered"
    /\ cached' = IF ok THEN cached \cup {presented[h].token} ELSE cached
    /\ presented' = [presented EXCEPT
          ![h].state = IF ok THEN "accepted" ELSE "refused"]
    /\ UNCHANGED <<revoked, removals, removed, overtaken, expired>>

\* A token that has expired meanwhile is refused.
RetrieveTokenInformation(h) ==
    /\ presented[h].token \in SessionToken
    /\ AuthAnswered(h, presented[h].valid /\ ~IsTokenExpired(presented[h].token))

RetrieveApiKeyInformation(h) ==
    /\ presented[h].token \in ApiKey
    /\ AuthAnswered(h, presented[h].valid)

\* The handler goes on, or answers its client.
Handled(h) ==
    /\ presented[h].state \in {"accepted", "refused"}
    /\ presented' = [presented EXCEPT ![h] = AuthIdle]
    /\ UNCHANGED <<revoked, removals, removed, overtaken, expired, cached>>

\* Entries leave the caches by age (ExpireLRUCache).
Evict(t) ==
    /\ t \in cached
    /\ cached' = cached \ {t}
    /\ UNCHANGED <<revoked, removals, removed, overtaken, expired, presented>>

AuthNext ==
    \/ RemoveTokenReceived
    \/ \E t \in Credential : Revoke(t) \/ TokenExpires(t) \/ Evict(t)
    \/ \E h \in RestHandler :
          \/ \E t \in Credential : IsAuthorized(h, t) \/ IsValidApiKey(h, t)
          \/ ServiceAnswers(h) \/ Handled(h)
          \/ RetrieveTokenInformation(h) \/ RetrieveApiKeyInformation(h)

AuthSpec == AuthInit /\ [][AuthNext]_authVars

----------------------------------------------------------------------------
(* Properties *)

\* A credential whose removal was received is in no cache, unless an answer
\* that had validated it before was still under way: RemovedCachedToken and
\* RetrieveTokenInformation run on two threads.
RemovedIsForgotten == cached \cap removed \subseteq overtaken

\* No session token is accepted after its expiry, whether it comes from the
\* cache or from an answer that took its time.
AcceptedIsFresh ==
    [][\A h \in RestHandler :
         (/\ presented[h].state # "accepted" /\ presented'[h].state = "accepted"
          /\ presented'[h].token \in SessionToken)
            => presented'[h].token \notin expired]_authVars
================================================================================
