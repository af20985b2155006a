---------------------------- MODULE GitHubClient ----------------------------
(***************************************************************************)
(* Requests to the GitHub API in one worker process.  GitHubApiClient      *)
(* sends a request with the installation token it gets from                *)
(* GitHubAppTokenProvider: a positive cache with LRU eviction, a negative  *)
(* cache of permanent refusals, and one lock per installation under which  *)
(* a token is minted.  The exchange and the request each have their own    *)
(* retry loop.                                                             *)
(***************************************************************************)
EXTENDS Integers, Sequences, SequencesExt

CONSTANTS Accounts,         \* installation ids
          Requests,         \* requests that may run at once
          MaxCacheEntries,  \* of the positive cache
          MaxExchanges,     \* MAX_5XX_RETRIES + 1 in token_provider.ts
          MaxTries,         \* MAX_5XX_RETRIES in api_client.ts
          MaxTokens         \* bound on the tokens GitHub issues per installation

ASSUME GitHubClientConstants ==
  /\ MaxCacheEntries \in Nat \ {0} /\ MaxExchanges \in Nat \ {0} /\ MaxTries \in Nat \ {0}
  /\ MaxTokens \in Nat

VARIABLES issued,     \* the newest token of each installation on GitHub
          tokens,     \* .cache: the token of an installation
          lru,        \* .cache: its keys, the oldest use first
          refused,    \* .negativeCache: the entries that have not expired
          mintQueues, \* .mutex: the holder and the waiters
          apiCalls    \* the requests in flight

githubVars == <<issued, tokens, lru, refused, mintQueues, apiCalls>>
tokenCache == <<tokens, lru>>

Tokens == 0..MaxTokens
NoToken == [token |-> 0, fresh |-> FALSE]
NoRequestMade == [at |-> "idle"]

\* tries and latched are of _request, exchanges and signed of
\* exchangeWithRetry: the tries so far, and whether a 401 was met.
Request == [at : {"get", "wait", "mint", "minted", "send"}, account : Accounts,
            tries : 0..MaxTries, latched : BOOLEAN, exchanges : 0..MaxExchanges,
            signed : BOOLEAN, token : Tokens]

GitHubClientTypeOK ==
  /\ issued \in [Accounts -> Tokens]
  /\ tokens \in [Accounts -> [token : Tokens, fresh : BOOLEAN]]
  /\ lru \in Seq(Accounts)
  /\ refused \subseteq Accounts
  /\ mintQueues \in [Accounts -> Seq(Requests)]
  /\ apiCalls \in [Requests -> {NoRequestMade} \cup Request]

GitHubClientInit ==
  /\ issued = [a \in Accounts |-> 0]
  /\ tokens = [a \in Accounts |-> NoToken] /\ lru = <<>>
  /\ refused = {}
  /\ mintQueues = [a \in Accounts |-> <<>>]
  /\ apiCalls = [q \in Requests |-> NoRequestMade]

Doing(q, at) == apiCalls[q].at = at
Account(q) == apiCalls[q].account

(***************************************************************************)
(* GitHubAppTokenProvider.getToken.                                        *)
(***************************************************************************)
IsCached(a) == tokens[a].fresh

\* The JavaScript Map keeps its keys in the order they were set.
UsedLast(a) == Append(Remove(lru, a), a)

\* cacheLookup deletes and sets the entry it finds.
Touch(a) == lru' = UsedLast(a) /\ UNCHANGED tokens

\* cachePut: past the bound the oldest entry goes.
StoreToken(a, token) ==
  LET evicted == IF Len(UsedLast(a)) > MaxCacheEntries THEN {Head(UsedLast(a))} ELSE {} IN
  /\ lru' = IF evicted = {} THEN UsedLast(a) ELSE Tail(UsedLast(a))
  /\ tokens' = [b \in Accounts |->
       IF b \in evicted THEN NoToken
       ELSE IF b = a THEN [token |-> token, fresh |-> TRUE] ELSE tokens[b]]

Sends(q, token) == apiCalls' = [apiCalls EXCEPT ![q].at = "send", ![q].token = token,
                                                ![q].exchanges = 0, ![q].signed = FALSE]
Ends(q) == apiCalls' = [apiCalls EXCEPT ![q] = NoRequestMade]

StartRequest(q, a) ==
  /\ Doing(q, "idle")
  /\ apiCalls' = [apiCalls EXCEPT ![q] =
       [at |-> "get", account |-> a, tries |-> 0, latched |-> FALSE,
        exchanges |-> 0, signed |-> FALSE, token |-> 0]]
  /\ UNCHANGED <<issued, tokenCache, refused, mintQueues>>

\* The caches are asked before the lock: the negative one first.
GetToken(q) ==
  LET a == Account(q) IN
  /\ Doing(q, "get")
  /\ IF a \in refused THEN Ends(q) /\ UNCHANGED <<tokenCache, mintQueues>>
     ELSE IF IsCached(a) THEN Touch(a) /\ Sends(q, tokens[a].token) /\ UNCHANGED mintQueues
     ELSE /\ apiCalls' = [apiCalls EXCEPT ![q].at = "wait"]
          /\ mintQueues' = [mintQueues EXCEPT ![a] = Append(@, q)]
          /\ UNCHANGED tokenCache
  /\ UNCHANGED <<issued, refused>>

HoldsMint(q) == mintQueues[Account(q)] # <<>> /\ Head(mintQueues[Account(q)]) = q
ReleaseMint(q) == mintQueues' = [mintQueues EXCEPT ![Account(q)] = Tail(@)]

\* Fault: the holder of the lock mints without a second look.
NoReread(a) == FALSE

\* Another request may have minted meanwhile.
Reread(a) == IsCached(a)

TakeMint(q) ==
  LET a == Account(q) IN
  /\ Doing(q, "wait") /\ HoldsMint(q)
  /\ IF Reread(a)
       THEN Touch(a) /\ Sends(q, tokens[a].token) /\ ReleaseMint(q)
       ELSE /\ apiCalls' = [apiCalls EXCEPT ![q].at = "mint"]
            /\ UNCHANGED <<tokenCache, mintQueues>>
  /\ UNCHANGED <<issued, refused>>

Issue(q) ==
  /\ issued[Account(q)] < MaxTokens
  /\ issued' = [issued EXCEPT ![Account(q)] = @ + 1]

\* GitHub may have issued a token that does not arrive.
MayIssue(q) == UNCHANGED issued \/ Issue(q)

ExchangeAnswers(q) ==
  /\ Doing(q, "mint")
  /\ Issue(q)
  /\ apiCalls' = [apiCalls EXCEPT ![q].at = "minted", ![q].token = issued'[Account(q)]]
  /\ UNCHANGED <<tokenCache, refused, mintQueues>>

MintEnds(q) == Ends(q) /\ ReleaseMint(q)

\* 5xx or no answer; the last one throws.
ExchangeFails(q) ==
  /\ Doing(q, "mint")
  /\ MayIssue(q)
  /\ IF apiCalls[q].exchanges + 1 < MaxExchanges
       THEN /\ apiCalls' = [apiCalls EXCEPT ![q].exchanges = @ + 1]
            /\ UNCHANGED mintQueues
       ELSE MintEnds(q)
  /\ UNCHANGED <<tokenCache, refused>>

\* The first 401 signs again and uses up a turn of the loop, be it the last
\* one; the second 401 is a permanent refusal.
ExchangeUnauthorized(q) ==
  LET retries == apiCalls[q].exchanges + 1 < MaxExchanges IN
  /\ Doing(q, "mint")
  /\ IF ~apiCalls[q].signed /\ retries
       THEN /\ apiCalls' = [apiCalls EXCEPT ![q].signed = TRUE, ![q].exchanges = @ + 1]
            /\ UNCHANGED mintQueues
       ELSE MintEnds(q)
  /\ refused' = IF apiCalls[q].signed THEN refused \cup {Account(q)} ELSE refused
  /\ UNCHANGED <<issued, tokenCache>>

\* 403, 404, any other 4xx, or a body that does not parse.
ExchangeRefused(q) ==
  /\ Doing(q, "mint")
  /\ MayIssue(q)
  /\ MintEnds(q)
  /\ refused' = refused \cup {Account(q)}
  /\ UNCHANGED tokenCache

CachePut(q) ==
  /\ Doing(q, "minted")
  /\ StoreToken(Account(q), apiCalls[q].token)
  /\ Sends(q, apiCalls[q].token) /\ ReleaseMint(q)
  /\ UNCHANGED <<issued, refused>>

(***************************************************************************)
(* GitHubApiClient._request, with a token.                                 *)
(***************************************************************************)

\* An answer, a 4xx other than the first 401, or no answer at all.
RequestEnds(q) ==
  /\ Doing(q, "send") /\ apiCalls[q].tries < MaxTries
  /\ Ends(q)
  /\ UNCHANGED <<issued, tokenCache, refused, mintQueues>>

Unavailable(q) ==
  /\ Doing(q, "send")
  /\ apiCalls[q].tries + 1 < MaxTries
  /\ apiCalls' = [apiCalls EXCEPT ![q].tries = @ + 1]
  /\ UNCHANGED <<issued, tokenCache, refused, mintQueues>>

\* The token provider is asked again; what it has cached is not dropped.
Unauthorized(q) ==
  /\ Doing(q, "send") /\ ~apiCalls[q].latched /\ apiCalls[q].tries < MaxTries
  /\ apiCalls' = [apiCalls EXCEPT ![q].at = "get", ![q].latched = TRUE, ![q].token = 0,
                                  ![q].tries = @ + 1]
  /\ UNCHANGED <<issued, tokenCache, refused, mintQueues>>

\* The 401 used up the last turn of the loop: the token is got and not used.
LoopExits(q) ==
  /\ Doing(q, "send") /\ apiCalls[q].tries = MaxTries
  /\ Ends(q)
  /\ UNCHANGED <<issued, tokenCache, refused, mintQueues>>

(***************************************************************************)
(* Time.                                                                   *)
(***************************************************************************)
TokenAges(a) ==
  /\ IsCached(a)
  /\ tokens' = [tokens EXCEPT ![a].fresh = FALSE]
  /\ UNCHANGED <<issued, lru, refused, mintQueues, apiCalls>>

RefusalExpires(a) ==
  /\ a \in refused
  /\ refused' = refused \ {a}
  /\ UNCHANGED <<issued, tokenCache, mintQueues, apiCalls>>

GitHubClientNext ==
  \/ \E q \in Requests :
       \/ \E a \in Accounts : StartRequest(q, a)
       \/ GetToken(q) \/ TakeMint(q)
       \/ ExchangeAnswers(q) \/ ExchangeFails(q) \/ ExchangeUnauthorized(q)
       \/ ExchangeRefused(q) \/ CachePut(q)
       \/ RequestEnds(q) \/ Unavailable(q) \/ Unauthorized(q) \/ LoopExits(q)
  \/ \E a \in Accounts : TokenAges(a) \/ RefusalExpires(a)

GitHubClientSpec == GitHubClientInit /\ [][GitHubClientNext]_githubVars

(***************************************************************************)
(* Properties.                                                             *)
(***************************************************************************)

\* A token that the cache serves is the newest one GitHub issued for the
\* installation: while one is fresh nobody mints, however many requests waited
\* for the lock, lost answers included.
FreshTokenIsNewest ==
  \A a \in Accounts : IsCached(a) => tokens[a].token = issued[a]

=============================================================================
