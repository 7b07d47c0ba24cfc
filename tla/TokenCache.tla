----------------------------- MODULE TokenCache -----------------------------
(***************************************************************************)
(* auth/AuthAzureOpenIdConnectB2CWebApplication: the access tokens of the    *)
(* signed-in users.  Every request builds an MSAL client with a token cache  *)
(* of its own, which MSALStaticCache loads from and persists to one static   *)
(* dictionary, an entry a user; a sign-in also leaves the token in a cookie  *)
(* of the browser for half a minute.  Load and Persist are atomic: they hold *)
(* SessionLock for reading and for writing.                                  *)
(*                                                                           *)
(* A user has one account in a cache, so that what a cache holds is the      *)
(* number of its token, with its refresh token, or None.  That an access     *)
(* token has expired is found out when it is looked up.                      *)
(***************************************************************************)
EXTENDS Naturals

CONSTANTS Users,      \* the users, by the subject of their id token
          NoUser,     \* the empty user id: nobody is signed in
          Browsers,   \* their browsers
          NoBrowser,  \* where a request that is none comes from
          Requests,   \* the requests the server can have in hand at once
          MaxTokens   \* bound: tokens ever issued

ASSUME TokenConstants == NoUser \notin Users /\ NoBrowser \notin Browsers /\ MaxTokens \in Nat

None == 0
Keys == Users \cup {NoUser}
Tokens == 1 .. MaxTokens

VARIABLES
    staticCache,   \* staticCache[k]: the entry of a CacheId, None when missing
    issued,        \* tokens issued so far by Azure AD B2C, the last one's number
    owner,         \* owner[t]: the user token t was issued to
    identity,      \* identity[b]: who the authentication cookie of b names
    cookie,        \* cookie[b][k]: .tmp_aspnet_jwtaccesstoken_<k> in b
    known,         \* history: identity[b] was given to b by this process
    pc,            \* pc[r]: where the request r stands
    at,            \* at[r]: the browser it came from
    user,          \* user[r]: its principal
    cache,         \* cache[r]: the token cache of its MSAL client
    answer,        \* answer[r]: the token GetAuthenticationTokenAsync returns
    relies         \* history: known of its browser when it came

vars == <<staticCache, issued, owner, identity, cookie, known,
          pc, at, user, cache, answer, relies>>

request == <<pc, at, user, cache, answer, relies>>
browser == <<identity, cookie, known>>

Init ==
    /\ staticCache = [k \in Keys |-> None]
    /\ issued = 0
    /\ owner = [t \in Tokens |-> NoUser]
    /\ identity = [b \in Browsers |-> NoUser]
    /\ cookie = [b \in Browsers |-> [k \in Keys |-> None]]
    /\ known = [b \in Browsers |-> FALSE]
    /\ pc = [r \in Requests |-> "none"]
    /\ at = [r \in Requests |-> NoBrowser]
    /\ user = [r \in Requests |-> NoUser]
    /\ cache = [r \in Requests |-> None]
    /\ answer = [r \in Requests |-> None]
    /\ relies = [r \in Requests |-> FALSE]

-----------------------------------------------------------------------------
(* MSALStaticCache                                                          *)

\* A plausible slip, CacheId made before the user's id is known.
EmptyCacheId(u) == NoUser

\* CacheId and ckey: the user's id with a fixed suffix or prefix.
CacheId(u) == u
CookieKey(u) == u

\* Load: a missing entry leaves the client's cache as it is, an entry replaces
\* the token of the account.
Load(u, c) == IF staticCache[CacheId(u)] = None THEN c ELSE staticCache[CacheId(u)]

\* Persist.
Persist(u, c) == staticCache' = [staticCache EXCEPT ![CacheId(u)] = c]

\* The request r leaves GetAuthenticationTokenAsync with the token t, or None.
Answer(r, t) ==
    /\ pc' = [pc EXCEPT ![r] = "answered"]
    /\ answer' = [answer EXCEPT ![r] = t]

\* The request r is over, and its client and cache with it.
Over(r) ==
    /\ pc' = [pc EXCEPT ![r] = "none"]
    /\ at' = [at EXCEPT ![r] = NoBrowser]
    /\ user' = [user EXCEPT ![r] = NoUser]
    /\ cache' = [cache EXCEPT ![r] = None]
    /\ answer' = [answer EXCEPT ![r] = None]
    /\ relies' = [relies EXCEPT ![r] = FALSE]

\* Azure AD B2C issues the next token, to u, and MSAL saves it in r's cache.
Issue(r, u) ==
    /\ issued < MaxTokens
    /\ issued' = issued + 1
    /\ owner' = [owner EXCEPT ![issued + 1] = u]
    /\ cache' = [cache EXCEPT ![r] = issued + 1]

-----------------------------------------------------------------------------
(* Signing in                                                               *)

\* OnAuthorizationCodeReceived, up to the call that redeems the code.
OnAuthorizationCodeReceived(r, b, u) ==
    /\ pc[r] = "none"
    /\ pc' = [pc EXCEPT ![r] = "redeem"]
    /\ at' = [at EXCEPT ![r] = b]
    /\ user' = [user EXCEPT ![r] = u]
    /\ cache' = [cache EXCEPT ![r] = Load(u, None)]
    /\ UNCHANGED <<staticCache, issued, owner, browser, answer, relies>>

\* A plausible slip, the token counted as saved before it is there.
RedeemTwice(r) ==
    /\ pc[r] = "redeem"
    /\ Issue(r, user[r])
    /\ Persist(user[r], issued + 2)
    /\ pc' = [pc EXCEPT ![r] = "save"]
    /\ UNCHANGED <<browser, at, user, answer, relies>>

\* The code is redeemed: the cache is loaded again, and the account's token in
\* it overwritten by the new one.
Redeem(r) ==
    /\ pc[r] = "redeem"
    /\ Issue(r, user[r])
    /\ pc' = [pc EXCEPT ![r] = "save"]
    /\ UNCHANGED <<staticCache, browser, at, user, answer, relies>>

\* AfterAccessNotification of a change: Persist.  The token goes to the cookie
\* in the response.
SaveSignIn(r) ==
    /\ pc[r] = "save"
    /\ Persist(user[r], cache[r])
    /\ pc' = [pc EXCEPT ![r] = "signedIn"]
    /\ UNCHANGED <<issued, owner, browser, at, user, cache, answer, relies>>

\* A plausible slip, a sign-in that completes before its token is persisted.
SignInEarly(r) ==
    /\ pc[r] \in {"save", "signedIn"}
    /\ (pc[r] = "save" /\ UNCHANGED request) \/ (pc[r] = "signedIn" /\ Over(r))
    /\ identity' = [identity EXCEPT ![at[r]] = user[r]]
    /\ cookie' = [cookie EXCEPT ![at[r]][CookieKey(user[r])] = cache[r]]
    /\ known' = [known EXCEPT ![at[r]] = TRUE]
    /\ UNCHANGED <<staticCache, issued, owner>>

\* The response reaches the browser with the authentication cookie and the
\* cookie of the token.
SignedIn(r) ==
    /\ pc[r] = "signedIn"
    /\ Over(r)
    /\ identity' = [identity EXCEPT ![at[r]] = user[r]]
    /\ cookie' = [cookie EXCEPT ![at[r]][CookieKey(user[r])] = cache[r]]
    /\ known' = [known EXCEPT ![at[r]] = TRUE]
    /\ UNCHANGED <<staticCache, issued, owner>>

\* The code cannot be redeemed, which is thrown on, or the response is lost.
SignInFails(r) ==
    /\ pc[r] \in {"redeem", "signedIn"}
    /\ Over(r)
    /\ UNCHANGED <<staticCache, issued, owner, browser>>

-----------------------------------------------------------------------------
(* Index and Api: GetAuthenticationTokenAsync and GetAuthenticationResultAsync. *)
(* Without an identity there is no token to get, and Api redirects to sign in.  *)

\* The token is in the cookie of the user, or a client is built with its cache.
GetAuthenticationToken(r, b) ==
    /\ pc[r] = "none"
    /\ identity[b] # NoUser
    /\ at' = [at EXCEPT ![r] = b]
    /\ user' = [user EXCEPT ![r] = identity[b]]
    /\ relies' = [relies EXCEPT ![r] = known[b]]
    /\ LET found == cookie[b][CookieKey(identity[b])] IN
       \/ /\ found # None
          /\ Answer(r, found)
          /\ UNCHANGED cache
       \/ /\ found = None
          /\ pc' = [pc EXCEPT ![r] = "accounts"]
          /\ cache' = [cache EXCEPT ![r] = Load(identity[b], None)]
          /\ UNCHANGED answer
    /\ UNCHANGED <<staticCache, issued, owner, browser>>

\* GetAccountsAsync begins: BeforeAccessNotification.
GetAccounts(r) ==
    /\ pc[r] = "accounts"
    /\ pc' = [pc EXCEPT ![r] = "read"]
    /\ cache' = [cache EXCEPT ![r] = Load(user[r], @)]
    /\ UNCHANGED <<staticCache, issued, owner, browser, at, user, answer, relies>>

\* A plausible slip, AfterAccessNotification without the test of HasStateChanged.
PersistAlways(r) ==
    /\ pc[r] = "read"
    /\ Persist(user[r], cache[r])
    /\ \/ cache[r] = None /\ Answer(r, None)
       \/ cache[r] # None /\ pc' = [pc EXCEPT ![r] = "silent"] /\ UNCHANGED answer
    /\ UNCHANGED <<issued, owner, browser, at, user, cache, relies>>

\* GetAccountsAsync ends: nothing changed, nothing is persisted.  Without an
\* account there is no token.
AccountsRead(r) ==
    /\ pc[r] = "read"
    /\ \/ cache[r] = None /\ Answer(r, None)
       \/ cache[r] # None /\ pc' = [pc EXCEPT ![r] = "silent"] /\ UNCHANGED answer
    /\ UNCHANGED <<staticCache, issued, owner, browser, at, user, cache, relies>>

\* AcquireTokenSilent: BeforeAccessNotification, then the token found is still
\* good, or its refresh token is used.
AcquireTokenSilent(r) ==
    /\ pc[r] = "silent"
    /\ cache' = [cache EXCEPT ![r] = Load(user[r], @)]
    /\ \/ Answer(r, cache'[r])
       \/ pc' = [pc EXCEPT ![r] = "refresh"] /\ UNCHANGED answer
    /\ UNCHANGED <<staticCache, issued, owner, browser, at, user, relies>>

\* The refresh token gives a new access token.
Refresh(r) ==
    /\ pc[r] = "refresh"
    /\ Issue(r, owner[cache[r]])
    /\ pc' = [pc EXCEPT ![r] = "saveNew"]
    /\ UNCHANGED <<staticCache, browser, at, user, answer, relies>>

\* AfterAccessNotification of a change: Persist.
SaveRefreshed(r) ==
    /\ pc[r] = "saveNew"
    /\ Persist(user[r], cache[r])
    /\ Answer(r, cache[r])
    /\ UNCHANGED <<issued, owner, browser, at, user, cache, relies>>

\* MsalUiRequiredException, or any other: Api shows it, Index fails.
RefreshFails(r) ==
    /\ pc[r] = "refresh"
    /\ pc' = [pc EXCEPT ![r] = "refused"]
    /\ UNCHANGED <<staticCache, issued, owner, browser, at, user, cache, answer, relies>>

\* The page is sent, with what the API said to the token.
Respond(r) ==
    /\ pc[r] \in {"answered", "refused"}
    /\ Over(r)
    /\ UNCHANGED <<staticCache, issued, owner, browser>>

-----------------------------------------------------------------------------
(* The browser, time and the process                                        *)

\* SignOut, or the end of the authentication cookie: the token's cookie stays.
SignOut(b) ==
    /\ identity[b] # NoUser
    /\ identity' = [identity EXCEPT ![b] = NoUser]
    /\ known' = [known EXCEPT ![b] = FALSE]
    /\ UNCHANGED <<staticCache, issued, owner, cookie, request>>

\* The 30 seconds of the token's cookie are over.
CookieExpires(b, k) ==
    /\ cookie[b][k] # None
    /\ cookie' = [cookie EXCEPT ![b][k] = None]
    /\ UNCHANGED <<staticCache, issued, owner, identity, known, request>>

\* The process starts again: the dictionary is empty, the browsers keep their
\* cookies.
Restart ==
    /\ staticCache' = [k \in Keys |-> None]
    /\ known' = [b \in Browsers |-> FALSE]
    /\ pc' = [r \in Requests |-> "none"]
    /\ at' = [r \in Requests |-> NoBrowser]
    /\ user' = [r \in Requests |-> NoUser]
    /\ cache' = [r \in Requests |-> None]
    /\ answer' = [r \in Requests |-> None]
    /\ relies' = [r \in Requests |-> FALSE]
    /\ UNCHANGED <<issued, owner, identity, cookie>>

SignIn(r) ==
    \/ \E b \in Browsers, u \in Users : OnAuthorizationCodeReceived(r, b, u)
    \/ Redeem(r) \/ SaveSignIn(r) \/ SignedIn(r) \/ SignInFails(r)

Call(r) ==
    \/ \E b \in Browsers : GetAuthenticationToken(r, b)
    \/ GetAccounts(r) \/ AccountsRead(r) \/ AcquireTokenSilent(r)
    \/ Refresh(r) \/ SaveRefreshed(r) \/ RefreshFails(r) \/ Respond(r)

Next ==
    \/ \E r \in Requests : SignIn(r) \/ Call(r)
    \/ \E b \in Browsers : SignOut(b) \/ \E k \in Keys : CookieExpires(b, k)
    \/ Restart

Spec == Init /\ [][Next]_vars

-----------------------------------------------------------------------------
(* Properties                                                               *)

Stage == {"none", "redeem", "save", "signedIn", "accounts", "read", "silent",
          "refresh", "saveNew", "answered", "refused"}

TypeOK ==
    /\ issued \in 0 .. MaxTokens
    /\ staticCache \in [Keys -> 0 .. issued]
    /\ owner \in [Tokens -> Keys]
    /\ identity \in [Browsers -> Keys]
    /\ cookie \in [Browsers -> [Keys -> 0 .. issued]]
    /\ known \in [Browsers -> BOOLEAN]
    /\ pc \in [Requests -> Stage]
    /\ at \in [Requests -> Browsers \cup {NoBrowser}]
    /\ user \in [Requests -> Keys]
    /\ cache \in [Requests -> 0 .. issued]
    /\ answer \in [Requests -> 0 .. issued]
    /\ relies \in [Requests -> BOOLEAN]

\* A request is answered with a token of its own user or with none, whoever
\* signed in and out of that browser before and whatever requests of other
\* users load, refresh and persist in the meantime.
OwnTokens ==
    \A r \in Requests : answer[r] # None => owner[answer[r]] = user[r]

\* A user that signed in since the process started, and whose call comes after
\* that, has a token: it was persisted before the browser learnt of the
\* sign-in, and no request with an older copy of the cache takes it away.
SignedInHasToken ==
    \A r \in Requests : pc[r] = "answered" /\ relies[r] => answer[r] # None

\* Only the end of the process takes the account of a user out of the
\* dictionary: no request persists a cache it loaded before the user signed in.
NeverForgets ==
    [][ \A u \in Users :
           staticCache[u] # None => staticCache'[u] # None \/ Restart ]_vars

\* What the README of the sample says of a user with no tokens: there is an
\* exception.  So the API is never called without a token.
TokenOrException ==
    \A r \in Requests : pc[r] = "answered" => answer[r] # None
=============================================================================
