-------------------------- MODULE TokenCacheProofs --------------------------
(***************************************************************************)
(* Proofs about TokenCache, for any users, browsers and requests and any    *)
(* number of tokens.  Whose a token is never changes, so that it is enough   *)
(* to follow each token from one place to the next; that a signed-in user    *)
(* has one rests on the order of a sign-in and on AfterAccessNotification    *)
(* persisting only a cache with a token in it.                               *)
(***************************************************************************)
EXTENDS TokenCache, TLAPS

\* t, if it is a token, is one of k's.
OwnedBy(t, k) == t # None => owner[t] = k

\* Every place keeps only tokens of the user it is kept for.
Owned ==
    /\ \A k \in Keys : OwnedBy(staticCache[k], k)
    /\ \A b \in Browsers, k \in Keys : OwnedBy(cookie[b][k], k)
    /\ \A r \in Requests : OwnedBy(cache[r], user[r]) /\ OwnedBy(answer[r], user[r])

\* Where a request needs a token in its cache, there is one, and a browser
\* waits for the response to a sign-in; elsewhere nothing is left over.
Held ==
    \A r \in Requests :
        /\ pc[r] \in {"save", "signedIn", "silent", "refresh", "saveNew"} => cache[r] # None
        /\ pc[r] \in {"redeem", "save", "signedIn"} => at[r] \in Browsers
        /\ answer[r] # None => pc[r] = "answered"
        /\ pc[r] = "none" => cache[r] = None
        /\ relies[r] => pc[r] \notin {"none", "redeem", "save", "signedIn"}

\* Whoever this process told that a user is signed in can rely on a token in
\* the dictionary, in its own copy once it has loaded it, and in the answer.
Reliable ==
    /\ \A b \in Browsers : known[b] => staticCache[identity[b]] # None
    /\ \A r \in Requests :
           /\ pc[r] = "signedIn" \/ relies[r] => staticCache[user[r]] # None
           /\ pc[r] = "read" /\ relies[r] => cache[r] # None
           /\ pc[r] = "answered" /\ relies[r] => answer[r] # None

Inv == TypeOK /\ Owned /\ Held /\ Reliable

-----------------------------------------------------------------------------
(* Steps                                                                    *)

\* The invariant holds at the start, when nobody is signed in.
LEMMA InitInv == Init => Inv
<1> SUFFICES ASSUME Init PROVE Inv
  OBVIOUS
<1>1. TypeOK
  BY TokenConstants DEF Init, TypeOK, Keys, Tokens, None, Stage
<1>2. Owned
  BY DEF Init, Owned, OwnedBy, Keys
<1>3. Held /\ Reliable
  BY DEF Init, Held, Reliable, Keys
<1> QED
  BY <1>1, <1>2, <1>3 DEF Inv

\* A token issued is a new one: the owners of the others stay.
LEMMA IssueKeeps ==
    ASSUME TypeOK, NEW r \in Requests, NEW u \in Keys, Issue(r, u)
    PROVE  /\ issued + 1 \in Tokens /\ issued' = issued + 1 /\ issued \in Nat
           /\ owner' \in [Tokens -> Keys]
           /\ owner'[issued + 1] = u
           /\ \A t \in 0 .. issued, k \in Keys : OwnedBy(t, k) => OwnedBy(t, k)'
           /\ \A t \in 0 .. issued : t \in 0 .. issued'
<1>1. issued + 1 \in Tokens /\ issued' = issued + 1 /\ issued \in Nat
  BY TokenConstants DEF TypeOK, Tokens, Issue
<1>2. owner' \in [Tokens -> Keys] /\ owner'[issued + 1] = u
  BY <1>1 DEF TypeOK, Issue
<1>3. ASSUME NEW t \in 0 .. issued, NEW k \in Keys, OwnedBy(t, k) PROVE OwnedBy(t, k)'
  <2>1. CASE t = None
    BY <2>1 DEF OwnedBy, None
  <2>2. CASE t # None
    <3>1. t \in Tokens /\ t # issued + 1
      BY <2>2, <1>1, TokenConstants DEF Tokens, None, TypeOK
    <3>2. owner'[t] = owner[t]
      BY <3>1, <1>1 DEF Issue, TypeOK
    <3> QED
      BY <3>2, <2>2, <1>3 DEF OwnedBy
  <2> QED
    BY <2>1, <2>2
<1>4. \A t \in 0 .. issued : t \in 0 .. issued'
  BY <1>1
<1> QED
  BY <1>1, <1>2, <1>3, <1>4

\* What a client loads is a token of the user or its own, and one if either is.
LEMMA LoadKeeps ==
    ASSUME TypeOK, NEW u \in Keys, NEW c \in 0 .. issued
    PROVE  /\ Load(u, c) \in 0 .. issued
           /\ Load(u, c) = None <=> staticCache[u] = None /\ c = None
           /\ OwnedBy(staticCache[u], u) /\ OwnedBy(c, u) => OwnedBy(Load(u, c), u)
  BY DEF TypeOK, Load, CacheId, OwnedBy

\* Every step keeps the types.
LEMMA TypeStep == Inv /\ [Next]_vars => TypeOK'
<1> SUFFICES ASSUME Inv, [Next]_vars PROVE TypeOK'
  OBVIOUS
<1> USE TokenConstants DEF Inv
<1>0. None \in 0 .. issued /\ issued \in Nat
  BY DEF None, TypeOK
<1>1. ASSUME NEW r \in Requests, NEW b \in Browsers, NEW u \in Users, OnAuthorizationCodeReceived(r, b, u)
      PROVE  TypeOK'
  <2>1. u \in Keys /\ Load(u, None) \in 0 .. issued
    BY <1>0, LoadKeeps DEF TypeOK, Keys
  <2> QED
    BY <2>1, <1>1 DEF OnAuthorizationCodeReceived, browser, TypeOK, Stage, Keys
<1>2. ASSUME NEW r \in Requests, Redeem(r) PROVE TypeOK'
  <2>1. user[r] \in Keys /\ issued + 1 \in 0 .. issued' /\ issued' \in 0 .. MaxTokens
    BY <1>0, <1>2 DEF TypeOK, Redeem, Refresh, Issue
  <2>2. owner' \in [Tokens -> Keys] /\ \A t \in 0 .. issued : t \in 0 .. issued'
    BY <2>1, <1>2, IssueKeeps DEF Redeem
  <2>3. staticCache' \in [Keys -> 0 .. issued'] /\ cookie' \in [Browsers -> [Keys -> 0 .. issued']]
    BY <2>2, <1>2 DEF Redeem, Issue, browser, TypeOK
  <2>4. cache' \in [Requests -> 0 .. issued'] /\ answer' \in [Requests -> 0 .. issued']
    BY <2>1, <2>2, <1>2 DEF Redeem, Issue, browser, TypeOK
  <2>5. pc' \in [Requests -> Stage]
    BY <1>2 DEF TypeOK, Redeem, Issue, browser, Stage, TypeOK
  <2> QED
    BY <2>1, <2>2, <2>3, <2>4, <2>5, <1>2 DEF Redeem, Issue, browser, TypeOK
<1>3. ASSUME NEW r \in Requests, SaveSignIn(r) PROVE TypeOK'
  BY <1>0, <1>3 DEF SaveSignIn, Persist, CacheId, browser, TypeOK, Stage, Keys
<1>4. ASSUME NEW r \in Requests, SignedIn(r) PROVE TypeOK'
  BY <1>0, <1>4 DEF SignedIn, Over, CookieKey, TypeOK, Stage, Keys
<1>5. ASSUME NEW r \in Requests, SignInFails(r) PROVE TypeOK'
  BY <1>0, <1>5 DEF SignInFails, Over, browser, TypeOK, Stage, Keys
<1>6. ASSUME NEW r \in Requests, NEW b \in Browsers, GetAuthenticationToken(r, b) PROVE TypeOK'
  <2>1. identity[b] \in Keys /\ cookie[b][identity[b]] \in 0 .. issued
    BY DEF TypeOK
  <2>2. Load(identity[b], None) \in 0 .. issued
    BY <1>0, <2>1, LoadKeeps
  <2>3. cache' \in [Requests -> 0 .. issued] /\ answer' \in [Requests -> 0 .. issued]
    <3>1. \/ cache' = cache
          \/ cache' = [cache EXCEPT ![r] = Load(identity[b], None)]
      BY <1>6 DEF GetAuthenticationToken
    <3>2. \/ answer' = answer
          \/ answer' = [answer EXCEPT ![r] = cookie[b][identity[b]]]
      BY <1>6 DEF GetAuthenticationToken, CookieKey, Answer
    <3>3. issued' = issued
      BY <1>6 DEF GetAuthenticationToken
    <3> QED
      <4>1. cache' \in [Requests -> 0 .. issued]
        BY <2>2, <3>1 DEF TypeOK
      <4>2. answer' \in [Requests -> 0 .. issued]
        BY <2>1, <3>2 DEF TypeOK
      <4> QED
        BY <4>1, <4>2
  <2>4. pc' \in [Requests -> Stage]
    BY <1>6 DEF GetAuthenticationToken, Answer, TypeOK, Stage
  <2>5. at' \in [Requests -> Browsers \cup {NoBrowser}] /\ user' \in [Requests -> Keys]
    BY <2>1, <1>6 DEF GetAuthenticationToken, TypeOK
  <2>6. relies' \in [Requests -> BOOLEAN]
    <3>1. known[b] \in BOOLEAN
      BY DEF TypeOK
    <3> QED
      BY <3>1, <1>6 DEF GetAuthenticationToken, TypeOK
  <2> QED
    BY <2>3, <2>4, <2>5, <2>6, <1>6 DEF GetAuthenticationToken, browser, TypeOK
<1>7. ASSUME NEW r \in Requests, GetAccounts(r) PROVE TypeOK'
  <2>1. user[r] \in Keys /\ Load(user[r], cache[r]) \in 0 .. issued
    BY <1>0, LoadKeeps DEF TypeOK, Keys
  <2> QED
    BY <2>1, <1>7 DEF GetAccounts, browser, TypeOK, Stage
<1>8. ASSUME NEW r \in Requests, AccountsRead(r) PROVE TypeOK'
  BY <1>0, <1>8 DEF AccountsRead, Answer, browser, TypeOK, Stage, Keys
<1>9. ASSUME NEW r \in Requests, AcquireTokenSilent(r) PROVE TypeOK'
  <2>1. Load(user[r], cache[r]) \in 0 .. issued
    BY <1>0, LoadKeeps DEF TypeOK
  <2>2. cache' = [cache EXCEPT ![r] = Load(user[r], cache[r])] /\ cache'[r] \in 0 .. issued
    BY <2>1, <1>9 DEF AcquireTokenSilent, TypeOK
  <2>3. cache' \in [Requests -> 0 .. issued] /\ answer' \in [Requests -> 0 .. issued]
    BY <2>1, <2>2, <1>9 DEF AcquireTokenSilent, Answer, TypeOK
  <2>4. pc' \in [Requests -> Stage]
    BY <1>9 DEF AcquireTokenSilent, Answer, TypeOK, Stage
  <2> QED
    BY <2>3, <2>4, <1>9 DEF AcquireTokenSilent, browser, TypeOK
<1>10. ASSUME NEW r \in Requests, Refresh(r) PROVE TypeOK'
  <2>0. owner[cache[r]] = user[r]
    BY <1>10 DEF Held, Owned, OwnedBy, Refresh
  <2>1. user[r] \in Keys /\ issued + 1 \in 0 .. issued' /\ issued' \in 0 .. MaxTokens
    BY <1>0, <1>10 DEF TypeOK, Redeem, Refresh, Issue
  <2>2. owner' \in [Tokens -> Keys] /\ \A t \in 0 .. issued : t \in 0 .. issued'
    BY <2>0, <2>1, <1>10, IssueKeeps DEF Refresh
  <2>3. staticCache' \in [Keys -> 0 .. issued'] /\ cookie' \in [Browsers -> [Keys -> 0 .. issued']]
    BY <2>2, <1>10 DEF Refresh, Issue, browser, TypeOK
  <2>4. cache' \in [Requests -> 0 .. issued'] /\ answer' \in [Requests -> 0 .. issued']
    BY <2>1, <2>2, <1>10 DEF Refresh, Issue, browser, TypeOK
  <2>5. pc' \in [Requests -> Stage]
    BY <1>10 DEF TypeOK, Refresh, Issue, browser, Stage, TypeOK
  <2> QED
    BY <2>1, <2>2, <2>3, <2>4, <2>5, <1>10 DEF Refresh, Issue, browser, TypeOK
<1>11. ASSUME NEW r \in Requests, SaveRefreshed(r) PROVE TypeOK'
  BY <1>0, <1>11 DEF SaveRefreshed, Persist, CacheId, Answer, browser, TypeOK, Stage, Keys
<1>12. ASSUME NEW r \in Requests, RefreshFails(r) PROVE TypeOK'
  BY <1>0, <1>12 DEF RefreshFails, browser, TypeOK, Stage, Keys
<1>13. ASSUME NEW r \in Requests, Respond(r) PROVE TypeOK'
  BY <1>0, <1>13 DEF Respond, Over, browser, TypeOK, Stage, Keys
<1>14. ASSUME NEW b \in Browsers, SignOut(b) PROVE TypeOK'
  BY <1>0, <1>14 DEF SignOut, request, TypeOK, Stage, Keys
<1>15. ASSUME NEW b \in Browsers, NEW k \in Keys, CookieExpires(b, k) PROVE TypeOK'
  BY <1>0, <1>15 DEF CookieExpires, request, TypeOK, Stage, Keys
<1>16. CASE Restart
  BY <1>0, <1>16 DEF Restart, TypeOK, Stage, Keys
<1>17. CASE UNCHANGED vars
  BY <1>0, <1>17 DEF vars, TypeOK, Stage, Keys
<1> QED
  BY <1>1, <1>2, <1>3, <1>4, <1>5, <1>6, <1>7, <1>8, <1>9, <1>10, <1>11, <1>12, <1>13, <1>14,
     <1>15, <1>16, <1>17 DEF Next, SignIn, Call

\* A token goes only where tokens of its user are kept.
LEMMA OwnedStep == Inv /\ [Next]_vars => Owned'
<1> SUFFICES ASSUME Inv, [Next]_vars PROVE Owned'
  OBVIOUS
<1> USE TokenConstants DEF Inv
<1>0. None \in 0 .. issued /\ issued \in Nat
  BY DEF None, TypeOK
<1>1. ASSUME NEW r \in Requests, NEW b \in Browsers, NEW u \in Users, OnAuthorizationCodeReceived(r, b, u)
      PROVE  Owned'
  <2>1. u \in Keys /\ None \in 0 .. issued
    BY <1>0 DEF TypeOK, Keys
  <2>2. OwnedBy(staticCache[u], u) /\ OwnedBy(None, u)
    BY <2>1 DEF Owned, OwnedBy
  <2>3. OwnedBy(Load(u, None), u)
    BY <2>1, <2>2, LoadKeeps
  <2> QED
    BY <2>1, <2>3, <1>1 DEF OnAuthorizationCodeReceived, browser, Owned, OwnedBy, Held, TypeOK
<1>2. ASSUME NEW r \in Requests, Redeem(r) PROVE Owned'
  <2>1. user[r] \in Keys /\ Issue(r, user[r])
    BY <1>2 DEF Redeem, TypeOK, Held, Owned, OwnedBy
  <2>2. \A t \in 0 .. issued, k \in Keys : OwnedBy(t, k) => OwnedBy(t, k)'
    BY <2>1, IssueKeeps
  <2>3. \A k \in Keys : OwnedBy(staticCache[k], k)'
    BY <2>2, <1>2 DEF Redeem, TypeOK, Owned, OwnedBy
  <2>4. ASSUME NEW b \in Browsers, NEW k \in Keys PROVE OwnedBy(cookie[b][k], k)'
    <3>1. cookie[b][k] \in 0 .. issued /\ OwnedBy(cookie[b][k], k)
      BY DEF TypeOK, Owned
    <3>2. cookie' = cookie
      BY <1>2 DEF Redeem, browser
    <3> QED
      BY <2>2, <3>1, <3>2 DEF OwnedBy
  <2>5. ASSUME NEW q \in Requests
      PROVE  OwnedBy(cache[q], user[q])' /\ OwnedBy(answer[q], user[q])'
    <3>1. OwnedBy(answer[q], user[q])'
      BY <2>2, <1>2 DEF Redeem, TypeOK, Owned, OwnedBy
    <3>2. CASE q = r
      <4>1. cache'[r] = issued + 1 /\ owner'[issued + 1] = user[r] /\ user' = user
        BY <2>1, <1>2, IssueKeeps DEF Redeem, Issue, TypeOK
      <4> QED
        BY <3>1, <3>2, <4>1 DEF OwnedBy
    <3>3. CASE q # r
      <4>1. cache'[q] = cache[q] /\ user' = user
        BY <3>3, <1>2 DEF Redeem, Issue, TypeOK
      <4>2. cache[q] \in 0 .. issued /\ user[q] \in Keys /\ OwnedBy(cache[q], user[q])
        BY DEF TypeOK, Owned
      <4> QED
        BY <3>1, <2>2, <4>1, <4>2 DEF OwnedBy
    <3> QED
      BY <3>2, <3>3
  <2> QED
    BY <2>3, <2>4, <2>5 DEF Owned
<1>3. ASSUME NEW r \in Requests, SaveSignIn(r) PROVE Owned'
  BY <1>0, <1>3 DEF SaveSignIn, Persist, CacheId, browser, Owned, OwnedBy, Held, TypeOK
<1>4. ASSUME NEW r \in Requests, SignedIn(r) PROVE Owned'
  BY <1>0, <1>4 DEF SignedIn, Over, CookieKey, Owned, OwnedBy, Held, TypeOK
<1>5. ASSUME NEW r \in Requests, SignInFails(r) PROVE Owned'
  BY <1>0, <1>5 DEF SignInFails, Over, browser, Owned, OwnedBy, Held, TypeOK
<1>6. ASSUME NEW r \in Requests, NEW b \in Browsers, GetAuthenticationToken(r, b) PROVE Owned'
  <2>0. identity[b] \in Keys /\ OwnedBy(staticCache[identity[b]], identity[b])
    BY DEF TypeOK, Owned
  <2>1. identity[b] \in Keys /\ OwnedBy(Load(identity[b], None), identity[b])
    BY <1>0, <2>0, LoadKeeps DEF OwnedBy
  <2>2. OwnedBy(cookie[b][identity[b]], identity[b])
    BY <2>1 DEF Owned
  <2>3. owner' = owner /\ staticCache' = staticCache /\ cookie' = cookie
    BY <1>6 DEF GetAuthenticationToken, browser
  <2>4. user' = [user EXCEPT ![r] = identity[b]] /\ answer[r] = None
    BY <1>6 DEF GetAuthenticationToken, Held
  <2>5. \/ cache' = cache /\ cache[r] = None
        \/ cache' = [cache EXCEPT ![r] = Load(identity[b], None)]
    BY <1>6 DEF GetAuthenticationToken, Held
  <2>6. \/ answer' = answer
        \/ answer' = [answer EXCEPT ![r] = cookie[b][identity[b]]]
    BY <1>6 DEF GetAuthenticationToken, CookieKey, Answer
  <2>7. ASSUME NEW q \in Requests
      PROVE  OwnedBy(cache[q], user[q])' /\ OwnedBy(answer[q], user[q])'
    <3>1. OwnedBy(cache[q], user[q]) /\ OwnedBy(answer[q], user[q])
      BY DEF Owned
    <3>2. OwnedBy(cache[q], user[q])'
      BY <2>1, <2>3, <2>4, <2>5, <3>1 DEF OwnedBy, TypeOK
    <3>3. OwnedBy(answer[q], user[q])'
      BY <2>2, <2>3, <2>4, <2>6, <3>1 DEF OwnedBy, TypeOK
    <3> QED
      BY <3>2, <3>3
  <2> QED
    BY <2>3, <2>7 DEF Owned, OwnedBy
<1>7. ASSUME NEW r \in Requests, GetAccounts(r) PROVE Owned'
  <2>1. user[r] \in Keys /\ cache[r] \in 0 .. issued
    BY <1>0 DEF TypeOK, Keys
  <2>2. OwnedBy(staticCache[user[r]], user[r]) /\ OwnedBy(cache[r], user[r])
    BY <2>1 DEF Owned, OwnedBy
  <2>3. OwnedBy(Load(user[r], cache[r]), user[r])
    BY <2>1, <2>2, LoadKeeps
  <2> QED
    BY <2>1, <2>3, <1>7 DEF GetAccounts, browser, Owned, OwnedBy, Held, TypeOK
<1>8. ASSUME NEW r \in Requests, AccountsRead(r) PROVE Owned'
  BY <1>0, <1>8 DEF AccountsRead, Answer, browser, Owned, OwnedBy, Held, TypeOK
<1>9. ASSUME NEW r \in Requests, AcquireTokenSilent(r) PROVE Owned'
  <2>1. user[r] \in Keys /\ cache[r] \in 0 .. issued
    BY <1>0 DEF TypeOK, Keys
  <2>2. OwnedBy(staticCache[user[r]], user[r]) /\ OwnedBy(cache[r], user[r])
    BY <2>1 DEF Owned, OwnedBy
  <2>3. OwnedBy(Load(user[r], cache[r]), user[r])
    BY <2>1, <2>2, LoadKeeps
  <2> QED
    BY <2>1, <2>3, <1>9 DEF AcquireTokenSilent, Answer, browser, Owned, OwnedBy, Held, TypeOK
<1>10. ASSUME NEW r \in Requests, Refresh(r) PROVE Owned'
  <2>1. user[r] \in Keys /\ Issue(r, user[r])
    BY <1>10 DEF Refresh, TypeOK, Held, Owned, OwnedBy
  <2>2. \A t \in 0 .. issued, k \in Keys : OwnedBy(t, k) => OwnedBy(t, k)'
    BY <2>1, IssueKeeps
  <2>3. \A k \in Keys : OwnedBy(staticCache[k], k)'
    BY <2>2, <1>10 DEF Refresh, TypeOK, Owned, OwnedBy
  <2>4. ASSUME NEW b \in Browsers, NEW k \in Keys PROVE OwnedBy(cookie[b][k], k)'
    <3>1. cookie[b][k] \in 0 .. issued /\ OwnedBy(cookie[b][k], k)
      BY DEF TypeOK, Owned
    <3>2. cookie' = cookie
      BY <1>10 DEF Refresh, browser
    <3> QED
      BY <2>2, <3>1, <3>2 DEF OwnedBy
  <2>5. ASSUME NEW q \in Requests
      PROVE  OwnedBy(cache[q], user[q])' /\ OwnedBy(answer[q], user[q])'
    <3>1. OwnedBy(answer[q], user[q])'
      BY <2>2, <1>10 DEF Refresh, TypeOK, Owned, OwnedBy
    <3>2. CASE q = r
      <4>1. cache'[r] = issued + 1 /\ owner'[issued + 1] = user[r] /\ user' = user
        BY <2>1, <1>10, IssueKeeps DEF Refresh, Issue, TypeOK
      <4> QED
        BY <3>1, <3>2, <4>1 DEF OwnedBy
    <3>3. CASE q # r
      <4>1. cache'[q] = cache[q] /\ user' = user
        BY <3>3, <1>10 DEF Refresh, Issue, TypeOK
      <4>2. cache[q] \in 0 .. issued /\ user[q] \in Keys /\ OwnedBy(cache[q], user[q])
        BY DEF TypeOK, Owned
      <4> QED
        BY <3>1, <2>2, <4>1, <4>2 DEF OwnedBy
    <3> QED
      BY <3>2, <3>3
  <2> QED
    BY <2>3, <2>4, <2>5 DEF Owned
<1>11. ASSUME NEW r \in Requests, SaveRefreshed(r) PROVE Owned'
  BY <1>0, <1>11 DEF SaveRefreshed, Persist, CacheId, Answer, browser, Owned, OwnedBy, Held,
     TypeOK
<1>12. ASSUME NEW r \in Requests, RefreshFails(r) PROVE Owned'
  BY <1>0, <1>12 DEF RefreshFails, browser, Owned, OwnedBy, Held, TypeOK
<1>13. ASSUME NEW r \in Requests, Respond(r) PROVE Owned'
  BY <1>0, <1>13 DEF Respond, Over, browser, Owned, OwnedBy, Held, TypeOK
<1>14. ASSUME NEW b \in Browsers, SignOut(b) PROVE Owned'
  BY <1>0, <1>14 DEF SignOut, request, Owned, OwnedBy, Held, TypeOK
<1>15. ASSUME NEW b \in Browsers, NEW k \in Keys, CookieExpires(b, k) PROVE Owned'
  BY <1>0, <1>15 DEF CookieExpires, request, Owned, OwnedBy, Held, TypeOK
<1>16. CASE Restart
  BY <1>0, <1>16 DEF Restart, Owned, OwnedBy, Held, TypeOK
<1>17. CASE UNCHANGED vars
  BY <1>0, <1>17 DEF vars, Owned, OwnedBy, Held, TypeOK
<1> QED
  BY <1>1, <1>2, <1>3, <1>4, <1>5, <1>6, <1>7, <1>8, <1>9, <1>10, <1>11, <1>12, <1>13, <1>14,
     <1>15, <1>16, <1>17 DEF Next, SignIn, Call

\* A token is where it is needed.
LEMMA HeldStep == Inv /\ [Next]_vars => Held'
<1> SUFFICES ASSUME Inv, [Next]_vars PROVE Held'
  OBVIOUS
<1> USE TokenConstants DEF Inv
<1>0. None \in 0 .. issued /\ issued \in Nat
  BY DEF None, TypeOK
<1>1. ASSUME NEW r \in Requests, NEW b \in Browsers, NEW u \in Users, OnAuthorizationCodeReceived(r, b, u)
      PROVE  Held'
  BY <1>0, <1>1 DEF OnAuthorizationCodeReceived, Load, CacheId, browser, Held, TypeOK, Stage
<1>2. ASSUME NEW r \in Requests, Redeem(r) PROVE Held'
  BY <1>0, <1>2 DEF Redeem, Issue, browser, Held, TypeOK, Stage
<1>3. ASSUME NEW r \in Requests, SaveSignIn(r) PROVE Held'
  BY <1>0, <1>3 DEF SaveSignIn, Persist, CacheId, browser, Held, TypeOK, Stage
<1>4. ASSUME NEW r \in Requests, SignedIn(r) PROVE Held'
  BY <1>0, <1>4 DEF SignedIn, Over, CookieKey, Held, TypeOK, Stage
<1>5. ASSUME NEW r \in Requests, SignInFails(r) PROVE Held'
  BY <1>0, <1>5 DEF SignInFails, Over, browser, Held, TypeOK, Stage
<1>6. ASSUME NEW r \in Requests, NEW b \in Browsers, GetAuthenticationToken(r, b) PROVE Held'
  BY <1>0, <1>6 DEF GetAuthenticationToken, Load, CacheId, CookieKey, Answer, browser, Held,
     TypeOK, Stage
<1>7. ASSUME NEW r \in Requests, GetAccounts(r) PROVE Held'
  BY <1>0, <1>7 DEF GetAccounts, Load, CacheId, browser, Held, TypeOK, Stage
<1>8. ASSUME NEW r \in Requests, AccountsRead(r) PROVE Held'
  BY <1>0, <1>8 DEF AccountsRead, Answer, browser, Held, TypeOK, Stage
<1>9. ASSUME NEW r \in Requests, AcquireTokenSilent(r) PROVE Held'
  BY <1>0, <1>9 DEF AcquireTokenSilent, Load, CacheId, Answer, browser, Held, TypeOK, Stage
<1>10. ASSUME NEW r \in Requests, Refresh(r) PROVE Held'
  BY <1>0, <1>10 DEF Refresh, Issue, browser, Held, TypeOK, Stage
<1>11. ASSUME NEW r \in Requests, SaveRefreshed(r) PROVE Held'
  BY <1>0, <1>11 DEF SaveRefreshed, Persist, CacheId, Answer, browser, Held, TypeOK, Stage
<1>12. ASSUME NEW r \in Requests, RefreshFails(r) PROVE Held'
  BY <1>0, <1>12 DEF RefreshFails, browser, Held, TypeOK, Stage
<1>13. ASSUME NEW r \in Requests, Respond(r) PROVE Held'
  BY <1>0, <1>13 DEF Respond, Over, browser, Held, TypeOK, Stage
<1>14. ASSUME NEW b \in Browsers, SignOut(b) PROVE Held'
  BY <1>0, <1>14 DEF SignOut, request, Held, TypeOK, Stage
<1>15. ASSUME NEW b \in Browsers, NEW k \in Keys, CookieExpires(b, k) PROVE Held'
  BY <1>0, <1>15 DEF CookieExpires, request, Held, TypeOK, Stage
<1>16. CASE Restart
  BY <1>0, <1>16 DEF Restart, Held, TypeOK, Stage
<1>17. CASE UNCHANGED vars
  BY <1>0, <1>17 DEF vars, Held, TypeOK, Stage
<1> QED
  BY <1>1, <1>2, <1>3, <1>4, <1>5, <1>6, <1>7, <1>8, <1>9, <1>10, <1>11, <1>12, <1>13, <1>14,
     <1>15, <1>16, <1>17 DEF Next, SignIn, Call

\* What a browser or a request relies on stays there, until the process ends.
LEMMA ReliableStep == Inv /\ [Next]_vars => Reliable'
<1> SUFFICES ASSUME Inv, [Next]_vars PROVE Reliable'
  OBVIOUS
<1> USE TokenConstants DEF Inv
<1>0. None \in 0 .. issued /\ issued \in Nat
  BY DEF None, TypeOK
<1>1. ASSUME NEW r \in Requests, NEW b \in Browsers, NEW u \in Users, OnAuthorizationCodeReceived(r, b, u)
      PROVE  Reliable'
  BY <1>0, <1>1 DEF OnAuthorizationCodeReceived, Load, CacheId, browser, Reliable, Held,
     TypeOK, Stage
<1>2. ASSUME NEW r \in Requests, Redeem(r) PROVE Reliable'
  BY <1>0, <1>2 DEF Redeem, Issue, browser, Reliable, Held, TypeOK, Stage
<1>3. ASSUME NEW r \in Requests, SaveSignIn(r) PROVE Reliable'
  BY <1>0, <1>3 DEF SaveSignIn, Persist, CacheId, browser, Reliable, Held, TypeOK, Stage
<1>4. ASSUME NEW r \in Requests, SignedIn(r) PROVE Reliable'
  BY <1>0, <1>4 DEF SignedIn, Over, CookieKey, Reliable, Held, TypeOK, Stage
<1>5. ASSUME NEW r \in Requests, SignInFails(r) PROVE Reliable'
  BY <1>0, <1>5 DEF SignInFails, Over, browser, Reliable, Held, TypeOK, Stage
<1>6. ASSUME NEW r \in Requests, NEW b \in Browsers, GetAuthenticationToken(r, b)
      PROVE  Reliable'
  BY <1>0, <1>6 DEF GetAuthenticationToken, Load, CacheId, CookieKey, Answer, browser,
     Reliable, Held, TypeOK, Stage
<1>7. ASSUME NEW r \in Requests, GetAccounts(r) PROVE Reliable'
  BY <1>0, <1>7 DEF GetAccounts, Load, CacheId, browser, Reliable, Held, TypeOK, Stage
<1>8. ASSUME NEW r \in Requests, AccountsRead(r) PROVE Reliable'
  BY <1>0, <1>8 DEF AccountsRead, Answer, browser, Reliable, Held, TypeOK, Stage
<1>9. ASSUME NEW r \in Requests, AcquireTokenSilent(r) PROVE Reliable'
  BY <1>0, <1>9 DEF AcquireTokenSilent, Load, CacheId, Answer, browser, Reliable, Held,
     TypeOK, Stage
<1>10. ASSUME NEW r \in Requests, Refresh(r) PROVE Reliable'
  BY <1>0, <1>10 DEF Refresh, Issue, browser, Reliable, Held, TypeOK, Stage
<1>11. ASSUME NEW r \in Requests, SaveRefreshed(r) PROVE Reliable'
  BY <1>0, <1>11 DEF SaveRefreshed, Persist, CacheId, Answer, browser, Reliable, Held, TypeOK,
     Stage
<1>12. ASSUME NEW r \in Requests, RefreshFails(r) PROVE Reliable'
  BY <1>0, <1>12 DEF RefreshFails, browser, Reliable, Held, TypeOK, Stage
<1>13. ASSUME NEW r \in Requests, Respond(r) PROVE Reliable'
  BY <1>0, <1>13 DEF Respond, Over, browser, Reliable, Held, TypeOK, Stage
<1>14. ASSUME NEW b \in Browsers, SignOut(b) PROVE Reliable'
  BY <1>0, <1>14 DEF SignOut, request, Reliable, Held, TypeOK, Stage
<1>15. ASSUME NEW b \in Browsers, NEW k \in Keys, CookieExpires(b, k) PROVE Reliable'
  BY <1>0, <1>15 DEF CookieExpires, request, Reliable, Held, TypeOK, Stage
<1>16. CASE Restart
  BY <1>0, <1>16 DEF Restart, Reliable, Held, TypeOK, Stage
<1>17. CASE UNCHANGED vars
  BY <1>0, <1>17 DEF vars, Reliable, Held, TypeOK, Stage
<1> QED
  BY <1>1, <1>2, <1>3, <1>4, <1>5, <1>6, <1>7, <1>8, <1>9, <1>10, <1>11, <1>12, <1>13, <1>14,
     <1>15, <1>16, <1>17 DEF Next, SignIn, Call

\* The four parts of the invariant together.
LEMMA InvStep == Inv /\ [Next]_vars => Inv'
  BY TypeStep, OwnedStep, HeldStep, ReliableStep DEF Inv

-----------------------------------------------------------------------------
(* Theorems                                                                 *)

\* The invariant holds in every reachable state.
THEOREM Invariance == Spec => []Inv
<1>1. Init => Inv
  BY InitInv
<1>2. Inv /\ [Next]_vars => Inv'
  BY InvStep
<1> QED
  BY <1>1, <1>2, PTL DEF Spec

\* The variables keep their types.
THEOREM TypeCorrect == Spec => []TypeOK
<1>1. Inv => TypeOK
  BY DEF Inv
<1> QED
  BY <1>1, Invariance, PTL

\* No request is ever answered with the token of another user.
THEOREM OnlyOwnTokens == Spec => []OwnTokens
<1>1. Inv => OwnTokens
  BY DEF Inv, Owned, OwnedBy, OwnTokens
<1> QED
  BY <1>1, Invariance, PTL

\* Whoever signed in with this process gets a token, or an exception.
THEOREM TokenForTheSignedIn == Spec => []SignedInHasToken
<1>1. Inv => SignedInHasToken
  BY DEF Inv, Reliable, SignedInHasToken
<1> QED
  BY <1>1, Invariance, PTL

\* No request takes an account out of the dictionary: whoever persists a cache
\* holds a token in it.
THEOREM Remembered == Spec => NeverForgets
<1> DEFINE Kept == \A u \in Users : staticCache[u] # None => staticCache'[u] # None \/ Restart
<1>1. Inv /\ [Next]_vars => [Kept]_vars
  <2> SUFFICES ASSUME Inv, [Next]_vars, NEW u \in Users, staticCache[u] # None, ~Restart
               PROVE  staticCache'[u] # None
    OBVIOUS
  <2>1. ASSUME NEW r \in Requests, SaveSignIn(r) \/ SaveRefreshed(r)
      PROVE  staticCache'[u] # None
    <3>1. cache[r] # None /\ staticCache' = [staticCache EXCEPT ![user[r]] = cache[r]]
      BY <2>1 DEF Inv, Held, SaveSignIn, SaveRefreshed, Persist, CacheId
    <3> QED
      BY <3>1 DEF Inv, TypeOK, Keys
  <2>2. CASE UNCHANGED staticCache
    BY <2>2
  <2>3. (\E r \in Requests : SaveSignIn(r) \/ SaveRefreshed(r)) \/ UNCHANGED staticCache
    BY DEF Next, SignIn, Call, vars, OnAuthorizationCodeReceived, Redeem, SignedIn,
       SignInFails, GetAuthenticationToken, GetAccounts, AccountsRead,
       AcquireTokenSilent, Refresh, RefreshFails, Respond, SignOut, CookieExpires
  <2> QED
    BY <2>1, <2>2, <2>3
<1> QED
  BY <1>1, Invariance, PTL DEF Spec, NeverForgets

-----------------------------------------------------------------------------
(* Requests of one user that do not overlap                                 *)

\* The request r has redeemed a token that it has not persisted yet.
Storing(r) == pc[r] \in {"save", "saveNew"}

\* Between the issue of a token and its Persist no other request of that user
\* redeems one.  The code does not see to it.
OneAtATime ==
    \A p, q \in Requests : p # q /\ Storing(p) /\ Storing(q) => user[p] # user[q]

\* No token of u was issued after t.
Newest(t, u) == \A s \in 1 .. issued : owner[s] = u => s <= t

\* The entry of a user is the last token issued to that user, or a request is
\* about to put that token there.
EntriesAreNewest ==
    \A u \in Users : staticCache[u] # None =>
        Newest(staticCache[u], u) \/ \E r \in Requests : Storing(r) /\ user[r] = u

\* And what it puts there is that token.
NewestInv ==
    /\ EntriesAreNewest
    /\ \A r \in Requests : Storing(r) => Newest(cache[r], user[r])

\* A token issued to the user of r is that user's newest, and the others keep
\* theirs.  Without OneAtATime' the cache of another request of that user is old.
LEMMA IssueNewest ==
    ASSUME Inv, NewestInv, OneAtATime', NEW r \in Requests, NEW stage \in {"save", "saveNew"},
           ~Storing(r), Issue(r, user[r]), pc' = [pc EXCEPT ![r] = stage],
           UNCHANGED <<staticCache, user>>
    PROVE  NewestInv'
<1>1. /\ issued \in Nat /\ issued' = issued + 1
      /\ owner'[issued + 1] = user[r]
      /\ \A s \in 1 .. issued : owner'[s] = owner[s]
  <2>1. user[r] \in Keys BY DEF Inv, TypeOK
  <2>2. /\ issued \in Nat /\ issued' = issued + 1 /\ issued + 1 \in Tokens
        /\ owner'[issued + 1] = user[r]
        BY <2>1, IssueKeeps DEF Inv
  <2>3. \A s \in 1 .. issued : s \in Tokens /\ s # issued + 1
        BY <2>2, TokenConstants DEF Tokens, Inv, TypeOK
  <2> QED BY <2>2, <2>3 DEF Issue, Inv, TypeOK
<1>2. ASSUME NEW k, NEW t, k # user[r], \A s \in 1 .. issued : owner[s] = k => s <= t
      PROVE  \A s \in 1 .. issued' : owner'[s] = k => s <= t
  <2>1. ASSUME NEW s \in 1 .. issued', owner'[s] = k PROVE s \in 1 .. issued
        BY <1>1, <1>2, <2>1
  <2> QED BY <1>1, <1>2, <2>1
<1>3. \A s \in 1 .. issued' : s <= issued + 1 BY <1>1
<1>4. Storing(r)' /\ \A q \in Requests : q # r => (Storing(q)' <=> Storing(q))
      BY DEF Storing, Inv, TypeOK
<1>5. cache'[r] = issued + 1 /\ \A q \in Requests : q # r => cache'[q] = cache[q]
      BY DEF Issue, Inv, TypeOK
<1>6. EntriesAreNewest'
  <2>1. SUFFICES ASSUME NEW u \in Users, staticCache'[u] # None,
                        ~ \E q \in Requests : Storing(q)' /\ user'[q] = u
                 PROVE  \A s \in 1 .. issued' : owner'[s] = u => s <= staticCache'[u]
        BY DEF EntriesAreNewest, Newest
  <2>2. u # user[r] BY <1>4, <2>1
  <2>3. ~ \E q \in Requests : Storing(q) /\ user[q] = u BY <1>4, <2>1, <2>2
  <2>4. \A s \in 1 .. issued : owner[s] = u => s <= staticCache[u]
        BY <2>1, <2>3 DEF NewestInv, EntriesAreNewest, Newest
  <2> QED BY <1>2, <2>2, <2>4
<1>7. ASSUME NEW q \in Requests, Storing(q)'
      PROVE  \A s \in 1 .. issued' : owner'[s] = user'[q] => s <= cache'[q]
  <2>1. CASE q = r BY <1>3, <1>5, <2>1
  <2>2. CASE q # r
    <3>1. Storing(q) /\ user[q] # user[r] BY <1>4, <1>7, <2>2 DEF OneAtATime
    <3>2. \A s \in 1 .. issued : owner[s] = user[q] => s <= cache[q]
          BY <3>1 DEF NewestInv, Newest
    <3>3. cache'[q] = cache[q] /\ user'[q] = user[q] BY <1>5, <2>2
    <3> QED BY <1>2, <3>1, <3>2, <3>3
  <2> QED BY <2>1, <2>2
<1> QED BY <1>6, <1>7 DEF NewestInv, Newest

\* Persist puts the newest token of the user there.
LEMMA StoreNewest ==
    ASSUME Inv, NewestInv, NEW r \in Requests, Storing(r), Persist(user[r], cache[r]),
           NEW stage \in {"signedIn", "answered"}, pc' = [pc EXCEPT ![r] = stage],
           UNCHANGED <<issued, owner, user, cache>>
    PROVE  NewestInv'
<1>1. ~Storing(r)' /\ \A q \in Requests : q # r => (Storing(q)' <=> Storing(q))
      BY DEF Storing, Inv, TypeOK
<1>2. /\ user[r] \in Keys
      /\ staticCache'[user[r]] = cache[r]
      /\ \A u \in Users : u # user[r] => staticCache'[u] = staticCache[u]
      BY DEF Persist, CacheId, Inv, TypeOK, Keys
<1>3. EntriesAreNewest'
  <2>1. SUFFICES ASSUME NEW u \in Users, staticCache'[u] # None,
                        ~ \E q \in Requests : Storing(q)' /\ user'[q] = u
                 PROVE  \A s \in 1 .. issued : owner[s] = u => s <= staticCache'[u]
        BY DEF EntriesAreNewest, Newest
  <2>2. CASE u = user[r] BY <1>2, <2>2 DEF NewestInv, Newest
  <2>3. CASE u # user[r]
    <3>1. ~ \E q \in Requests : Storing(q) /\ user[q] = u BY <1>1, <2>1, <2>3
    <3> QED BY <1>2, <2>1, <2>3, <3>1 DEF NewestInv, EntriesAreNewest, Newest
  <2> QED BY <2>2, <2>3
<1>4. ASSUME NEW q \in Requests, Storing(q)'
      PROVE  \A s \in 1 .. issued : owner[s] = user[q] => s <= cache[q]
  <2>1. Storing(q) BY <1>1, <1>4
  <2> QED BY <2>1 DEF NewestInv, Newest
<1> QED BY <1>3, <1>4 DEF NewestInv, Newest

\* The other steps leave the dictionary, the tokens issued and the requests that
\* have one to store.
LEMMA OthersNewest ==
    ASSUME NewestInv, UNCHANGED <<staticCache, issued, owner>>,
           \A q \in Requests : Storing(q)' <=> Storing(q),
           \A q \in Requests : Storing(q) => user'[q] = user[q] /\ cache'[q] = cache[q]
    PROVE  NewestInv'
<1>1. EntriesAreNewest' BY DEF NewestInv, EntriesAreNewest, Newest
<1>2. ASSUME NEW q \in Requests, Storing(q)'
      PROVE  \A s \in 1 .. issued : owner[s] = user'[q] => s <= cache'[q]
      BY <1>2 DEF NewestInv, Newest
<1> QED BY <1>1, <1>2 DEF NewestInv, Newest

LEMMA NewestStep ==
    ASSUME Inv, NewestInv, OneAtATime', [Next]_vars
    PROVE  NewestInv'
<1>1. ASSUME NEW r \in Requests, NEW b \in Browsers, NEW u \in Users,
             OnAuthorizationCodeReceived(r, b, u)
      PROVE  NewestInv'
      BY <1>1, OthersNewest DEF OnAuthorizationCodeReceived, Storing, Inv, TypeOK
<1>2. ASSUME NEW r \in Requests, Redeem(r) PROVE NewestInv'
      BY <1>2, IssueNewest DEF Redeem, Storing
<1>3. ASSUME NEW r \in Requests, SaveSignIn(r) PROVE NewestInv'
      BY <1>3, StoreNewest DEF SaveSignIn, Storing
<1>4. ASSUME NEW r \in Requests, SignedIn(r) PROVE NewestInv'
      BY <1>4, OthersNewest DEF SignedIn, Over, Storing, Inv, TypeOK
<1>5. ASSUME NEW r \in Requests, SignInFails(r) PROVE NewestInv'
      BY <1>5, OthersNewest DEF SignInFails, Over, Storing, Inv, TypeOK
<1>6. ASSUME NEW r \in Requests, NEW b \in Browsers, GetAuthenticationToken(r, b)
      PROVE  NewestInv'
      BY <1>6, OthersNewest DEF GetAuthenticationToken, Answer, Storing, Inv, TypeOK
<1>7. ASSUME NEW r \in Requests, GetAccounts(r) PROVE NewestInv'
      BY <1>7, OthersNewest DEF GetAccounts, Storing, Inv, TypeOK
<1>8. ASSUME NEW r \in Requests, AccountsRead(r) PROVE NewestInv'
      BY <1>8, OthersNewest DEF AccountsRead, Answer, Storing, Inv, TypeOK
<1>9. ASSUME NEW r \in Requests, AcquireTokenSilent(r) PROVE NewestInv'
      BY <1>9, OthersNewest DEF AcquireTokenSilent, Answer, Storing, Inv, TypeOK
<1>10. ASSUME NEW r \in Requests, Refresh(r) PROVE NewestInv'
  <2>1. owner[cache[r]] = user[r] BY <1>10 DEF Refresh, Inv, Held, Owned, OwnedBy
  <2> QED BY <1>10, <2>1, IssueNewest DEF Refresh, Storing
<1>11. ASSUME NEW r \in Requests, SaveRefreshed(r) PROVE NewestInv'
      BY <1>11, StoreNewest DEF SaveRefreshed, Answer, Storing
<1>12. ASSUME NEW r \in Requests, RefreshFails(r) PROVE NewestInv'
      BY <1>12, OthersNewest DEF RefreshFails, Storing, Inv, TypeOK
<1>13. ASSUME NEW r \in Requests, Respond(r) PROVE NewestInv'
      BY <1>13, OthersNewest DEF Respond, Over, Storing, Inv, TypeOK
<1>14. ASSUME NEW b \in Browsers, SignOut(b) PROVE NewestInv'
      BY <1>14, OthersNewest DEF SignOut, request, Storing
<1>15. ASSUME NEW b \in Browsers, NEW k \in Keys, CookieExpires(b, k) PROVE NewestInv'
      BY <1>15, OthersNewest DEF CookieExpires, request, Storing
<1>16. CASE Restart
      BY <1>16 DEF Restart, NewestInv, EntriesAreNewest, Storing, Keys
<1>17. CASE UNCHANGED vars
      BY <1>17, OthersNewest DEF vars, Storing
<1> QED
      BY <1>1, <1>2, <1>3, <1>4, <1>5, <1>6, <1>7, <1>8, <1>9, <1>10, <1>11, <1>12, <1>13,
         <1>14, <1>15, <1>16, <1>17 DEF Next, SignIn, Call

\* As long as the requests of one user redeem one at a time, the entry of a user
\* is the newest token there is, or about to be: nothing but such an overlap can
\* put an older token back.
THEOREM NewestTokenStays == Spec /\ []OneAtATime => []EntriesAreNewest
<1>1. Init => NewestInv
      BY DEF Init, NewestInv, EntriesAreNewest, Storing, Keys
<1>2. Inv /\ NewestInv /\ OneAtATime' /\ [Next]_vars => NewestInv' BY NewestStep
<1>3. NewestInv => EntriesAreNewest BY DEF NewestInv
<1> QED BY <1>1, <1>2, <1>3, Invariance, PTL DEF Spec
=============================================================================
