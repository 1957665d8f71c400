----------------------------- MODULE WebSession -----------------------------
(***************************************************************************)
(* Signing in and out of the dashboard in the tabs of one browser.  The    *)
(* access token is kept in localStorage, with a copy in a cookie that only *)
(* the middleware of the web application reads; each tab checks it once,   *)
(* when its AuthProvider mounts, and goes on with the user and the token   *)
(* it got.  The refresh token is in a cookie that the API sets.            *)
(***************************************************************************)
EXTENDS Naturals, FiniteSets

CONSTANTS
    BrowserTabs,
    AccessTokens,   \* tokens that sign-ins get, each with its refresh token
    UserOf,         \* the user each is issued to
    NoToken         \* no token, or no user

ASSUME WebSessionAssumption ==
    /\ NoToken \notin AccessTokens
    /\ NoToken \notin {UserOf[t] : t \in AccessTokens}

VARIABLES
    localToken,     \* localStorage
    tokenCookie,    \* the copy for the middleware
    refreshCookie,  \* the cookie jar: the refresh token, named by its access token
    accessToken,    \* what the API says of each access token
    sessionRow,     \* tokens whose refresh token has a session
    webPage         \* the tabs, each with the token its request in flight is about

browserVars == <<localToken, tokenCookie, refreshCookie>>

webVars == <<browserVars, accessToken, sessionRow, webPage>>
-----------------------------------------------------------------------------
OptionalToken == AccessTokens \union {NoToken}

\* A new page has no state: the form of /login or /register, or a provider that has
\* not asked yet.
NewPage(at) == [at |-> at, user |-> NoToken, token |-> NoToken, pending |-> NoToken]

WebTypeOK ==
    /\ {localToken, tokenCookie, refreshCookie} \subseteq OptionalToken
    /\ accessToken \in [AccessTokens -> {"unissued", "good", "expired"}]
    /\ sessionRow \subseteq AccessTokens
    /\ webPage \in [BrowserTabs ->
          [at : {"login", "submitted", "answered", "dashboard", "leaving"},
           user : {UserOf[t] : t \in AccessTokens} \union {NoToken},
           token : OptionalToken, pending : OptionalToken]]

\* The path the refresh cookie is set for: the browser attaches it to requests for
\* this path only, and clearCookie, which names no path, means the one for "/".
RefreshCookiePath == "/v1/auth/refresh"

Attached(path) == IF path = RefreshCookiePath THEN {refreshCookie} \ {NoToken} ELSE {}

setAccessToken(t) == localToken' = t /\ tokenCookie' = t

clearAccessToken == localToken' = NoToken /\ tokenCookie' = NoToken
-----------------------------------------------------------------------------
(* LoginPage and RegisterPage *)

OpenLogin(p) ==
    /\ webPage[p].at = "dashboard"
    /\ webPage' = [webPage EXCEPT ![p] = NewPage("login")]
    /\ UNCHANGED <<browserVars, accessToken, sessionRow>>

SubmitLogin(p) ==
    /\ webPage[p].at = "login"
    /\ webPage' = [webPage EXCEPT ![p].at = "submitted"]
    /\ UNCHANGED <<browserVars, accessToken, sessionRow>>

\* The API issues the tokens and stores the session.
AnswerLogin(p, t) ==
    /\ webPage[p].at = "submitted"
    /\ accessToken[t] = "unissued"
    /\ accessToken' = [accessToken EXCEPT ![t] = "good"]
    /\ sessionRow' = sessionRow \union {t}
    /\ webPage' = [webPage EXCEPT ![p].at = "answered", ![p].pending = t]
    /\ UNCHANGED browserVars

\* The browser keeps the refresh cookie of the answer, handleSubmit the access token;
\* the dashboard is pushed.
SignIn(p) ==
    /\ webPage[p].at = "answered"
    /\ setAccessToken(webPage[p].pending)
    /\ refreshCookie' = webPage[p].pending
    /\ webPage' = [webPage EXCEPT ![p] = NewPage("login")]
    /\ UNCHANGED <<accessToken, sessionRow>>

\* Refused, asked for a second factor, or the answer is lost.
LoginFails(p) ==
    /\ webPage[p].at \in {"submitted", "answered"}
    /\ webPage' = [webPage EXCEPT ![p] = NewPage("login")]
    /\ UNCHANGED <<browserVars, accessToken, sessionRow>>
-----------------------------------------------------------------------------
(* The middleware, and AuthProvider *)

\* The page is loaded when its cookie is there; its provider asks who the token in
\* localStorage is.
OpenDashboard(p) ==
    /\ webPage[p].at \in {"login", "dashboard"}
    /\ tokenCookie # NoToken
    /\ webPage' = [webPage EXCEPT ![p] = [NewPage("dashboard") EXCEPT !.pending = localToken]]
    /\ UNCHANGED <<browserVars, accessToken, sessionRow>>

\* A link of the dashboard, without the cookie.
RedirectToLogin(p) ==
    /\ webPage[p].at = "dashboard"
    /\ tokenCookie = NoToken
    /\ webPage' = [webPage EXCEPT ![p] = NewPage("login")]
    /\ UNCHANGED <<browserVars, accessToken, sessionRow>>

Asking(p) == webPage[p].pending # NoToken /\ webPage[p].at \in {"dashboard", "leaving"}

\* Mutation: the token is read again after the answer.
MeAnswers_ReadAgain(p) ==
    /\ Asking(p)
    /\ accessToken[webPage[p].pending] = "good"
    /\ webPage' = [webPage EXCEPT ![p].user = UserOf[webPage[p].pending], ![p].token = localToken,
                               ![p].pending = NoToken]
    /\ UNCHANGED <<browserVars, accessToken, sessionRow>>

\* refreshUser sets the user and the token it asked about, whatever is stored by now.
MeAnswers(p) ==
    /\ Asking(p)
    /\ accessToken[webPage[p].pending] = "good"
    /\ webPage' = [webPage EXCEPT ![p].user = UserOf[webPage[p].pending],
                               ![p].token = webPage[p].pending, ![p].pending = NoToken]
    /\ UNCHANGED <<browserVars, accessToken, sessionRow>>

\* The token ran out, or the request was lost: the one that is stored by now goes.
MeFails(p) ==
    /\ Asking(p)
    /\ clearAccessToken
    /\ webPage' = [webPage EXCEPT ![p] = [NewPage("dashboard") EXCEPT !.at = webPage[p].at]]
    /\ UNCHANGED <<refreshCookie, accessToken, sessionRow>>

\* The button is there while the provider is still asking.
SignOut(p) ==
    /\ webPage[p].at = "dashboard"
    /\ webPage' = [webPage EXCEPT ![p].at = "leaving"]
    /\ UNCHANGED <<browserVars, accessToken, sessionRow>>

\* AuthController.logout ends the session of the refresh token that came with it.
LogoutHandled(p) ==
    /\ webPage[p].at = "leaving"
    /\ sessionRow' = sessionRow \ Attached("/v1/auth/logout")
    /\ clearAccessToken
    /\ webPage' = [webPage EXCEPT ![p] = NewPage("login")]
    /\ UNCHANGED <<refreshCookie, accessToken>>

\* The API is not reached; the browser is signed out all the same.
LogoutLost(p) ==
    /\ webPage[p].at = "leaving"
    /\ clearAccessToken
    /\ webPage' = [webPage EXCEPT ![p] = NewPage("login")]
    /\ UNCHANGED <<refreshCookie, accessToken, sessionRow>>
-----------------------------------------------------------------------------
\* JWT_ACCESS_TTL passes; the cookie has a max-age of its own.
TokenExpires(t) ==
    /\ accessToken[t] = "good"
    /\ accessToken' = [accessToken EXCEPT ![t] = "expired"]
    /\ UNCHANGED <<browserVars, sessionRow, webPage>>

CookieLapses ==
    /\ tokenCookie # NoToken
    /\ tokenCookie' = NoToken
    /\ UNCHANGED <<localToken, refreshCookie, accessToken, sessionRow, webPage>>

WebInit ==
    /\ localToken = NoToken /\ tokenCookie = NoToken /\ refreshCookie = NoToken
    /\ accessToken = [t \in AccessTokens |-> "unissued"]
    /\ sessionRow = {}
    /\ webPage = [p \in BrowserTabs |-> NewPage("login")]

WebNext ==
    \/ \E p \in BrowserTabs :
          \/ OpenLogin(p) \/ SubmitLogin(p) \/ SignIn(p) \/ LoginFails(p)
          \/ \E t \in AccessTokens : AnswerLogin(p, t)
          \/ OpenDashboard(p) \/ RedirectToLogin(p) \/ MeAnswers(p) \/ MeFails(p)
          \/ SignOut(p) \/ LogoutHandled(p) \/ LogoutLost(p)
    \/ \E t \in AccessTokens : TokenExpires(t)
    \/ CookieLapses

WebSpec == WebInit /\ [][WebNext]_webVars
-----------------------------------------------------------------------------
(* Properties *)

\* Whatever the other tabs store and clear while a tab is asking, it acts with a token
\* of the user it shows; and the middleware lets nobody in with a cookie the pages
\* behind it do not have the token of.
ActsAsShown ==
    /\ \A p \in BrowserTabs :
          /\ webPage[p].user # NoToken => webPage[p].token # NoToken
          /\ webPage[p].token # NoToken => UserOf[webPage[p].token] = webPage[p].user
    /\ tokenCookie \in {localToken, NoToken}
=============================================================================
