---------------------------- MODULE BrowserProofs -----------------------------
(* The pages that keep state of their own, for any number of tabs, requests *)
(* and answers: who a tab acts as, the inbox of approvals, connecting a     *)
(* wallet, and proposing a transfer from an intent's page.                  *)
EXTENDS WebSession, ApprovalInbox, WalletConnections, IntentPage, FiniteSetTheorems, TLAPS

(***************************************************************************)
(* A tab acts as the user it shows.                                        *)
(***************************************************************************)
\* What a tab may look like.
PageRecords ==
    [at : {"login", "submitted", "answered", "dashboard", "leaving"},
     user : {UserOf[t] : t \in AccessTokens} \union {NoToken},
     token : OptionalToken, pending : OptionalToken]

Shown(page) ==
    /\ page.user # NoToken => page.token # NoToken
    /\ page.token # NoToken => UserOf[page.token] = page.user

PageOK(page) == page \in PageRecords /\ Shown(page)

\* The pages, and the state of the browser and of the API.
PagesOK == webPage \in [BrowserTabs -> PageRecords] /\ \A p \in BrowserTabs : Shown(webPage[p])

BrowserOK ==
    /\ {localToken, tokenCookie, refreshCookie} \subseteq OptionalToken
    /\ accessToken \in [AccessTokens -> {"unissued", "good", "expired"}]
    /\ sessionRow \subseteq AccessTokens
    /\ tokenCookie \in {localToken, NoToken}

LEMMA Parts == WebTypeOK /\ ActsAsShown <=> PagesOK /\ BrowserOK
BY DEF WebTypeOK, ActsAsShown, PagesOK, BrowserOK, PageRecords, Shown

LEMMA NewPageOK == \A at \in {"login", "dashboard"} : PageOK(NewPage(at))
BY DEF PageOK, PageRecords, Shown, NewPage, OptionalToken

LEMMA OnePageChanges ==
    ASSUME PagesOK, NEW p \in BrowserTabs, NEW page, PageOK(page),
           webPage' = [webPage EXCEPT ![p] = page]
    PROVE  PagesOK'
BY DEF PagesOK, PageOK, Shown

\* The forms of /login and /register.
LEMMA LoginSteps ==
    ASSUME PagesOK, BrowserOK, NEW p \in BrowserTabs,
           \/ OpenLogin(p) \/ SubmitLogin(p) \/ SignIn(p) \/ LoginFails(p)
           \/ \E t \in AccessTokens : AnswerLogin(p, t)
    PROVE  PagesOK' /\ BrowserOK'
<1>0. webPage[p] \in PageRecords /\ Shown(webPage[p])
  BY DEF PagesOK
<1>1. CASE OpenLogin(p) \/ LoginFails(p)
  <2>1. webPage' = [webPage EXCEPT ![p] = NewPage("login")]
    BY <1>1 DEF OpenLogin, LoginFails
  <2>2. BrowserOK'
    BY <1>1 DEF OpenLogin, LoginFails, BrowserOK, browserVars
  <2> QED
    BY <2>1, <2>2, NewPageOK, OnePageChanges
<1>2. CASE SubmitLogin(p)
  <2> DEFINE page == [webPage[p] EXCEPT !.at = "submitted"]
  <2>1. PageOK(page)
    BY <1>0 DEF PageOK, PageRecords, Shown
  <2>2. webPage' = [webPage EXCEPT ![p] = page]
    BY <1>2 DEF SubmitLogin
  <2>3. BrowserOK'
    BY <1>2 DEF SubmitLogin, BrowserOK, browserVars
  <2> QED
    BY <2>1, <2>2, <2>3, OnePageChanges
<1>3. CASE SignIn(p)
  <2>1. webPage[p].pending \in OptionalToken
    BY <1>0 DEF PageRecords
  <2>2. BrowserOK'
    BY <1>3, <2>1 DEF SignIn, setAccessToken, BrowserOK
  <2>3. webPage' = [webPage EXCEPT ![p] = NewPage("login")]
    BY <1>3 DEF SignIn
  <2> QED
    BY <2>2, <2>3, NewPageOK, OnePageChanges
<1>4. CASE \E t \in AccessTokens : AnswerLogin(p, t)
  <2>1. PICK t \in AccessTokens : AnswerLogin(p, t)
    BY <1>4
  <2> DEFINE page == [webPage[p] EXCEPT !.at = "answered", !.pending = t]
  <2>2. PageOK(page)
    BY <1>0 DEF PageOK, PageRecords, Shown, OptionalToken
  <2>3. webPage' = [webPage EXCEPT ![p] = page]
    BY <2>1, <1>0 DEF AnswerLogin, PagesOK
  <2>4. BrowserOK'
    BY <2>1 DEF AnswerLogin, BrowserOK, browserVars
  <2> QED
    BY <2>2, <2>3, <2>4, OnePageChanges
<1> QED
  BY <1>1, <1>2, <1>3, <1>4

\* The middleware and the provider, which goes on with the token it asked about.
LEMMA ProviderSteps ==
    ASSUME PagesOK, BrowserOK, NEW p \in BrowserTabs,
           OpenDashboard(p) \/ RedirectToLogin(p) \/ MeAnswers(p) \/ MeFails(p)
    PROVE  PagesOK' /\ BrowserOK'
<1>0. webPage[p] \in PageRecords /\ Shown(webPage[p])
  BY DEF PagesOK
<1>1. CASE OpenDashboard(p)
  <2> DEFINE page == [NewPage("dashboard") EXCEPT !.pending = localToken]
  <2>1. PageOK(page)
    BY DEF PageOK, PageRecords, Shown, NewPage, OptionalToken, BrowserOK
  <2>2. webPage' = [webPage EXCEPT ![p] = page]
    BY <1>1 DEF OpenDashboard
  <2>3. BrowserOK'
    BY <1>1 DEF OpenDashboard, BrowserOK, browserVars
  <2> QED
    BY <2>1, <2>2, <2>3, OnePageChanges
<1>2. CASE RedirectToLogin(p)
  <2>1. webPage' = [webPage EXCEPT ![p] = NewPage("login")]
    BY <1>2 DEF RedirectToLogin
  <2>2. BrowserOK'
    BY <1>2 DEF RedirectToLogin, BrowserOK, browserVars
  <2> QED
    BY <2>1, <2>2, NewPageOK, OnePageChanges
<1>3. CASE MeAnswers(p)
  <2> DEFINE asked == webPage[p].pending
             page == [webPage[p] EXCEPT !.user = UserOf[asked], !.token = asked,
                                        !.pending = NoToken]
  <2>1. asked \in AccessTokens
    BY <1>0, <1>3 DEF MeAnswers, Asking, PageRecords, OptionalToken
  <2>2. UserOf[asked] \in {UserOf[t] : t \in AccessTokens}
    BY <2>1
  <2>3. PageOK(page)
    BY <1>0, <2>1, <2>2, WebSessionAssumption DEF PageOK, PageRecords, Shown, OptionalToken
  <2>4. webPage' = [webPage EXCEPT ![p] = page]
    BY <1>3, <1>0 DEF MeAnswers, PagesOK
  <2>5. BrowserOK'
    BY <1>3 DEF MeAnswers, BrowserOK, browserVars
  <2> QED
    BY <2>3, <2>4, <2>5, OnePageChanges
<1>4. CASE MeFails(p)
  <2> DEFINE page == [NewPage("dashboard") EXCEPT !.at = webPage[p].at]
  <2>1. PageOK(page)
    BY <1>0 DEF PageOK, PageRecords, Shown, NewPage, OptionalToken
  <2>2. webPage' = [webPage EXCEPT ![p] = page]
    BY <1>4 DEF MeFails
  <2>3. BrowserOK'
    BY <1>4 DEF MeFails, clearAccessToken, BrowserOK, OptionalToken
  <2> QED
    BY <2>1, <2>2, <2>3, OnePageChanges
<1> QED
  BY <1>1, <1>2, <1>3, <1>4

LEMMA SignOutSteps ==
    ASSUME PagesOK, BrowserOK, NEW p \in BrowserTabs,
           SignOut(p) \/ LogoutHandled(p) \/ LogoutLost(p)
    PROVE  PagesOK' /\ BrowserOK'
<1>1. CASE SignOut(p)
  <2> DEFINE page == [webPage[p] EXCEPT !.at = "leaving"]
  <2>1. PageOK(page)
    BY DEF PagesOK, PageOK, PageRecords, Shown
  <2>2. webPage' = [webPage EXCEPT ![p] = page]
    BY <1>1 DEF SignOut
  <2>3. BrowserOK'
    BY <1>1 DEF SignOut, BrowserOK, browserVars
  <2> QED
    BY <2>1, <2>2, <2>3, OnePageChanges
<1>2. CASE LogoutHandled(p) \/ LogoutLost(p)
  <2>1. webPage' = [webPage EXCEPT ![p] = NewPage("login")]
    BY <1>2 DEF LogoutHandled, LogoutLost
  <2>2. sessionRow' \subseteq sessionRow
    BY <1>2 DEF LogoutHandled, LogoutLost
  <2>3. BrowserOK'
    BY <1>2, <2>2 DEF LogoutHandled, LogoutLost, clearAccessToken, BrowserOK, OptionalToken
  <2> QED
    BY <2>1, <2>3, NewPageOK, OnePageChanges
<1> QED
  BY <1>1, <1>2

LEMMA WebStep ==
    ASSUME PagesOK, BrowserOK, [WebNext]_webVars
    PROVE  PagesOK' /\ BrowserOK'
<1>1. CASE \E t \in AccessTokens : TokenExpires(t)
  BY <1>1 DEF PagesOK, BrowserOK, TokenExpires, browserVars
<1>2. CASE CookieLapses
  BY <1>2 DEF PagesOK, BrowserOK, CookieLapses, OptionalToken
<1>3. CASE UNCHANGED webVars
  BY <1>3 DEF PagesOK, BrowserOK, webVars, browserVars
<1> QED
  BY <1>1, <1>2, <1>3, LoginSteps, ProviderSteps, SignOutSteps DEF WebNext

\* The pages of the tabs and the browser they share, in every reachable state.
LEMMA WebAlways == WebSpec => [](PagesOK /\ BrowserOK)
<1>1. WebInit => PagesOK /\ BrowserOK
  BY NewPageOK DEF WebInit, PagesOK, BrowserOK, PageOK, OptionalToken
<1>2. PagesOK /\ BrowserOK /\ [WebNext]_webVars => (PagesOK /\ BrowserOK)'
  BY WebStep
<1> QED
  BY <1>1, <1>2, PTL DEF WebSpec

\* Whatever the other tabs store and clear, the token a tab acts with is of the user
\* it shows, and the middleware's cookie is the pages' token or gone.
THEOREM ShownIsActing == WebSpec => []ActsAsShown
<1>1. PagesOK /\ BrowserOK => ActsAsShown
  BY Parts
<1> QED
  BY <1>1, WebAlways, PTL
-----------------------------------------------------------------------------
(***************************************************************************)
(* The approvals page.  A row of this member is never written again, so    *)
(* what a decision on its way has inserted still stands when its answer    *)
(* comes.                                                                  *)
(***************************************************************************)
InboxInv ==
    /\ InboxTypeOK
    /\ inbox.modal # "none" => inbox.selected # "none"
    /\ AckedDecisionStands
    /\ \A d \in Decides :
          /\ decide[d].pc \in {"settle", "answer"} =>
                decision[decide[d].request] = decide[d].decision
          /\ decide[d].pc = "answer" /\ decide[d].decision = "rejected" =>
                decide[d].request \notin open

DecideRecords ==
    {NotDeciding} \union
        [pc : {"asked", "insert", "settle", "answer"}, request : Inbox, decision : Decisions]

FetchRecords ==
    {NoFetch} \union [pc : {"sent"}, status : Tabs] \union [pc : {"answered"}, rows : SUBSET Inbox]

InboxRecords ==
    [tab : Tabs, items : SUBSET Inbox, loading : BOOLEAN,
     selected : Inbox \union {"none"}, modal : Decisions \union {"none"}]

\* A decision on its way names a request and a choice.
LEMMA DecideShape ==
    ASSUME NEW r \in DecideRecords
    PROVE  /\ r.pc \in {"idle", "asked", "insert", "settle", "answer"}
           /\ r.pc # "idle" => r.request \in Inbox /\ r.decision \in Decisions
BY DEF DecideRecords, NotDeciding

\* A request on its way to the list.
LEMMA RefreshTyped ==
    ASSUME InboxTypeOK, NEW l \in Fetches, NEW status \in Tabs, RefreshList(l, status)
    PROVE  fetch' \in [Fetches -> FetchRecords]
<1>1. [pc |-> "sent", status |-> status] \in FetchRecords
  BY DEF FetchRecords
<1> QED
  BY <1>1 DEF RefreshList, InboxTypeOK, FetchRecords

\* Steps of the page, of its queries and of other members: requests only close.
LEMMA PageKeeps ==
    ASSUME InboxInv, UNCHANGED <<decision, decide, acked>>, open' \subseteq open,
           fetch' \in [Fetches -> FetchRecords],
           inbox' \in InboxRecords, inbox'.modal # "none" => inbox'.selected # "none"
    PROVE  InboxInv'
<1>1. InboxTypeOK'
  BY DEF InboxInv, InboxTypeOK, FetchRecords, InboxRecords
<1>2. \A d \in Decides : decide[d] \in DecideRecords
  BY DEF InboxInv, InboxTypeOK, DecideRecords
<1> QED
  BY <1>1, <1>2 DEF InboxInv, AckedDecisionStands

LEMMA PageSteps ==
    ASSUME InboxInv,
           \/ \E tab \in Tabs : ChooseTab(tab)
           \/ \E r \in Inbox : SelectRow(r) \/ CloseElsewhere(r)
           \/ (\E choice \in Decisions : OpenModal(choice)) \/ CancelModal
           \/ \E l \in Fetches : ListApprovals(l) \/ ShowList(l) \/ FetchListFails(l)
    PROVE  InboxInv'
<1>1. /\ InboxTypeOK /\ inbox \in InboxRecords
      /\ fetch \in [Fetches -> FetchRecords]
      /\ inbox.modal # "none" => inbox.selected # "none"
  BY DEF InboxInv, InboxTypeOK, InboxRecords, FetchRecords
<1>2. ASSUME NEW tab \in Tabs, ChooseTab(tab)
      PROVE  InboxInv'
  <2>1. fetch' \in [Fetches -> FetchRecords]
    BY <1>1, <1>2, RefreshTyped DEF ChooseTab
  <2>2. inbox' \in InboxRecords /\ inbox'.modal = "none"
    BY <1>1, <1>2 DEF ChooseTab, InboxRecords
  <2> QED
    BY <1>2, <2>1, <2>2, PageKeeps DEF ChooseTab
<1>3. ASSUME NEW r \in Inbox, SelectRow(r) \/ CloseElsewhere(r)
      PROVE  InboxInv'
  <2>1. inbox' \in InboxRecords /\ (inbox'.modal # "none" => inbox'.selected # "none")
    BY <1>1, <1>3 DEF SelectRow, CloseElsewhere, InboxRecords
  <2> QED
    BY <1>1, <1>3, <2>1, PageKeeps DEF SelectRow, CloseElsewhere
<1>4. ASSUME (\E choice \in Decisions : OpenModal(choice)) \/ CancelModal
      PROVE  InboxInv'
  <2>1. inbox' \in InboxRecords /\ (inbox'.modal # "none" => inbox'.selected # "none")
    BY <1>1, <1>4 DEF OpenModal, CancelModal, InboxRecords
  <2> QED
    BY <1>1, <1>4, <2>1, PageKeeps DEF OpenModal, CancelModal
<1>5. ASSUME NEW l \in Fetches, ListApprovals(l)
      PROVE  InboxInv'
  <2> DEFINE rows == IF fetch[l].status = "pending" THEN open ELSE {}
             f == [pc |-> "answered", rows |-> rows]
  <2>1. rows \in SUBSET Inbox
    BY <1>1 DEF InboxTypeOK
  <2>2. fetch' = [fetch EXCEPT ![l] = f]
    BY <1>5 DEF ListApprovals
  <2> HIDE DEF rows
  <2>3. f \in FetchRecords
    BY <2>1 DEF FetchRecords
  <2>4. fetch' \in [Fetches -> FetchRecords]
    BY <1>1, <2>2, <2>3
  <2> QED
    BY <1>1, <1>5, <2>4, PageKeeps DEF ListApprovals
<1>6. ASSUME NEW l \in Fetches, ShowList(l) \/ FetchListFails(l)
      PROVE  InboxInv'
  <2>1. fetch[l].pc = "answered" => fetch[l].rows \in SUBSET Inbox
    BY <1>1 DEF FetchRecords, NoFetch
  <2>2. fetch' \in [Fetches -> FetchRecords]
    <3>1. NoFetch \in FetchRecords
      BY DEF FetchRecords
    <3> QED
      BY <1>1, <1>6, <3>1 DEF ShowList, FetchListFails
  <2>3. inbox' \in InboxRecords /\ (inbox'.modal # "none" => inbox'.selected # "none")
    BY <1>1, <1>6, <2>1 DEF ShowList, FetchListFails, InboxRecords
  <2> QED
    BY <1>6, <2>2, <2>3, PageKeeps DEF ShowList, FetchListFails
<1> QED
  BY <1>2, <1>3, <1>4, <1>5, <1>6

\* A decision moves on, and the page stays as it is.
LEMMA DecideKeeps ==
    ASSUME InboxInv, NEW d \in Decides,
           Submit(d) \/ FindPendingRequest(d) \/ InsertDecision(d) \/ Settle(d) \/ DecideFails(d)
    PROVE  InboxInv'
<1>1. /\ InboxTypeOK /\ decide \in [Decides -> DecideRecords]
      /\ decision \in [Inbox -> Decisions \union {"none"}] /\ open \subseteq Inbox
      /\ acked \in [Inbox -> SUBSET Decisions] /\ "none" \notin Decisions
  BY DEF InboxInv, InboxTypeOK, DecideRecords, Decisions
<1>2. \A e \in Decides :
         /\ decide[e].pc \in {"idle", "asked", "insert", "settle", "answer"}
         /\ decide[e].pc # "idle" => decide[e].request \in Inbox /\ decide[e].decision \in Decisions
  BY <1>1, DecideShape
<1>3. UNCHANGED <<inbox, fetch, acked>>
  BY DEF Submit, FindPendingRequest, InsertDecision, Settle, DecideFails, EndDecide
<1>4. CASE Submit(d)
  <2> DEFINE f == [pc |-> "asked", request |-> inbox.selected, decision |-> inbox.modal]
  <2>1. inbox.selected \in Inbox /\ inbox.modal \in Decisions
    BY <1>1, <1>4 DEF Submit, InboxInv, InboxTypeOK
  <2>2. f \in DecideRecords
    BY <2>1 DEF DecideRecords
  <2>3. decide' = [decide EXCEPT ![d] = f] /\ UNCHANGED <<open, decision>>
    BY <1>4 DEF Submit
  <2>4. decide' \in [Decides -> DecideRecords]
    BY <1>1, <2>2, <2>3
  <2>5. InboxTypeOK'
    BY <1>1, <1>3, <2>3, <2>4 DEF InboxTypeOK, DecideRecords
  <2>6. decide'[d].pc = "asked" /\ \A e \in Decides \ {d} : decide'[e] = decide[e]
    BY <1>1, <2>3
  <2> QED
    BY <1>3, <2>3, <2>5, <2>6 DEF InboxInv, AckedDecisionStands
<1>5. CASE DecideFails(d)
  <2>1. decide' = [decide EXCEPT ![d] = NotDeciding] /\ UNCHANGED <<open, decision>>
    BY <1>5 DEF DecideFails, EndDecide
  <2>2. NotDeciding \in DecideRecords /\ NotDeciding.pc = "idle"
    BY DEF DecideRecords, NotDeciding
  <2>3. decide' \in [Decides -> DecideRecords]
    BY <1>1, <2>1, <2>2
  <2>4. InboxTypeOK'
    BY <1>1, <1>3, <2>1, <2>3 DEF InboxTypeOK, DecideRecords
  <2>5. decide'[d].pc = "idle" /\ \A e \in Decides \ {d} : decide'[e] = decide[e]
    BY <1>1, <2>1, <2>2
  <2> QED
    BY <1>3, <2>1, <2>4, <2>5 DEF InboxInv, AckedDecisionStands
<1>6. ASSUME NEW pc \in {"insert", "settle", "answer"}, decide[d].pc # "idle",
             decide' = [decide EXCEPT ![d].pc = pc]
      PROVE  /\ decide' \in [Decides -> DecideRecords]
             /\ decide'[d].pc = pc /\ decide'[d].request = decide[d].request
             /\ decide'[d].decision = decide[d].decision
             /\ \A e \in Decides \ {d} : decide'[e] = decide[e]
  <2> DEFINE f == [decide[d] EXCEPT !.pc = pc]
  <2>1. decide[d] \in [pc : {"asked", "insert", "settle", "answer"}, request : Inbox, decision : Decisions]
    BY <1>1, <1>6 DEF DecideRecords, NotDeciding
  <2>2. f \in DecideRecords /\ f.pc = pc /\ f.request = decide[d].request /\ f.decision = decide[d].decision
    BY <2>1 DEF DecideRecords
  <2>3. decide' = [decide EXCEPT ![d] = f]
    BY <1>6
  <2> HIDE DEF f
  <2> QED
    BY <1>1, <2>2, <2>3
<1>7. CASE FindPendingRequest(d)
  <2>1. decide[d].pc # "idle" /\ decide' = [decide EXCEPT ![d].pc = "insert"]
        /\ UNCHANGED <<open, decision>>
    BY <1>7 DEF FindPendingRequest, DecideAt
  <2>2. /\ decide' \in [Decides -> DecideRecords] /\ decide'[d].pc = "insert"
        /\ \A e \in Decides \ {d} : decide'[e] = decide[e]
    BY <1>6, <2>1
  <2>3. InboxTypeOK'
    BY <1>1, <1>3, <2>1, <2>2 DEF InboxTypeOK, DecideRecords
  <2> QED
    BY <1>3, <2>1, <2>2, <2>3 DEF InboxInv, AckedDecisionStands
<1>8. CASE InsertDecision(d)
  <2> DEFINE r == decide[d].request
             choice == decide[d].decision
  <2>1. /\ decide[d].pc # "idle" /\ decide' = [decide EXCEPT ![d].pc = "settle"]
        /\ open' = open /\ decision[r] = "none"
        /\ decision' = [decision EXCEPT ![r] = choice]
        /\ r \in Inbox /\ choice \in Decisions
    BY <1>2, <1>8 DEF InsertDecision, DecideAt
  <2>2. /\ decide' \in [Decides -> DecideRecords]
        /\ decide'[d].pc = "settle" /\ decide'[d].request = r /\ decide'[d].decision = choice
        /\ \A e \in Decides \ {d} : decide'[e] = decide[e]
    BY <1>6, <2>1
  <2>3. InboxTypeOK'
    BY <1>1, <1>3, <2>1, <2>2 DEF InboxTypeOK, DecideRecords
  <2>4. decision'[r] = choice /\ \A s \in Inbox : s # r => decision'[s] = decision[s]
    BY <1>1, <2>1
  <2>5. acked[r] = {}
    BY <1>1, <2>1 DEF InboxInv, AckedDecisionStands
  <2>6. AckedDecisionStands'
    BY <1>3, <2>1, <2>4, <2>5 DEF InboxInv, AckedDecisionStands
  <2>7. \A e \in Decides \ {d} : decide[e].pc \in {"settle", "answer"} => decide[e].request # r
    BY <1>1, <1>2, <2>1 DEF InboxInv
  <2>8. \A e \in Decides : decide'[e].pc \in {"settle", "answer"} =>
            decision'[decide'[e].request] = decide'[e].decision
    BY <1>2, <2>2, <2>4, <2>7 DEF InboxInv
  <2>9. \A e \in Decides : decide'[e].pc = "answer" /\ decide'[e].decision = "rejected" =>
            decide'[e].request \notin open'
    BY <2>1, <2>2 DEF InboxInv
  <2> QED
    BY <1>3, <2>3, <2>6, <2>8, <2>9 DEF InboxInv
<1>9. CASE Settle(d)
  <2>1. /\ decide[d].pc = "settle" /\ decide' = [decide EXCEPT ![d].pc = "answer"]
        /\ decision' = decision /\ open' \subseteq open
        /\ decide[d].decision = "approved" \/ decide[d].request \notin open'
    BY <1>9 DEF Settle, DecideAt
  <2>2. /\ decide' \in [Decides -> DecideRecords]
        /\ decide'[d].request = decide[d].request /\ decide'[d].decision = decide[d].decision
        /\ \A e \in Decides \ {d} : decide'[e] = decide[e]
    BY <1>6, <2>1
  <2>3. InboxTypeOK'
    BY <1>1, <1>3, <2>1, <2>2 DEF InboxTypeOK, DecideRecords
  <2> QED
    BY <1>3, <2>1, <2>2, <2>3 DEF InboxInv, AckedDecisionStands
<1> QED
  BY <1>4, <1>5, <1>7, <1>8, <1>9

\* The answer reaches the page.
LEMMA OnDoneKeeps ==
    ASSUME InboxInv, NEW d \in Decides, OnDone(d)
    PROVE  InboxInv'
<1> DEFINE r == decide[d].request
           choice == decide[d].decision
<1>1. /\ InboxTypeOK /\ decide \in [Decides -> DecideRecords]
      /\ acked \in [Inbox -> SUBSET Decisions] /\ inbox \in InboxRecords
  BY DEF InboxInv, InboxTypeOK, DecideRecords, InboxRecords
<1>2. /\ decide[d].pc = "answer" /\ r \in Inbox /\ choice \in Decisions
      /\ UNCHANGED <<open, decision>>
      /\ acked' = [acked EXCEPT ![r] = @ \union {choice}]
      /\ decide' = [decide EXCEPT ![d] = NotDeciding]
  BY <1>1, DecideShape DEF OnDone, EndDecide, DecideAt
<1>3. NotDeciding \in DecideRecords /\ NotDeciding.pc = "idle"
  BY DEF DecideRecords, NotDeciding
<1>4. /\ decide' \in [Decides -> DecideRecords] /\ decide'[d].pc = "idle"
      /\ \A e \in Decides \ {d} : decide'[e] = decide[e]
  BY <1>1, <1>2, <1>3
<1>5. inbox' \in InboxRecords /\ inbox'.modal = "none"
  BY <1>1 DEF OnDone, InboxRecords
<1>6. fetch' \in [Fetches -> FetchRecords]
  <2>1. PICK l \in Fetches : RefreshList(l, "pending")
    BY DEF OnDone
  <2>2. "pending" \in Tabs
    BY InboxAssumption
  <2> QED
    BY <1>1, <2>1, <2>2, RefreshTyped
<1>7. /\ acked' \in [Inbox -> SUBSET Decisions] /\ acked'[r] = acked[r] \union {choice}
      /\ \A s \in Inbox : s # r => acked'[s] = acked[s]
  BY <1>1, <1>2
<1>8. InboxTypeOK'
  BY <1>1, <1>2, <1>4, <1>5, <1>6, <1>7 DEF InboxTypeOK, InboxRecords, FetchRecords, DecideRecords
<1>9. decision[r] = choice /\ (choice = "rejected" => r \notin open)
  BY <1>2 DEF InboxInv
<1>10. AckedDecisionStands'
  BY <1>2, <1>7, <1>9 DEF InboxInv, AckedDecisionStands
<1> QED
  BY <1>2, <1>4, <1>5, <1>8, <1>10 DEF InboxInv

\* What the approvals page holds, in every reachable state.
LEMMA InboxAlways == InboxSpec => []InboxInv
<1>1. InboxInit => InboxInv
  <2> SUFFICES ASSUME InboxInit
               PROVE  InboxInv
    OBVIOUS
  <2> DEFINE first == [pc |-> "sent", status |-> "pending"]
  <2>1. inbox \in InboxRecords /\ inbox.modal = "none"
    BY InboxAssumption DEF InboxInit, InboxRecords
  <2>2. NoFetch \in FetchRecords /\ first \in FetchRecords
    BY InboxAssumption DEF FetchRecords
  <2>3. fetch \in [Fetches -> FetchRecords]
    BY <2>2 DEF InboxInit
  <2>4. NotDeciding \in DecideRecords /\ NotDeciding.pc = "idle"
    BY DEF DecideRecords, NotDeciding
  <2>5. decide \in [Decides -> DecideRecords] /\ \A d \in Decides : decide[d].pc = "idle"
    BY <2>4 DEF InboxInit
  <2>6. InboxTypeOK
    BY <2>1, <2>3, <2>5 DEF InboxInit, InboxTypeOK, InboxRecords, FetchRecords, DecideRecords
  <2> QED
    BY <2>1, <2>5, <2>6 DEF InboxInv, AckedDecisionStands, InboxInit
<1>2. InboxInv /\ [InboxNext]_inboxVars => InboxInv'
  <2> SUFFICES ASSUME InboxInv, [InboxNext]_inboxVars
               PROVE  InboxInv'
    OBVIOUS
  <2>1. CASE UNCHANGED inboxVars
    BY <2>1 DEF inboxVars, InboxInv, InboxTypeOK, AckedDecisionStands
  <2>2. CASE InboxNext
    BY <2>2, PageSteps, DecideKeeps, OnDoneKeeps DEF InboxNext
  <2> QED
    BY <2>1, <2>2
<1> QED
  BY <1>1, <1>2, PTL DEF InboxSpec

(***************************************************************************)
(* Whatever decision the approvals page was told is recorded stands, and a *)
(* rejection it was told of closed its request.                            *)
(***************************************************************************)
THEOREM AckedStands == InboxSpec => []AckedDecisionStands
<1>1. InboxInv => AckedDecisionStands
  BY DEF InboxInv
<1> QED
  BY <1>1, InboxAlways, PTL
-----------------------------------------------------------------------------
(***************************************************************************)
(* Wallets.  The unique index makes one request the one that adds a Safe,  *)
(* and its job is queued before its event is appended; a job that ended    *)
(* well has written the owners.                                            *)
(***************************************************************************)
FormRecords ==
    [step : {"form", "sign"}, challenge : Challenges \union {"none"},
     awaits : Connects \union {"none"}]

ConnectShapes ==
    {NotConnecting}
    \union [pc : {"connect", "issue", "create_wallet", "enqueue", "audit"},
            form : Forms, safe : Safes]
    \union [pc : {"verify", "delete_challenge"}, form : Forms, safe : Safes,
            challenge : Challenges \union {"none"}]

JobRecords ==
    [state : {"none", "waiting", "active", "updated", "completed", "failed"}, failures : Nat]

WalletsShape ==
    /\ form \in [Forms -> FormRecords]
    /\ connect \in [Connects -> ConnectShapes]
    /\ wallet \in [Safes -> WalletRows]
    /\ syncJob \in [Safes -> JobRecords]
    /\ connected \in [Safes -> Nat]

\* c is adding its Safe.
Adds(c) == connect[c].pc \in {"enqueue", "audit"}

OneAdds ==
    /\ \A c, d \in Connects : Adds(c) /\ Adds(d) /\ connect[c].safe = connect[d].safe => c = d
    /\ \A c \in Connects : Adds(c) =>
          wallet[connect[c].safe] # "absent" /\ connected[connect[c].safe] = 0
    /\ \A s \in Safes : connected[s] <= 1 /\ (connected[s] > 0 => wallet[s] # "absent")

QueuedFirst ==
    /\ \A c \in Connects : connect[c].pc = "audit" => syncJob[connect[c].safe] # NoJob
    /\ \A s \in Safes : connected[s] > 0 => syncJob[s] # NoJob

JobsWrite ==
    \A s \in Safes :
        /\ syncJob[s].state = "none" => syncJob[s] = NoJob
        /\ syncJob[s].state \in {"updated", "completed"} => wallet[s] = "synced"

WalletsInv == WalletsShape /\ OneAdds /\ QueuedFirst /\ JobsWrite /\ UnsyncedAccounted

LEMMA ConnectShape ==
    ASSUME NEW r \in ConnectShapes
    PROVE  /\ r.pc # "idle" => r.safe \in Safes /\ r.form \in Forms
           /\ r.pc \in {"idle", "connect", "issue", "create_wallet", "enqueue", "audit",
                        "verify", "delete_challenge"}
           /\ r.pc \in {"connect", "issue", "create_wallet", "enqueue", "audit"} =>
                 r \in [pc : {"connect", "issue", "create_wallet", "enqueue", "audit"},
                        form : Forms, safe : Safes]
           /\ r.pc \in {"verify", "delete_challenge"} =>
                 r \in [pc : {"verify", "delete_challenge"}, form : Forms, safe : Safes,
                        challenge : Challenges \union {"none"}]
           /\ r = NotConnecting <=> r.pc = "idle"
BY DEF ConnectShapes, NotConnecting

LEMMA AnswerTyped ==
    ASSUME form \in [Forms -> FormRecords], NEW f \in Forms, NEW c, NEW new \in FormRecords,
           Answered(f, c, new)
    PROVE  form' \in [Forms -> FormRecords]
BY DEF Answered

LEMMA NotAwaitingTyped ==
    ASSUME form \in [Forms -> FormRecords], NEW f \in Forms
    PROVE  NotAwaiting(f) \in FormRecords
BY DEF NotAwaiting, FormRecords

\* A request that is not adding a Safe, before or after, or that stops adding one.
LEMMA OneRequest ==
    ASSUME WalletsInv, NEW c \in Connects, NEW r \in ConnectShapes,
           connect' = [connect EXCEPT ![c] = r], r.pc \notin {"enqueue", "audit"},
           form' \in [Forms -> FormRecords], UNCHANGED <<wallet, syncJob, connected>>,
           unqueued \subseteq unqueued',
           connect[c].pc = "enqueue" => connect[c].safe \in unqueued'
    PROVE  WalletsInv'
<1>1. /\ connect' \in [Connects -> ConnectShapes] /\ connect'[c] = r
      /\ \A d \in Connects : d # c => connect'[d] = connect[d]
  BY DEF WalletsInv, WalletsShape
<1>2. \A d \in Connects : Adds(d)' => Adds(d) /\ d # c
  BY <1>1 DEF Adds
<1>3. WalletsShape' /\ OneAdds' /\ QueuedFirst' /\ JobsWrite'
  <2>1. WalletsShape'
    BY <1>1 DEF WalletsInv, WalletsShape
  <2>2. OneAdds'
    BY <1>1, <1>2 DEF WalletsInv, OneAdds
  <2>3. QueuedFirst'
    BY <1>1 DEF WalletsInv, QueuedFirst
  <2>4. JobsWrite'
    BY DEF WalletsInv, JobsWrite
  <2> QED
    BY <2>1, <2>2, <2>3, <2>4
<1>4. UnsyncedAccounted'
  <2> SUFFICES ASSUME NEW s \in Safes, wallet[s] = "without_owners",
                      syncJob[s].state \notin {"waiting", "active", "failed"},
                      s \notin unqueued'
               PROVE  \E d \in Adding(s)' : ConnectAt(d, "enqueue")'
    BY DEF UnsyncedAccounted
  <2>1. PICK d \in Adding(s) : ConnectAt(d, "enqueue")
    BY DEF WalletsInv, UnsyncedAccounted
  <2>2. d \in Connects /\ d # c /\ connect[d].safe = s /\ connect[d].pc = "enqueue"
    BY <2>1 DEF Adding, ConnectAt
  <2>3. connect'[d] = connect[d]
    BY <1>1, <2>2
  <2> QED
    BY <2>2, <2>3 DEF Adding, ConnectAt
<1> QED
  BY <1>3, <1>4 DEF WalletsInv

\* The form, and the requests up to the wallet row.
LEMMA FormSteps ==
    ASSUME WalletsInv, NEW f \in Forms,
           \/ \E c \in Connects, s \in Safes : HandleConnect(f, c, s) \/ SignWithWallet(f, c, s)
           \/ AnswerLost(f) \/ Reload(f)
    PROVE  WalletsInv'
<1>1. form \in [Forms -> FormRecords] /\ connect \in [Connects -> ConnectShapes]
  BY DEF WalletsInv, WalletsShape
<1>2. CASE \E c \in Connects, s \in Safes : HandleConnect(f, c, s) \/ SignWithWallet(f, c, s)
  <2>1. PICK c \in Connects, s \in Safes : HandleConnect(f, c, s) \/ SignWithWallet(f, c, s)
    BY <1>2
  <2>2. connect[c] = NotConnecting /\ connect[c].pc = "idle"
        /\ UNCHANGED <<challenge, wallet, syncJob, connected, unqueued>>
    BY <2>1 DEF HandleConnect, SignWithWallet, NotConnecting
  <2>3. form' \in [Forms -> FormRecords]
    <3>1. form' = [form EXCEPT ![f].awaits = c]
      BY <2>1 DEF HandleConnect, SignWithWallet
    <3> QED
      BY <1>1, <3>1 DEF FormRecords
  <2>4. CASE HandleConnect(f, c, s)
    <3> DEFINE r == [pc |-> "connect", form |-> f, safe |-> s]
    <3>1. r \in ConnectShapes /\ connect' = [connect EXCEPT ![c] = r]
      BY <2>4 DEF HandleConnect, ConnectShapes
    <3> QED
      BY <2>2, <2>3, <3>1, OneRequest
  <2>5. CASE SignWithWallet(f, c, s)
    <3> DEFINE r == [pc |-> "verify", form |-> f, safe |-> s, challenge |-> form[f].challenge]
    <3>1. form[f].challenge \in Challenges \union {"none"}
      BY <1>1 DEF FormRecords
    <3>2. r \in ConnectShapes /\ connect' = [connect EXCEPT ![c] = r]
      BY <2>5, <3>1 DEF SignWithWallet, ConnectShapes
    <3> QED
      BY <2>2, <2>3, <3>2, OneRequest
  <2> QED
    BY <2>1, <2>4, <2>5
<1>3. CASE AnswerLost(f) \/ Reload(f)
  <2>1. UNCHANGED <<connect, challenge, wallet, syncJob, connected, unqueued>>
    BY <1>3 DEF AnswerLost, Reload
  <2>2. NewForm \in FormRecords /\ NotAwaiting(f) \in FormRecords
    BY <1>1, NotAwaitingTyped DEF NewForm, FormRecords
  <2>3. form' \in [Forms -> FormRecords]
    BY <1>1, <1>3, <2>2 DEF AnswerLost, Reload
  <2> QED
    BY <2>1, <2>3 DEF WalletsInv, WalletsShape, OneAdds, QueuedFirst, JobsWrite, UnsyncedAccounted,
                      Adds, Adding, ConnectAt
<1> QED
  BY <1>2, <1>3

LEMMA RequestsBefore ==
    ASSUME WalletsInv, NEW c \in Connects,
           \/ StartConnect(c) \/ \E h \in Challenges : CreateChallenge(c, h)
           \/ VerifySigner(c) \/ DeleteChallenge(c) \/ ConnectFails(c)
    PROVE  WalletsInv'
<1>1. /\ form \in [Forms -> FormRecords] /\ connect \in [Connects -> ConnectShapes]
      /\ connect[c] \in ConnectShapes
  BY DEF WalletsInv, WalletsShape
<1>2. /\ connect[c].pc # "idle" => connect[c].safe \in Safes /\ connect[c].form \in Forms
      /\ connect[c] = NotConnecting <=> connect[c].pc = "idle"
  BY <1>1, ConnectShape
<1>3. NotConnecting \in ConnectShapes /\ NotConnecting.pc = "idle"
  BY DEF ConnectShapes, NotConnecting
<1>4. ASSUME StartConnect(c) \/ VerifySigner(c)
      PROVE  WalletsInv'
  <2> DEFINE r == [connect[c] EXCEPT !.pc = IF ConnectAt(c, "connect") THEN "issue"
                                            ELSE "delete_challenge"]
  <2>1. /\ UNCHANGED <<form, challenge, wallet, syncJob, connected, unqueued>>
        /\ connect' = [connect EXCEPT ![c] = r]
        /\ connect[c].pc \in {"connect", "verify"}
    BY <1>4 DEF StartConnect, VerifySigner, ConnectAt
  <2>2. r \in ConnectShapes /\ r.pc \notin {"enqueue", "audit"}
    <3>1. CASE connect[c].pc = "connect"
      BY <1>1, <3>1, ConnectShape DEF ConnectShapes, ConnectAt
    <3>2. CASE connect[c].pc = "verify"
      BY <1>1, <3>2, ConnectShape DEF ConnectShapes, ConnectAt
    <3> QED
      BY <2>1, <3>1, <3>2
  <2> HIDE DEF r
  <2> QED
    BY <1>1, <2>1, <2>2, OneRequest
<1>5. ASSUME NEW h \in Challenges, CreateChallenge(c, h)
      PROVE  WalletsInv'
  <2> DEFINE new == [step |-> "sign", challenge |-> h, awaits |-> "none"]
  <2>1. /\ UNCHANGED <<wallet, syncJob, connected, unqueued>> /\ connect[c].pc = "issue"
        /\ connect' = [connect EXCEPT ![c] = NotConnecting] /\ Answered(connect[c].form, c, new)
    BY <1>5 DEF CreateChallenge, EndConnect, ConnectAt
  <2>2. new \in FormRecords
    BY DEF FormRecords
  <2>3. form' \in [Forms -> FormRecords]
    BY <1>1, <1>2, <2>1, <2>2, AnswerTyped
  <2> QED
    BY <1>3, <2>1, <2>3, OneRequest
<1>6. ASSUME DeleteChallenge(c)
      PROVE  WalletsInv'
  <2> DEFINE f == connect[c].form
             r == [pc |-> "create_wallet", form |-> f, safe |-> connect[c].safe]
  <2>1. /\ UNCHANGED <<wallet, syncJob, connected, unqueued>> /\ connect[c].pc = "delete_challenge"
        /\ \/ connect' = [connect EXCEPT ![c] = r] /\ UNCHANGED form
           \/ connect' = [connect EXCEPT ![c] = NotConnecting] /\ Answered(f, c, NotAwaiting(f))
    BY <1>6 DEF DeleteChallenge, EndConnect, ConnectAt
  <2>2. r \in ConnectShapes /\ r.pc = "create_wallet" /\ f \in Forms
    BY <1>2, <2>1 DEF ConnectShapes
  <2> HIDE DEF r
  <2>3. form' \in [Forms -> FormRecords]
    BY <1>1, <2>1, <2>2, AnswerTyped, NotAwaitingTyped
  <2> QED
    BY <1>3, <2>1, <2>2, <2>3, OneRequest
<1>7. ASSUME ConnectFails(c)
      PROVE  WalletsInv'
  <2> DEFINE f == connect[c].form
  <2>1. /\ UNCHANGED <<wallet, syncJob, connected>> /\ connect[c].pc # "idle"
        /\ unqueued' = IF connect[c].pc = "enqueue" THEN unqueued \union {connect[c].safe} ELSE unqueued
        /\ connect' = [connect EXCEPT ![c] = NotConnecting] /\ Answered(f, c, NotAwaiting(f))
    BY <1>2, <1>7 DEF ConnectFails, EndConnect, ConnectAt
  <2>2. form' \in [Forms -> FormRecords]
    BY <1>1, <1>2, <2>1, AnswerTyped, NotAwaitingTyped
  <2> QED
    BY <1>3, <2>1, <2>2, OneRequest
<1> QED
  BY <1>4, <1>5, <1>6, <1>7

\* The wallet row, its job, its event.
LEMMA CreateWalletKeeps ==
    ASSUME WalletsInv, NEW c \in Connects, CreateWallet(c)
    PROVE  WalletsInv'
<1> DEFINE s == connect[c].safe
           f == connect[c].form
           r == [connect[c] EXCEPT !.pc = "enqueue"]
<1>1. /\ form \in [Forms -> FormRecords] /\ connect \in [Connects -> ConnectShapes]
      /\ connect[c] \in ConnectShapes /\ connect[c].pc = "create_wallet"
      /\ wallet \in [Safes -> WalletRows]
      /\ UNCHANGED <<challenge, syncJob, connected, unqueued>>
  BY DEF WalletsInv, WalletsShape, CreateWallet, ConnectAt
<1>2. /\ s \in Safes /\ f \in Forms
      /\ connect[c] \in [pc : {"connect", "issue", "create_wallet", "enqueue", "audit"},
                         form : Forms, safe : Safes]
  BY <1>1, ConnectShape
<1>3. r \in ConnectShapes /\ r.pc = "enqueue" /\ r.safe = s
  BY <1>2 DEF ConnectShapes
<1>4. CASE wallet[s] # "absent"
  <2>1. NotConnecting \in ConnectShapes /\ NotConnecting.pc = "idle"
    BY DEF ConnectShapes, NotConnecting
  <2>2. /\ Answered(f, c, NotAwaiting(f)) /\ wallet' = wallet
        /\ connect' = [connect EXCEPT ![c] = NotConnecting]
    BY <1>4 DEF CreateWallet, EndConnect
  <2>3. form' \in [Forms -> FormRecords]
    BY <1>1, <1>2, <2>2, AnswerTyped, NotAwaitingTyped
  <2> QED
    BY <1>1, <2>1, <2>2, <2>3, OneRequest
<1>5. CASE wallet[s] = "absent"
  <2>1. /\ wallet' = [wallet EXCEPT ![s] = "without_owners"] /\ form' = form
        /\ connect' = [connect EXCEPT ![c] = r]
    BY <1>5 DEF CreateWallet
  <2> HIDE DEF r
  <2>2. /\ connect' \in [Connects -> ConnectShapes] /\ connect'[c] = r
        /\ \A d \in Connects : d # c => connect'[d] = connect[d]
        /\ wallet' \in [Safes -> WalletRows] /\ wallet'[s] = "without_owners"
        /\ \A t \in Safes : t # s => wallet'[t] = wallet[t]
    BY <1>1, <1>2, <1>3, <2>1 DEF WalletRows
  <2>3. connected[s] = 0 /\ \A d \in Connects : Adds(d) => connect[d].safe # s
    <3>1. connected[s] \in Nat /\ ~ (connected[s] > 0)
      BY <1>2, <1>5 DEF WalletsInv, WalletsShape, OneAdds
    <3>2. \A d \in Connects : Adds(d) => connect[d].safe # s
      BY <1>5 DEF WalletsInv, OneAdds
    <3> QED
      BY <3>1, <3>2
  <2>4. WalletsShape'
    BY <1>1, <2>1, <2>2 DEF WalletsInv, WalletsShape
  <2>5. \A d \in Connects : d # c => (Adds(d)' <=> Adds(d))
    BY <2>2 DEF Adds
  <2>6. OneAdds'
    <3>1. \A d \in Connects : Adds(d)' /\ d # c => Adds(d) /\ connect'[d] = connect[d]
                                                   /\ connect[d].safe # s
      BY <2>2, <2>3, <2>5
    <3>2. connect'[c].safe = s
      BY <1>3, <2>2
    <3>3. \A d \in Connects : connect[d].pc # "idle" => connect[d].safe \in Safes
      BY <1>1, ConnectShape
    <3>4. \A d \in Connects : Adds(d) => connect[d].safe \in Safes
      BY <3>3 DEF Adds
    <3>5. \A d, e \in Connects : Adds(d)' /\ Adds(e)' /\ connect'[d].safe = connect'[e].safe => d = e
      BY <3>1, <3>2 DEF WalletsInv, OneAdds
    <3>6. \A d \in Connects : Adds(d)' =>
             wallet'[connect'[d].safe] # "absent" /\ connected[connect'[d].safe] = 0
      BY <2>2, <2>3, <3>1, <3>2, <3>4 DEF WalletsInv, OneAdds
    <3>7. \A t \in Safes : connected[t] <= 1 /\ (connected[t] > 0 => wallet'[t] # "absent")
      BY <2>2, <1>5 DEF WalletsInv, OneAdds
    <3> QED
      BY <1>1, <3>5, <3>6, <3>7 DEF OneAdds
  <2>7. QueuedFirst'
    BY <1>1, <1>3, <2>2 DEF WalletsInv, QueuedFirst
  <2>8. JobsWrite'
    BY <1>1, <1>5, <2>2 DEF WalletsInv, JobsWrite
  <2>9. UnsyncedAccounted'
    <3> SUFFICES ASSUME NEW t \in Safes, wallet'[t] = "without_owners",
                        syncJob[t].state \notin {"waiting", "active", "failed"},
                        t \notin unqueued
                 PROVE  \E d \in Adding(t)' : ConnectAt(d, "enqueue")'
      BY <1>1 DEF UnsyncedAccounted
    <3>1. CASE t = s
      BY <1>3, <2>2, <3>1 DEF Adding, ConnectAt
    <3>2. CASE t # s
      <4>1. PICK d \in Adding(t) : ConnectAt(d, "enqueue")
        BY <2>2, <3>2 DEF WalletsInv, UnsyncedAccounted
      <4>2. d \in Connects /\ d # c /\ connect[d].safe = t /\ connect[d].pc = "enqueue"
        BY <1>1, <4>1 DEF Adding, ConnectAt
      <4>3. connect'[d] = connect[d]
        BY <2>2, <4>2
      <4> QED
        BY <4>2, <4>3 DEF Adding, ConnectAt
    <3> QED
      BY <3>1, <3>2
  <2> QED
    BY <2>4, <2>6, <2>7, <2>8, <2>9 DEF WalletsInv
<1> QED
  BY <1>4, <1>5

LEMMA EnqueueKeeps ==
    ASSUME WalletsInv, NEW c \in Connects, EnqueueWalletSync(c)
    PROVE  WalletsInv'
<1> DEFINE s == connect[c].safe
           r == [connect[c] EXCEPT !.pc = "audit"]
           job == [syncJob[s] EXCEPT !.state = "waiting"]
<1>1. /\ connect \in [Connects -> ConnectShapes] /\ syncJob \in [Safes -> JobRecords]
      /\ connect[c] \in ConnectShapes /\ connect[c].pc = "enqueue"
      /\ UNCHANGED <<form, challenge, wallet, connected, unqueued>>
      /\ connect' = [connect EXCEPT ![c] = r]
      /\ syncJob' = IF syncJob[s] = NoJob THEN [syncJob EXCEPT ![s] = job] ELSE syncJob
  BY DEF WalletsInv, WalletsShape, EnqueueWalletSync, ConnectAt
<1>2. /\ s \in Safes
      /\ connect[c] \in [pc : {"connect", "issue", "create_wallet", "enqueue", "audit"},
                         form : Forms, safe : Safes]
  BY <1>1, ConnectShape
<1>3. r \in ConnectShapes /\ r.pc = "audit" /\ r.safe = s
  BY <1>2 DEF ConnectShapes
<1>4. job \in JobRecords /\ job.state = "waiting" /\ NoJob.state = "none"
  BY <1>1, <1>2 DEF JobRecords, NoJob
<1> HIDE DEF r, job
<1>5. /\ connect' \in [Connects -> ConnectShapes] /\ connect'[c] = r
      /\ \A d \in Connects : d # c => connect'[d] = connect[d]
  BY <1>1, <1>3
<1>6. /\ syncJob' \in [Safes -> JobRecords]
      /\ \A t \in Safes : syncJob'[t] = syncJob[t] \/ (t = s /\ syncJob'[t].state = "waiting")
      /\ syncJob'[s].state # "none"
  <2>1. CASE syncJob[s] = NoJob
    BY <1>1, <1>2, <1>4, <2>1
  <2>2. CASE syncJob[s] # NoJob
    BY <1>1, <1>2, <2>2 DEF WalletsInv, JobsWrite
  <2> QED
    BY <2>1, <2>2
<1>7. \A d \in Connects : (Adds(d)' <=> Adds(d)) /\ (Adds(d) => connect'[d].safe = connect[d].safe)
  BY <1>1, <1>3, <1>5 DEF Adds
<1>8. WalletsShape'
  BY <1>1, <1>5, <1>6 DEF WalletsInv, WalletsShape
<1>9. OneAdds'
  BY <1>1, <1>7 DEF WalletsInv, OneAdds
<1>10. QueuedFirst'
  <2>1. \A t \in Safes : syncJob[t] # NoJob => syncJob'[t] # NoJob
    BY <1>4, <1>6
  <2>2. syncJob'[s] # NoJob
    BY <1>4, <1>6
  <2>3. \A d \in Connects : connect'[d].pc = "audit" => syncJob'[connect'[d].safe] # NoJob
    <3>1. \A d \in Connects : connect[d].pc = "audit" => connect[d].safe \in Safes
      BY <1>1, ConnectShape
    <3> QED
      BY <1>3, <1>5, <2>1, <2>2, <3>1 DEF WalletsInv, QueuedFirst
  <2> QED
    BY <1>1, <2>1, <2>3 DEF WalletsInv, QueuedFirst
<1>11. JobsWrite'
  BY <1>1, <1>6 DEF WalletsInv, JobsWrite
<1>12. UnsyncedAccounted'
  <2> SUFFICES ASSUME NEW t \in Safes, wallet[t] = "without_owners",
                      syncJob'[t].state \notin {"waiting", "active", "failed"},
                      t \notin unqueued
               PROVE  \E d \in Adding(t)' : ConnectAt(d, "enqueue")'
    BY <1>1 DEF UnsyncedAccounted
  <2>1. t # s
    <3>1. ASSUME t = s
          PROVE  FALSE
      <4>1. syncJob'[s] \in JobRecords /\ syncJob'[s].state \in {"updated", "completed"}
        BY <1>2, <1>6, <3>1 DEF JobRecords
      <4>2. wallet[s] = "synced"
        BY <1>1, <1>2, <1>11, <4>1 DEF JobsWrite
      <4> QED
        BY <3>1, <4>2
    <3> QED
      BY <3>1
  <2>2. PICK d \in Adding(t) : ConnectAt(d, "enqueue")
    BY <1>6, <2>1 DEF WalletsInv, UnsyncedAccounted
  <2>3. d \in Connects /\ d # c /\ connect[d].safe = t /\ connect[d].pc = "enqueue"
    BY <2>1, <2>2 DEF Adding, ConnectAt
  <2>4. connect'[d] = connect[d]
    BY <1>5, <2>3
  <2> QED
    BY <2>3, <2>4 DEF Adding, ConnectAt
<1> QED
  BY <1>8, <1>9, <1>10, <1>11, <1>12 DEF WalletsInv

LEMMA AppendKeeps ==
    ASSUME WalletsInv, NEW c \in Connects, AppendWalletConnected(c)
    PROVE  WalletsInv'
<1> DEFINE s == connect[c].safe
           f == connect[c].form
<1>1. /\ form \in [Forms -> FormRecords] /\ connect \in [Connects -> ConnectShapes]
      /\ connect[c] \in ConnectShapes /\ connect[c].pc = "audit" /\ connected \in [Safes -> Nat]
      /\ UNCHANGED <<challenge, wallet, syncJob, unqueued>>
      /\ connected' = [connected EXCEPT ![s] = @ + 1]
      /\ connect' = [connect EXCEPT ![c] = NotConnecting] /\ Answered(f, c, NotAwaiting(f))
  BY DEF WalletsInv, WalletsShape, AppendWalletConnected, EndConnect, ConnectAt
<1>2. s \in Safes /\ f \in Forms
  BY <1>1, ConnectShape
<1>3. NotConnecting \in ConnectShapes /\ NotConnecting.pc = "idle"
  BY DEF ConnectShapes, NotConnecting
<1>4. /\ connect' \in [Connects -> ConnectShapes] /\ connect'[c] = NotConnecting
      /\ \A d \in Connects : d # c => connect'[d] = connect[d]
  BY <1>1, <1>3
<1>5. connected[s] = 0 /\ wallet[s] # "absent" /\ syncJob[s] # NoJob
      /\ \A d \in Connects : Adds(d) /\ connect[d].safe = s => d = c
  BY <1>1 DEF WalletsInv, OneAdds, QueuedFirst, Adds
<1>6. /\ connected' \in [Safes -> Nat] /\ connected'[s] = 1
      /\ \A t \in Safes : t # s => connected'[t] = connected[t]
  BY <1>1, <1>2, <1>5
<1>7. form' \in [Forms -> FormRecords]
  BY <1>1, <1>2, AnswerTyped, NotAwaitingTyped
<1>8. WalletsShape'
  BY <1>1, <1>4, <1>6, <1>7 DEF WalletsInv, WalletsShape
<1>9. \A d \in Connects : Adds(d)' => /\ Adds(d) /\ connect'[d] = connect[d]
                                      /\ connect[d].safe # s /\ connect[d].safe \in Safes
  <2>1. \A d \in Connects : Adds(d)' => Adds(d) /\ connect'[d] = connect[d] /\ connect[d].safe # s
    BY <1>3, <1>4, <1>5 DEF Adds
  <2>2. \A d \in Connects : connect[d].pc # "idle" => connect[d].safe \in Safes
    BY <1>1, ConnectShape
  <2> QED
    BY <2>1, <2>2 DEF Adds
<1>10. OneAdds'
  <2>1. \A d, e \in Connects : Adds(d)' /\ Adds(e)' /\ connect'[d].safe = connect'[e].safe => d = e
    BY <1>9 DEF WalletsInv, OneAdds
  <2>2. \A d \in Connects : Adds(d)' =>
           wallet[connect'[d].safe] # "absent" /\ connected'[connect'[d].safe] = 0
    BY <1>6, <1>9 DEF WalletsInv, OneAdds
  <2>3. \A t \in Safes : connected'[t] <= 1 /\ (connected'[t] > 0 => wallet[t] # "absent")
    BY <1>5, <1>6 DEF WalletsInv, OneAdds
  <2> QED
    BY <1>1, <2>1, <2>2, <2>3 DEF OneAdds
<1>11. QueuedFirst' /\ JobsWrite'
  BY <1>1, <1>3, <1>4, <1>5, <1>6 DEF WalletsInv, QueuedFirst, JobsWrite
<1>12. UnsyncedAccounted'
  <2> SUFFICES ASSUME NEW t \in Safes, wallet[t] = "without_owners",
                      syncJob[t].state \notin {"waiting", "active", "failed"},
                      t \notin unqueued
               PROVE  \E d \in Adding(t)' : ConnectAt(d, "enqueue")'
    BY <1>1 DEF UnsyncedAccounted
  <2>1. PICK d \in Adding(t) : ConnectAt(d, "enqueue")
    BY DEF WalletsInv, UnsyncedAccounted
  <2>2. d \in Connects /\ d # c /\ connect[d].safe = t /\ connect[d].pc = "enqueue"
    BY <1>1, <2>1 DEF Adding, ConnectAt
  <2>3. connect'[d] = connect[d]
    BY <1>4, <2>2
  <2> QED
    BY <2>2, <2>3 DEF Adding, ConnectAt
<1> QED
  BY <1>8, <1>10, <1>11, <1>12 DEF WalletsInv

\* The job of a wallet, whatever becomes of it.
LEMMA WorkKeeps ==
    ASSUME WalletsInv, NEW s \in Safes, Work(s) \/ WorkerDies(s)
    PROVE  WalletsInv'
<1>1. /\ syncJob \in [Safes -> JobRecords] /\ wallet \in [Safes -> WalletRows]
      /\ UNCHANGED <<form, connect, challenge, connected, unqueued>>
      /\ syncJob[s] \in JobRecords /\ syncJob[s].state # "none"
  BY DEF WalletsInv, WalletsShape, Work, TakeJob, SyncWalletById, JobCompletes, SyncThrows,
         WorkerDies, Job
<1>2. /\ syncJob' \in [Safes -> JobRecords]
      /\ \A t \in Safes : t # s => syncJob'[t] = syncJob[t]
      /\ syncJob'[s].state \in {"waiting", "active", "failed", "updated", "completed"}
      /\ syncJob'[s].state = "completed" => syncJob[s].state = "updated"
      /\ syncJob'[s].state = "updated" => wallet'[s] = "synced"
      /\ \A t \in Safes : wallet'[t] = wallet[t] \/ (t = s /\ wallet'[t] = "synced")
      /\ wallet' \in [Safes -> WalletRows]
  <2>1. CASE SyncWalletById(s)
    BY <1>1, <2>1 DEF SyncWalletById, Job, JobRecords, WalletRows
  <2>2. CASE SyncThrows(s)
    <3> DEFINE to == IF syncJob[s].failures + 1 < MaxAttempts THEN "waiting" ELSE "failed"
               job == [state |-> to, failures |-> syncJob[s].failures + 1]
    <3>1. syncJob' = [syncJob EXCEPT ![s] = job] /\ wallet' = wallet
      BY <2>2 DEF SyncThrows
    <3>2. to \in {"waiting", "failed"} /\ syncJob[s].failures \in Nat
      BY <1>1 DEF JobRecords
    <3>3. job \in JobRecords /\ job.state \in {"waiting", "failed"}
      BY <3>2 DEF JobRecords
    <3> HIDE DEF job
    <3> QED
      BY <1>1, <3>1, <3>3
  <2>3. CASE \/ TakeJob(s) \/ JobCompletes(s) \/ WorkerDies(s)
    <3>1. PICK to \in {"waiting", "active", "failed", "completed"} :
            /\ syncJob' = [syncJob EXCEPT ![s].state = to] /\ wallet' = wallet
            /\ to = "completed" => syncJob[s].state = "updated"
      BY <2>3 DEF TakeJob, JobCompletes, WorkerDies, Job
    <3> DEFINE job == [syncJob[s] EXCEPT !.state = to]
    <3>2. job \in JobRecords /\ job.state = to /\ syncJob' = [syncJob EXCEPT ![s] = job]
      BY <1>1, <3>1 DEF JobRecords
    <3> HIDE DEF job
    <3> QED
      BY <1>1, <3>1, <3>2
  <2> QED
    BY <2>1, <2>2, <2>3 DEF Work
<1>3. WalletsShape'
  BY <1>1, <1>2 DEF WalletsInv, WalletsShape
<1>4. OneAdds'
  <2>1. \A t \in Safes : wallet[t] # "absent" => wallet'[t] # "absent"
    BY <1>2
  <2>2. \A d \in Connects : connect[d].pc # "idle" => connect[d].safe \in Safes
    BY ConnectShape DEF WalletsInv, WalletsShape
  <2>3. \A d \in Connects : Adds(d) => connect[d].safe \in Safes
    BY <2>2 DEF Adds
  <2>4. \A d \in Connects : Adds(d)' <=> Adds(d)
    BY <1>1 DEF Adds
  <2> QED
    BY <1>1, <2>1, <2>3, <2>4 DEF WalletsInv, OneAdds
<1>5. QueuedFirst'
  <2>1. NoJob.state = "none"
    BY DEF NoJob
  <2>2. \A t \in Safes : syncJob[t] # NoJob => syncJob'[t] # NoJob
    BY <1>2, <2>1
  <2>3. \A d \in Connects : connect[d].pc = "audit" => connect[d].safe \in Safes
    BY ConnectShape DEF WalletsInv, WalletsShape
  <2> QED
    BY <1>1, <2>2, <2>3 DEF WalletsInv, QueuedFirst
<1>6. JobsWrite'
  <2> SUFFICES ASSUME NEW t \in Safes
               PROVE  /\ syncJob'[t].state = "none" => syncJob'[t] = NoJob
                      /\ syncJob'[t].state \in {"updated", "completed"} => wallet'[t] = "synced"
    BY DEF JobsWrite
  <2>1. /\ syncJob[t].state = "none" => syncJob[t] = NoJob
        /\ syncJob[t].state \in {"updated", "completed"} => wallet[t] = "synced"
        /\ wallet[t] = "synced" => wallet'[t] = "synced"
    BY <1>2 DEF WalletsInv, JobsWrite
  <2> QED
    BY <1>2, <2>1
<1>7. UnsyncedAccounted'
  <2> SUFFICES ASSUME NEW t \in Safes, wallet'[t] = "without_owners",
                      syncJob'[t].state \notin {"waiting", "active", "failed"},
                      t \notin unqueued
               PROVE  \E d \in Adding(t)' : ConnectAt(d, "enqueue")'
    BY <1>1 DEF UnsyncedAccounted
  <2>1. t # s
    BY <1>2, <1>6 DEF JobsWrite
  <2>2. \E d \in Adding(t) : ConnectAt(d, "enqueue")
    BY <1>2, <2>1 DEF WalletsInv, UnsyncedAccounted
  <2> QED
    BY <1>1, <2>2 DEF Adding, ConnectAt
<1> QED
  BY <1>3, <1>4, <1>5, <1>6, <1>7 DEF WalletsInv

\* What the wallets hold, in every reachable state.
LEMMA WalletsAlways == WalletsSpec => []WalletsInv
<1>1. WalletsInit => WalletsInv
  <2> SUFFICES ASSUME WalletsInit
               PROVE  WalletsInv
    OBVIOUS
  <2>1. NewForm \in FormRecords /\ NotConnecting \in ConnectShapes /\ NotConnecting.pc = "idle"
        /\ NoJob \in JobRecords /\ NoJob.state = "none" /\ "absent" \in WalletRows
    BY DEF NewForm, FormRecords, NotConnecting, ConnectShapes, NoJob, JobRecords, WalletRows
  <2>2. WalletsShape
    BY <2>1 DEF WalletsInit, WalletsShape
  <2>3. \A c \in Connects : connect[c].pc = "idle"
    BY <2>1 DEF WalletsInit
  <2>4. OneAdds /\ QueuedFirst
    BY <2>3 DEF WalletsInit, OneAdds, QueuedFirst, Adds
  <2>5. JobsWrite /\ UnsyncedAccounted
    BY <2>1 DEF WalletsInit, JobsWrite, UnsyncedAccounted
  <2> QED
    BY <2>2, <2>4, <2>5 DEF WalletsInv
<1>2. WalletsInv /\ [WalletsNext]_walletVars => WalletsInv'
  <2> SUFFICES ASSUME WalletsInv, [WalletsNext]_walletVars
               PROVE  WalletsInv'
    OBVIOUS
  <2>1. CASE UNCHANGED walletVars
    BY <2>1 DEF walletVars, WalletsInv, WalletsShape, OneAdds, QueuedFirst, JobsWrite,
                UnsyncedAccounted, Adds, Adding, ConnectAt
  <2>2. ASSUME NEW f \in Forms,
               \/ \E c \in Connects, s \in Safes : HandleConnect(f, c, s) \/ SignWithWallet(f, c, s)
               \/ AnswerLost(f) \/ Reload(f)
        PROVE  WalletsInv'
    BY <2>2, FormSteps
  <2>3. ASSUME NEW c \in Connects, ConnectProceeds(c) \/ ConnectFails(c)
        PROVE  WalletsInv'
    BY <2>3, RequestsBefore, CreateWalletKeeps, EnqueueKeeps, AppendKeeps DEF ConnectProceeds
  <2>4. ASSUME NEW h \in Challenges, ChallengeLapses(h)
        PROVE  WalletsInv'
    BY <2>4 DEF ChallengeLapses, WalletsInv, WalletsShape, OneAdds, QueuedFirst, JobsWrite,
                UnsyncedAccounted, Adds, Adding, ConnectAt
  <2>5. ASSUME NEW s \in Safes, Work(s) \/ WorkerDies(s)
        PROVE  WalletsInv'
    BY <2>5, WorkKeeps
  <2> QED
    BY <2>1, <2>2, <2>3, <2>4, <2>5 DEF WalletsNext
<1> QED
  BY <1>1, <1>2, PTL DEF WalletsSpec

(***************************************************************************)
(* A Safe is connected by one request only and enters the audit log once,  *)
(* after its sync is queued; and its owners are read or the reason they    *)
(* are not is there to be seen.                                            *)
(***************************************************************************)
THEOREM ConnectedInOrder == WalletsSpec => []WalletsConnectInOrder
<1>1. WalletsInv => WalletsConnectInOrder
  <2> SUFFICES ASSUME WalletsInv, NEW s \in Safes
               PROVE  /\ connected[s] + Cardinality(Adding(s)) <= 1
                      /\ connected[s] > 0 => syncJob[s] # NoJob
    BY DEF WalletsConnectInOrder, WalletsInv
  <2>1. connected[s] \in Nat /\ connected[s] <= 1 /\ (connected[s] > 0 => syncJob[s] # NoJob)
    BY DEF WalletsInv, WalletsShape, OneAdds, QueuedFirst
  <2>2. CASE Adding(s) = {}
    BY <2>1, <2>2, FS_EmptySet
  <2>3. CASE Adding(s) # {}
    <3>1. PICK c \in Adding(s) : TRUE
      BY <2>3
    <3>2. connected[s] = 0
      BY <3>1 DEF Adding, Adds, WalletsInv, OneAdds
    <3>3. Adding(s) = {c}
      BY <3>1 DEF Adding, Adds, WalletsInv, OneAdds
    <3>4. Cardinality({c}) = 1
      BY FS_Singleton
    <3> QED
      BY <2>1, <3>2, <3>3, <3>4
  <2> QED
    BY <2>1, <2>2, <2>3
<1> QED
  BY <1>1, WalletsAlways, PTL

(***************************************************************************)
(* What the Safe service accepted of one intent is accounted for.          *)
(***************************************************************************)
Proposing(p) == proposing[p] # NotProposing

ProposalFrames == [pc : {"check", "safe", "accepted", "refused"}, mounted : BOOLEAN]

DetailRecords == [status : RowStatuses \union {"none"}, error : BOOLEAN, loading : BOOLEAN]

\* The page's one button shows the load of the one proposal it has in flight.
OneMounted ==
    /\ \A p \in Proposals : Proposing(p) /\ proposing[p].mounted => detail.loading
    /\ \A p, o \in Proposals :
          Proposing(p) /\ proposing[p].mounted /\ Proposing(o) /\ proposing[o].mounted => p = o
    /\ detail.loading => CanSign(detail)

Unsubmitted == row \in {"pending_approval", "ready_to_sign"}

\* Proposals whose button is gone and that may still be accepted: each was
\* excused when the button went.
Detached == {p \in Proposals : proposing[p].pc \in {"check", "safe"} /\ ~ proposing[p].mounted}

AtSafe == {p \in Proposals : proposing[p].pc = "safe"}

\* The excuses pay for what was accepted and for what still may be: before the
\* intent is submitted for every detached proposal, after it for every one
\* that has passed its check, but for the one that needs no excuse.
Accounts ==
    \/ excused = MaxProposed
    \/ Unsubmitted /\ proposed + Cardinality(Detached) <= excused
    \/ ~ Unsubmitted /\ proposed + Cardinality(AtSafe) <= 1 + excused

PageInv == IntentPageTypeOK /\ OneMounted /\ Accounts

LEMMA FiniteCounts ==
    /\ IsFiniteSet(Detached) /\ Cardinality(Detached) \in Nat
    /\ IsFiniteSet(AtSafe) /\ Cardinality(AtSafe) \in Nat
BY FS_Subset, FS_CardinalityType, IntentPageAssumption DEF Detached, AtSafe

\* At most one proposal at the Safe service still has its button.
LEMMA SafeBound ==
    ASSUME IntentPageTypeOK, OneMounted
    PROVE  Cardinality(AtSafe) <= Cardinality(Detached) + 1
<1>1. ASSUME AtSafe \subseteq Detached PROVE Cardinality(AtSafe) <= Cardinality(Detached)
  BY <1>1, FiniteCounts, FS_Subset
<1>2. ASSUME NEW q \in AtSafe \ Detached
      PROVE  Cardinality(AtSafe) <= Cardinality(Detached) + 1
  <2>1. AtSafe \subseteq Detached \union {q}
    <3>1. ASSUME NEW p \in AtSafe, p \notin Detached PROVE p = q
      <4>1. \A o \in AtSafe \ Detached :
               o \in Proposals /\ Proposing(o) /\ proposing[o].mounted
        BY DEF IntentPageTypeOK, AtSafe, Detached, Proposing, NotProposing
      <4>2. QED
        BY <1>2, <3>1, <4>1 DEF OneMounted
    <3>2. QED
      BY <3>1
  <2>2. /\ IsFiniteSet(Detached \union {q})
        /\ Cardinality(Detached \union {q}) = Cardinality(Detached) + 1
    BY <1>2, FiniteCounts, FS_AddElement
  <2>3. Cardinality(AtSafe) <= Cardinality(Detached \union {q})
    BY <2>1, <2>2, FS_Subset
  <2>4. QED
    BY <2>2, <2>3
<1>3. QED
  BY <1>1, <1>2, FiniteCounts

\* Steps that accept and excuse nothing keep the account.
LEMMA AccountsKeep ==
    ASSUME PageInv, UNCHANGED <<proposed, excused>>,
           Unsubmitted' => Unsubmitted /\ Detached' \subseteq Detached,
           ~ Unsubmitted' => AtSafe' \subseteq AtSafe
    PROVE  Accounts'
<1>1. /\ {Cardinality(Detached), Cardinality(AtSafe), proposed, excused} \subseteq Nat
      /\ IsFiniteSet(Detached) /\ IsFiniteSet(AtSafe)
  BY FiniteCounts, IntentPageAssumption DEF PageInv, IntentPageTypeOK
<1>2. CASE Unsubmitted'
  <2>1. Cardinality(Detached') <= Cardinality(Detached) /\ Cardinality(Detached') \in Nat
    BY <1>1, <1>2, FS_Subset, FS_CardinalityType
  <2>2. QED
    BY <1>1, <1>2, <2>1 DEF PageInv, Accounts
<1>3. CASE ~ Unsubmitted'
  <2>1. Cardinality(AtSafe') <= Cardinality(AtSafe) /\ Cardinality(AtSafe') \in Nat
    BY <1>1, <1>3, FS_Subset, FS_CardinalityType
  <2>2. Cardinality(AtSafe) <= Cardinality(Detached) + 1
    BY SafeBound DEF PageInv
  <2>3. QED
    BY <1>1, <1>3, <2>1, <2>2 DEF PageInv, Accounts
<1>4. QED
  BY <1>2, <1>3

\* A proposal that goes on keeps its button, and the others theirs.
LEMMA ProposalGoes ==
    ASSUME IntentPageTypeOK, NEW p \in Proposals, Proposing(p),
           NEW step \in {"safe", "accepted", "refused"}, ProposalGoto(p, step)
    PROVE  /\ proposing' \in [Proposals -> {NotProposing} \union ProposalFrames]
           /\ proposing'[p] \in ProposalFrames
           /\ proposing'[p].pc = step /\ proposing'[p].mounted = proposing[p].mounted
           /\ \A o \in Proposals : o # p => proposing'[o] = proposing[o]
           /\ \A o \in Proposals : Proposing(o)' = Proposing(o)
<1>1. proposing[p] \in ProposalFrames
  BY DEF IntentPageTypeOK, Proposing, ProposalFrames
<1>2. [proposing[p] EXCEPT !.pc = step] \in ProposalFrames
  BY <1>1 DEF ProposalFrames
<1>3. /\ [proposing[p] EXCEPT !.pc = step].pc = step
      /\ [proposing[p] EXCEPT !.pc = step].mounted = proposing[p].mounted
  BY <1>1 DEF ProposalFrames
<1>4. proposing' = [proposing EXCEPT ![p] = [proposing[p] EXCEPT !.pc = step]]
  BY DEF ProposalGoto
<1>5. proposing \in [Proposals -> {NotProposing} \union ProposalFrames]
  BY DEF IntentPageTypeOK, ProposalFrames
<1>6. proposing'[p] = [proposing[p] EXCEPT !.pc = step]
      /\ \A o \in Proposals : o # p => proposing'[o] = proposing[o]
  BY <1>4, <1>5
<1>7. proposing'[p] # NotProposing
  BY <1>3, <1>6 DEF NotProposing
<1>8. QED
  BY <1>2, <1>3, <1>4, <1>5, <1>6, <1>7 DEF Proposing

\* So the page still has one button and one load.
LEMMA GoesOneMounted ==
    ASSUME IntentPageTypeOK, OneMounted, NEW p \in Proposals, Proposing(p),
           NEW step \in {"safe", "accepted", "refused"}, ProposalGoto(p, step), detail' = detail
    PROVE  OneMounted'
<1>1. /\ proposing'[p].mounted = proposing[p].mounted
      /\ \A o \in Proposals : o # p => proposing'[o] = proposing[o]
      /\ \A o \in Proposals : Proposing(o)' = Proposing(o)
  BY ProposalGoes
<1>2. \A o \in Proposals : proposing'[o].mounted = proposing[o].mounted
  BY <1>1
<1>3. QED
  BY <1>1, <1>2 DEF OneMounted, CanSign

\* Excuse counts one more, or is at its bound.
LEMMA Excused ==
    ASSUME IntentPageTypeOK, Excuse
    PROVE  /\ excused' \in 0 .. MaxProposed
           /\ excused' = MaxProposed \/ excused' = excused + 1
BY IntentPageAssumption DEF IntentPageTypeOK, Excuse

\* A new answer may take the button away; its proposal is excused.
LEMMA ShowSteps ==
    ASSUME PageInv, NEW page \in DetailRecords, page.loading = detail.loading, Show(page),
           UNCHANGED <<row, proposed>>
    PROVE  /\ detail' \in DetailRecords
           /\ proposing' \in [Proposals -> {NotProposing} \union ProposalFrames]
           /\ excused' \in 0 .. MaxProposed
           /\ OneMounted' /\ Accounts'
<1>1. /\ IntentPageTypeOK /\ OneMounted /\ Accounts
      /\ proposing \in [Proposals -> {NotProposing} \union ProposalFrames]
      /\ excused \in 0 .. MaxProposed
  BY DEF PageInv, IntentPageTypeOK, ProposalFrames
<1>2. CASE /\ detail' = page /\ UNCHANGED <<proposing, excused>>
           /\ CanSign(detail) => CanSign(page)
  <2>1. OneMounted'
    BY <1>1, <1>2 DEF OneMounted, Proposing
  <2>2. Accounts'
    BY <1>1, <1>2 DEF Accounts, Unsubmitted, Detached, AtSafe
  <2>3. QED
    BY <1>1, <1>2, <2>1, <2>2
<1>3. CASE /\ detail' = [page EXCEPT !.loading = FALSE]
           /\ proposing' = [p \in Proposals |-> IF proposing[p] = NotProposing THEN NotProposing
                                                ELSE [proposing[p] EXCEPT !.mounted = FALSE]]
           /\ IF detail.loading THEN Excuse ELSE UNCHANGED excused
  <2>1. detail' \in DetailRecords /\ detail'.loading = FALSE
    BY <1>3 DEF DetailRecords
  <2>2. ASSUME NEW p \in Proposals
        PROVE  \/ ~ Proposing(p) /\ proposing'[p] = NotProposing
               \/ /\ Proposing(p) /\ proposing[p] \in ProposalFrames
                  /\ proposing'[p] \in ProposalFrames
                  /\ proposing'[p].pc = proposing[p].pc /\ ~ proposing'[p].mounted
    <3>1. CASE proposing[p] = NotProposing
      BY <1>3, <3>1 DEF Proposing
    <3>2. CASE proposing[p] # NotProposing
      <4>1. proposing[p] \in ProposalFrames
        BY <1>1, <3>2
      <4>2. [proposing[p] EXCEPT !.mounted = FALSE] \in ProposalFrames
        BY <4>1 DEF ProposalFrames
      <4>3. /\ [proposing[p] EXCEPT !.mounted = FALSE].pc = proposing[p].pc
            /\ ~ [proposing[p] EXCEPT !.mounted = FALSE].mounted
        BY <4>1 DEF ProposalFrames
      <4>4. proposing'[p] = [proposing[p] EXCEPT !.mounted = FALSE]
        BY <1>3, <3>2
      <4>5. QED
        BY <3>2, <4>1, <4>2, <4>3, <4>4 DEF Proposing
    <3>3. QED
      BY <3>1, <3>2
  <2>3. proposing' \in [Proposals -> {NotProposing} \union ProposalFrames]
    BY <1>3, <2>2
  <2>4. OneMounted'
    <3>1. \A p \in Proposals : ~ (Proposing(p)' /\ proposing'[p].mounted)
      BY <2>2 DEF Proposing
    <3>2. QED
      BY <2>1, <3>1 DEF OneMounted
  <2>5. AtSafe' = AtSafe
    BY <2>2 DEF AtSafe, NotProposing, Proposing
  <2>6. Detached' = {p \in Proposals : proposing[p].pc \in {"check", "safe"}}
    BY <2>2 DEF Detached, NotProposing, Proposing
  <2>7. \A p \in Detached' : p \notin Detached => Proposing(p) /\ proposing[p].mounted
    BY <2>6, <2>2 DEF Detached, NotProposing, Proposing
  <2>8. /\ {Cardinality(Detached), Cardinality(AtSafe)} \subseteq Nat
        /\ {proposed, excused, MaxProposed} \subseteq Nat
        /\ IsFiniteSet(Detached) /\ IsFiniteSet(AtSafe)
    BY <1>1, FiniteCounts, IntentPageAssumption DEF IntentPageTypeOK
  <2>9. CASE detail.loading
    <3>1. excused' \in 0 .. MaxProposed /\ (excused' = MaxProposed \/ excused' = excused + 1)
      BY <1>1, <1>3, <2>9, Excused
    <3>2. Cardinality(Detached') <= Cardinality(Detached) + 1 /\ Cardinality(Detached') \in Nat
      <4>1. CASE Detached' \subseteq Detached
        BY <2>8, <4>1, FS_Subset, FS_CardinalityType
      <4>2. ASSUME NEW q \in Detached', q \notin Detached
            PROVE  /\ Cardinality(Detached') <= Cardinality(Detached) + 1
                   /\ Cardinality(Detached') \in Nat
        <5>1. Detached' \subseteq Detached \union {q}
          BY <1>1, <2>6, <2>7, <4>2 DEF OneMounted
        <5>2. /\ IsFiniteSet(Detached \union {q})
              /\ Cardinality(Detached \union {q}) = Cardinality(Detached) + 1
          BY <2>8, <4>2, FS_AddElement
        <5>3. /\ Cardinality(Detached') <= Cardinality(Detached \union {q})
              /\ IsFiniteSet(Detached')
          BY <5>1, <5>2, FS_Subset
        <5>4. QED
          BY <5>2, <5>3, FS_CardinalityType
      <4>3. QED
        BY <4>1, <4>2
    <3>3. Accounts'
      BY <1>1, <2>5, <2>8, <3>1, <3>2 DEF Accounts, Unsubmitted
    <3>4. QED
      BY <2>1, <2>3, <2>4, <3>1, <3>3
  <2>10. CASE ~ detail.loading
    <3>1. Detached' \subseteq Detached
      BY <1>1, <2>6, <2>7, <2>10 DEF OneMounted
    <3>2. excused' = excused
      BY <1>3, <2>10
    <3>3. Accounts'
      BY <2>5, <3>1, <3>2, AccountsKeep DEF Unsubmitted
    <3>4. QED
      BY <1>1, <2>1, <2>3, <2>4, <3>2, <3>3
  <2>11. QED
    BY <2>9, <2>10
<1>4. QED
  BY <1>2, <1>3 DEF Show

\* Polls ask and are answered.
LEMMA PollSteps ==
    ASSUME PageInv, NEW q \in Polls,
           Poll(q) \/ ReadIntent(q) \/ PollRefused(q) \/ ShowAnswer(q) \/ ShowError(q)
    PROVE  PageInv'
<1>1. /\ IntentPageTypeOK /\ OneMounted /\ Accounts /\ row \in RowStatuses
      /\ proposing \in [Proposals -> {NotProposing} \union ProposalFrames]
      /\ detail \in DetailRecords
      /\ poll \in [Polls -> [pc : {"idle", "asked", "failed"}]
                            \union [pc : {"answered"}, status : RowStatuses]]
  BY DEF PageInv, IntentPageTypeOK, ProposalFrames, DetailRecords
<1>2. poll' \in [Polls -> [pc : {"idle", "asked", "failed"}]
                          \union [pc : {"answered"}, status : RowStatuses]]
  BY <1>1 DEF Poll, ReadIntent, PollRefused, ShowAnswer, ShowError, PollGoto, NoPoll
<1>3. CASE UNCHANGED <<row, detail, proposing, proposed, excused>>
  BY <1>1, <1>2, <1>3
  DEF PageInv, IntentPageTypeOK, OneMounted, Proposing, CanSign, Accounts, Unsubmitted, Detached,
      AtSafe
<1>4. ASSUME NEW page \in DetailRecords, page.loading = detail.loading, Show(page),
             UNCHANGED <<row, proposed>>
      PROVE  PageInv'
  <2>1. /\ detail' \in DetailRecords
        /\ proposing' \in [Proposals -> {NotProposing} \union ProposalFrames]
        /\ excused' \in 0 .. MaxProposed
        /\ OneMounted' /\ Accounts'
    BY <1>4, ShowSteps
  <2>2. QED
    BY <1>1, <1>2, <1>4, <2>1 DEF PageInv, IntentPageTypeOK, DetailRecords, ProposalFrames
<1>5. CASE ShowAnswer(q)
  <2>1. poll[q].status \in RowStatuses
    BY <1>1, <1>5 DEF ShowAnswer
  <2>2. PICK page : page = [detail EXCEPT !.status = poll[q].status, !.error = FALSE]
    OBVIOUS
  <2>3. page \in DetailRecords /\ page.loading = detail.loading
    BY <1>1, <2>1, <2>2 DEF DetailRecords
  <2>4. QED
    BY <1>4, <1>5, <2>2, <2>3 DEF ShowAnswer
<1>6. CASE ShowError(q)
  <2>1. PICK page : page = [detail EXCEPT !.error = TRUE]
    OBVIOUS
  <2>2. page \in DetailRecords /\ page.loading = detail.loading
    BY <1>1, <2>1 DEF DetailRecords
  <2>3. QED
    BY <1>4, <1>6, <2>1, <2>2 DEF ShowError
<1>7. QED
  BY <1>3, <1>5, <1>6 DEF Poll, ReadIntent, PollRefused

\* A click starts the one proposal of a button that is not loading.
LEMMA HandleSignKeeps ==
    ASSUME PageInv, NEW p \in Proposals, HandleSign(p)
    PROVE  PageInv'
<1>1. /\ IntentPageTypeOK /\ OneMounted /\ Accounts
      /\ proposing \in [Proposals -> {NotProposing} \union ProposalFrames]
      /\ detail \in DetailRecords
  BY DEF PageInv, IntentPageTypeOK, ProposalFrames, DetailRecords
<1>2. PICK frame : frame = [pc |-> "check", mounted |-> TRUE]
  OBVIOUS
<1>3. /\ frame \in ProposalFrames /\ frame.pc = "check" /\ frame.mounted /\ frame # NotProposing
  BY <1>2 DEF ProposalFrames, NotProposing
<1>4. /\ proposing'[p] = frame /\ \A o \in Proposals : o # p => proposing'[o] = proposing[o]
      /\ proposing' \in [Proposals -> {NotProposing} \union ProposalFrames]
  BY <1>1, <1>2, <1>3 DEF HandleSign
<1>5. /\ detail' \in DetailRecords /\ detail'.loading = TRUE
      /\ detail'.error = detail.error /\ detail'.status = detail.status
  BY <1>1 DEF HandleSign, DetailRecords
<1>6. \A o \in Proposals : ~ (Proposing(o) /\ proposing[o].mounted)
  BY <1>1 DEF HandleSign, OneMounted
<1>7. OneMounted'
  BY <1>3, <1>4, <1>5, <1>6 DEF OneMounted, Proposing, HandleSign, CanSign
<1>8. Detached' \subseteq Detached /\ AtSafe' \subseteq AtSafe
  BY <1>3, <1>4 DEF Detached, AtSafe
<1>9. UNCHANGED <<row, poll, proposed, excused>>
  BY DEF HandleSign
<1>10. Accounts'
  BY <1>8, <1>9, AccountsKeep DEF Unsubmitted
<1>11. QED
  BY <1>1, <1>4, <1>5, <1>7, <1>9, <1>10
  DEF PageInv, IntentPageTypeOK, ProposalFrames, DetailRecords

\* The API refuses a proposal, or lets it go on, before the Safe service has
\* accepted it or after.
LEMMA ProposalSteps ==
    ASSUME PageInv, NEW p \in Proposals, CheckReady(p) \/ SafeRefuses(p) \/ ProposalLost(p)
    PROVE  PageInv'
<1>1. /\ IntentPageTypeOK /\ OneMounted
      /\ proposing \in [Proposals -> {NotProposing} \union ProposalFrames]
  BY DEF PageInv, IntentPageTypeOK, ProposalFrames
<1>2. Proposing(p)
  BY DEF CheckReady, SafeRefuses, ProposalLost, Proposing, NotProposing
<1>3. PICK step \in {"safe", "refused"} :
         ProposalGoto(p, step)
         /\ (step = "safe" => row = "ready_to_sign" /\ proposing[p].pc = "check" /\ row' = row)
  BY DEF CheckReady, SafeRefuses, ProposalLost
<1>4. /\ proposing' \in [Proposals -> {NotProposing} \union ProposalFrames]
      /\ proposing'[p].pc = step /\ proposing'[p].mounted = proposing[p].mounted
      /\ \A o \in Proposals : o # p => proposing'[o] = proposing[o]
  BY <1>1, <1>2, <1>3, ProposalGoes
<1>5. OneMounted'
  BY <1>1, <1>2, <1>3, GoesOneMounted DEF CheckReady, SafeRefuses, ProposalLost
<1>6. UNCHANGED <<poll, detail, proposed, excused>> /\ row' \in {row, "failed"}
  BY DEF CheckReady, SafeRefuses, ProposalLost
<1>7. Accounts'
  <2>1. Detached' \subseteq Detached
    BY <1>3, <1>4 DEF Detached
  <2>2. ~ Unsubmitted' => AtSafe' \subseteq AtSafe
    BY <1>3, <1>4, <1>6 DEF AtSafe, Unsubmitted
  <2>3. QED
    BY <1>6, <2>1, <2>2, AccountsKeep DEF Unsubmitted
<1>8. QED
  BY <1>1, <1>4, <1>5, <1>6, <1>7
  DEF PageInv, IntentPageTypeOK, ProposalFrames, RowStatuses

\* The Safe service accepts: the intent is submitted, or the answer was lost.
LEMMA AcceptKeeps ==
    ASSUME PageInv, NEW p \in Proposals, SafeAccepts(p)
    PROVE  PageInv'
<1>1. /\ IntentPageTypeOK /\ OneMounted /\ Accounts
      /\ proposing \in [Proposals -> {NotProposing} \union ProposalFrames]
  BY DEF PageInv, IntentPageTypeOK, ProposalFrames
<1>2. Proposing(p) /\ proposing[p].pc = "safe" /\ UNCHANGED <<poll, detail>>
      /\ proposed' = proposed + 1 /\ proposed < MaxProposed
  BY DEF SafeAccepts, Proposing, NotProposing
<1>3. PICK step \in {"accepted", "refused"} : ProposalGoto(p, step)
  BY DEF SafeAccepts
<1>4. /\ proposing' \in [Proposals -> {NotProposing} \union ProposalFrames]
      /\ proposing'[p].pc = step /\ proposing'[p].mounted = proposing[p].mounted
      /\ \A o \in Proposals : o # p => proposing'[o] = proposing[o]
  BY <1>1, <1>2, <1>3, ProposalGoes
<1>5. OneMounted'
  BY <1>1, <1>2, <1>3, GoesOneMounted
<1>6. /\ {Cardinality(Detached), Cardinality(AtSafe), proposed, excused, MaxProposed} \subseteq Nat
      /\ IsFiniteSet(Detached) /\ IsFiniteSet(AtSafe)
  BY <1>1, FiniteCounts, IntentPageAssumption DEF IntentPageTypeOK
<1>7. p \in AtSafe /\ AtSafe' = AtSafe \ {p} /\ Detached' \subseteq Detached
  BY <1>2, <1>3, <1>4 DEF AtSafe, Detached
<1>8. Cardinality(AtSafe') = Cardinality(AtSafe) - 1
  BY <1>6, <1>7, FS_RemoveElement
<1>9. Cardinality(Detached') <= Cardinality(Detached) /\ Cardinality(Detached') \in Nat
  BY <1>6, <1>7, FS_Subset, FS_CardinalityType
<1>10. CASE row' = "submitted" /\ UNCHANGED excused
  <2>1. Cardinality(AtSafe) <= Cardinality(Detached) + 1
    BY <1>1, SafeBound
  <2>2. Accounts'
    BY <1>1, <1>2, <1>6, <1>8, <1>10, <2>1 DEF Accounts, Unsubmitted
  <2>3. QED
    BY <1>1, <1>2, <1>4, <1>5, <1>6, <1>10, <2>2
    DEF PageInv, IntentPageTypeOK, ProposalFrames, RowStatuses
<1>11. CASE UNCHANGED row /\ Excuse
  <2>1. excused' \in 0 .. MaxProposed /\ (excused' = MaxProposed \/ excused' = excused + 1)
    BY <1>1, <1>11, Excused
  <2>2. Accounts'
    BY <1>1, <1>2, <1>6, <1>8, <1>9, <1>11, <2>1 DEF Accounts, Unsubmitted
  <2>3. QED
    BY <1>1, <1>2, <1>4, <1>5, <1>6, <1>11, <2>1, <2>2
    DEF PageInv, IntentPageTypeOK, ProposalFrames, RowStatuses
<1>12. QED
  BY <1>10, <1>11 DEF SafeAccepts

\* The button that sent a proposal, if it is still there, loads no more.
LEMMA DoneKeeps ==
    ASSUME PageInv, NEW p \in Proposals,
           ProposeFailed(p) \/ \E q \in Polls : OnProposed(p, q)
    PROVE  PageInv'
<1>1. /\ IntentPageTypeOK /\ OneMounted
      /\ proposing \in [Proposals -> {NotProposing} \union ProposalFrames]
      /\ detail \in DetailRecords
  BY DEF PageInv, IntentPageTypeOK, ProposalFrames, DetailRecords
<1>2. /\ proposing[p].pc \in {"accepted", "refused"} /\ Proposing(p)
      /\ detail' = [detail EXCEPT !.loading = @ /\ ~ proposing[p].mounted]
      /\ proposing' = [proposing EXCEPT ![p] = NotProposing]
      /\ UNCHANGED <<row, proposed, excused>>
  BY DEF ProposeFailed, OnProposed, ButtonDone, Proposing, NotProposing
<1>3. proposing[p] \in ProposalFrames
  BY <1>1, <1>2 DEF Proposing
<1>4. /\ proposing'[p] = NotProposing /\ \A o \in Proposals : o # p => proposing'[o] = proposing[o]
      /\ proposing' \in [Proposals -> {NotProposing} \union ProposalFrames]
  BY <1>1, <1>2
<1>5. proposing[p].mounted \in BOOLEAN /\ detail.loading \in BOOLEAN
  BY <1>1, <1>3 DEF ProposalFrames, DetailRecords
<1>6. PICK loading \in BOOLEAN : loading = (detail.loading /\ ~ proposing[p].mounted)
  BY <1>5
<1>7. /\ detail' = [detail EXCEPT !.loading = loading]
  BY <1>2, <1>6
<1>8. /\ detail' \in DetailRecords /\ detail'.loading = loading
      /\ detail'.error = detail.error /\ detail'.status = detail.status
  BY <1>1, <1>7 DEF DetailRecords
<1>9. OneMounted'
  BY <1>1, <1>2, <1>4, <1>6, <1>8 DEF OneMounted, Proposing, CanSign
<1>10. Detached' \subseteq Detached /\ AtSafe' \subseteq AtSafe
  BY <1>4 DEF Detached, AtSafe, NotProposing
<1>11. Accounts'
  BY <1>2, <1>10, AccountsKeep DEF Unsubmitted
<1>12. poll' \in [Polls -> [pc : {"idle", "asked", "failed"}]
                           \union [pc : {"answered"}, status : RowStatuses]]
  BY <1>1 DEF IntentPageTypeOK, ProposeFailed, OnProposed, PollGoto
<1>13. QED
  BY <1>1, <1>2, <1>4, <1>8, <1>9, <1>11, <1>12
  DEF PageInv, IntentPageTypeOK, ProposalFrames, DetailRecords

\* The rest of the API moves the intent on, never back.
LEMMA MovesKeep ==
    ASSUME PageInv, StatusMoves
    PROVE  PageInv'
<1>1. /\ UNCHANGED <<poll, detail, proposing, proposed, excused>>
      /\ row' \in RowStatuses /\ (Unsubmitted' => Unsubmitted)
  BY DEF StatusMoves, RowStatuses, Unsubmitted
<1>2. Accounts'
  BY <1>1, AccountsKeep DEF Detached, AtSafe
<1>3. QED
  BY <1>1, <1>2 DEF PageInv, IntentPageTypeOK, OneMounted, Proposing, CanSign

\* What the intent page holds, in every reachable state.
LEMMA PageAlways == IntentPageSpec => []PageInv
<1>1. IntentPageInit => PageInv
  <2> SUFFICES ASSUME IntentPageInit PROVE PageInv
    OBVIOUS
  <2>1. IntentPageTypeOK
    BY IntentPageAssumption
    DEF IntentPageInit, IntentPageTypeOK, RowStatuses, NoPoll, NotProposing
  <2>2. OneMounted
    BY DEF IntentPageInit, OneMounted, Proposing, CanSign
  <2>3. Detached = {}
    BY DEF IntentPageInit, Detached, NotProposing
  <2>4. Accounts
    BY <2>3, FS_EmptySet DEF IntentPageInit, Accounts, Unsubmitted
  <2>5. QED
    BY <2>1, <2>2, <2>4 DEF PageInv
<1>2. PageInv /\ [IntentPageNext]_intentPageVars => PageInv'
  <2> SUFFICES ASSUME PageInv, [IntentPageNext]_intentPageVars PROVE PageInv'
    OBVIOUS
  <2>1. CASE UNCHANGED intentPageVars
    BY <2>1
    DEF intentPageVars, PageInv, IntentPageTypeOK, OneMounted, Proposing, CanSign, Accounts,
        Unsubmitted, Detached, AtSafe
  <2>2. CASE IntentPageNext
    BY <2>2, PollSteps, HandleSignKeeps, ProposalSteps, AcceptKeeps, DoneKeeps, MovesKeep
    DEF IntentPageNext
  <2>3. QED
    BY <2>1, <2>2
<1> QED
  BY <1>1, <1>2, PTL DEF IntentPageSpec

\* A transfer is accepted by the Safe service once, and once more for every
\* excuse, whatever the order of clicks, polls, answers and status changes.
THEOREM ProposalsAccounted == IntentPageSpec => []ProposedAgainAccounted
<1>1. PageInv => ProposedAgainAccounted
  <2> SUFFICES ASSUME PageInv PROVE ProposedAgainAccounted
    OBVIOUS
  <2>1. {Cardinality(Detached), Cardinality(AtSafe)} \subseteq Nat
    BY FiniteCounts
  <2>2. {proposed, excused} \subseteq 0 .. MaxProposed /\ MaxProposed \in Nat
    BY IntentPageAssumption DEF PageInv, IntentPageTypeOK
  <2>3. QED
    BY <2>1, <2>2 DEF PageInv, Accounts, ProposedAgainAccounted
<1> QED
  BY <1>1, PageAlways, PTL

=============================================================================
