------------------------------- MODULE Browser -------------------------------
(***************************************************************************)
(* One browser with several tabs: the login of oidc.py, the session behind *)
(* every request of security.py, and the queue of offline drafts that      *)
(* static/offline.js keeps in localStorage and sends to POST /records.     *)
(*                                                                         *)
(* Cookies and localStorage are shared by the tabs.  JavaScript runs to    *)
(* its next await, so reading, filtering and writing the queue is one      *)
(* step; other tabs run while a request is under way.  Requests and        *)
(* answers can be lost, a request that was given up can still arrive, tabs *)
(* can be closed at any time.  Tokens, hashes, the CSRF header and the     *)
(* groups of a user are left out: a refusal over them is a failing         *)
(* callback.                                                               *)
(***************************************************************************)
EXTENDS Integers, FiniteSets

CONSTANTS
    Owners,       \* subjects of the identity service
    Logins,       \* rows that oidc_transactions may come to hold
    Codes,        \* authorization codes that the identity service may issue
    Handles,      \* rows that browser_sessions may come to hold
    Callbacks,    \* requests to /auth/callback that run at once
    Tabs,
    Drafts,       \* client ids of drafts, in the order of their creation
    QueueLimit,   \* 50 in the code
    None

ASSUME ConstantsAssumption ==
    /\ Drafts \subseteq Nat
    /\ QueueLimit \in Nat
    /\ None \notin Owners \cup Logins \cup Codes \cup Handles \cup Drafts

VARIABLES
    identities,   \* local_identities
    login,        \* oidc_transactions
    code,         \* the identity service: whom a code is for, whether it is spent
    session,      \* browser_sessions
    binding,      \* cookie of the last login
    handle,       \* cookie of the session
    callback,
    tab,          \* a page: its currentUser and what its synchronisation does
    post,         \* the POST /records of a tab
    late,         \* those that a tab has given up and that can still arrive
    author,       \* whose draft it is
    queue,        \* localStorage
    expired,      \* drafts older than maxAge
    record        \* ledger_records by the idempotency key of their request

signing == <<identities, login, code, session, binding, handle, callback>>
drafting == <<tab, post, late, author, queue, expired, record>>
vars == <<signing, drafting>>

Keys == Drafts \X Owners

Login == {"open", "consumed", "expired"}
Code == [login : Logins, owner : Owners, spent : BOOLEAN]
Session == [owner : Owners, login : Logins, live : BOOLEAN]
Callback == [step : {"sent", "checked", "exchanged", "answered"}, code : Codes,
             binding : Logins \cup {None}, handle : Handles \cup {None}]
Tab == [owner : Owners, step : {"loading", "idle", "asking"}, rows : SUBSET Drafts]
Request == [draft : Drafts, handle : Handles \cup {None}]
Post == [draft : Drafts, handle : Handles \cup {None}, state : {"sent", "done", "failed"}]

ASSUME NoneAssumption ==
    None \notin Login \cup Code \cup Session \cup Callback \cup Tab \cup Post

Queued(o) == {d \in queue : author[d] = o}

TypeOK ==
    /\ identities \subseteq Owners
    /\ login \in [Logins -> Login \cup {None}]
    /\ code \in [Codes -> Code \cup {None}]
    /\ session \in [Handles -> Session \cup {None}]
    /\ binding \in Logins \cup {None}
    /\ handle \in Handles \cup {None}
    /\ callback \in [Callbacks -> Callback \cup {None}]
    /\ tab \in [Tabs -> Tab \cup {None}]
    /\ post \in [Tabs -> Post \cup {None}]
    /\ late \subseteq Request
    /\ author \in [Drafts -> Owners \cup {None}]
    /\ queue \subseteq Drafts /\ expired \subseteq Drafts
    /\ \A o \in Owners : Cardinality(Queued(o)) <= QueueLimit
    /\ record \in [Keys -> {"none", "made", "deleted"}]

Init ==
    /\ identities = {}
    /\ login = [x \in Logins |-> None]
    /\ code = [c \in Codes |-> None]
    /\ session = [h \in Handles |-> None]
    /\ binding = None /\ handle = None
    /\ callback = [q \in Callbacks |-> None]
    /\ tab = [t \in Tabs |-> None]
    /\ post = [t \in Tabs |-> None] /\ late = {}
    /\ author = [d \in Drafts |-> None]
    /\ queue = {} /\ expired = {}
    /\ record = [k \in Keys |-> "none"]

-----------------------------------------------------------------------------
(* Signing in *)

\* login(): the cookie of an earlier login is overwritten.
StartLogin(x) ==
    /\ login[x] = None
    /\ login' = [login EXCEPT ![x] = "open"]
    /\ binding' = x
    /\ UNCHANGED <<identities, code, session, handle, callback, drafting>>

\* Ten minutes have passed.
ExpireLogin(x) ==
    /\ login[x] = "open"
    /\ login' = [login EXCEPT ![x] = "expired"]
    /\ UNCHANGED <<identities, code, session, binding, handle, callback, drafting>>

\* The identity service sends the browser back with a code; a user who goes
\* back there gets another one for the same login, possibly as someone else.
Authorize(c, x, o) ==
    /\ login[x] # None
    /\ code[c] = None
    /\ code' = [code EXCEPT ![c] = [login |-> x, owner |-> o, spent |-> FALSE]]
    /\ UNCHANGED <<identities, login, session, binding, handle, callback, drafting>>

\* The browser follows, or the user loads that address once more.
SendCallback(q, c) ==
    /\ callback[q] = None
    /\ code[c] # None
    /\ callback' = [callback EXCEPT ![q] =
          [step |-> "sent", code |-> c, binding |-> binding, handle |-> None]]
    /\ UNCHANGED <<identities, login, code, session, binding, handle, drafting>>

At(q, step) == callback[q] # None /\ callback[q].step = step
LoginOf(q) == code[callback[q].code].login
LoginFree(x) ==
    \A q \in Callbacks : (At(q, "checked") \/ At(q, "exchanged")) => LoginOf(q) # x

\* Mutant: the mark of an earlier callback is not looked at.
OpenOrConsumed(x) == login[x] \in {"open", "consumed"}

Presentable(x) == login[x] = "open"

\* callback() locks the transaction and checks state, age and browser.
CheckLogin(q) ==
    /\ At(q, "sent")
    /\ LoginFree(LoginOf(q))
    /\ callback' = [callback EXCEPT ![q] =
          IF Presentable(LoginOf(q)) /\ @.binding = LoginOf(q)
          THEN [@ EXCEPT !.step = "checked"] ELSE None]
    /\ UNCHANGED <<identities, login, code, session, binding, handle, drafting>>

Close(q) == callback' = [callback EXCEPT ![q] = None]
ConsumedBy(q) == login' = [login EXCEPT ![LoginOf(q)] = "consumed"]

\* The identity service takes a code once.
Exchange(q) ==
    /\ At(q, "checked")
    /\ ~code[callback[q].code].spent
    /\ code' = [code EXCEPT ![callback[q].code].spent = TRUE]
    /\ callback' = [callback EXCEPT ![q].step = "exchanged"]
    /\ UNCHANGED <<identities, login, session, binding, handle, drafting>>

\* The code is spent, or the answer of the identity service is lost: the mark
\* on the transaction is kept.
ExchangeFails(q) ==
    /\ At(q, "checked")
    /\ \/ code' = [code EXCEPT ![callback[q].code].spent = TRUE]
       \/ UNCHANGED code
    /\ ConsumedBy(q)
    /\ Close(q)
    /\ UNCHANGED <<identities, session, binding, handle, drafting>>

\* Discovery, the token, its nonce or the groups are refused, another callback
\* has inserted the identity, or the process ends: the mark is lost.
CallbackFails(q) ==
    /\ At(q, "checked") \/ At(q, "exchanged")
    /\ Close(q)
    /\ UNCHANGED <<identities, login, code, session, binding, handle, drafting>>

Finish(q, h) ==
    /\ At(q, "exchanged")
    /\ session[h] = None
    /\ LET c == code[callback[q].code] IN
          /\ identities' = identities \cup {c.owner}
          /\ session' = [session EXCEPT ![h] =
                [owner |-> c.owner, login |-> c.login, live |-> TRUE]]
    /\ ConsumedBy(q)
    /\ callback' = [callback EXCEPT ![q].step = "answered", ![q].handle = h]
    /\ UNCHANGED <<code, binding, handle, drafting>>

\* The answer sets the cookies, unless it is lost.
Answer(q) ==
    /\ At(q, "answered")
    /\ handle' = callback[q].handle
    /\ binding' = None
    /\ Close(q)
    /\ UNCHANGED <<identities, login, code, session, drafting>>

LoseAnswer(q) ==
    /\ At(q, "answered")
    /\ Close(q)
    /\ UNCHANGED <<identities, login, code, session, binding, handle, drafting>>

-----------------------------------------------------------------------------
(* Sessions *)

\* current_actor()
Acts(h) == h # None /\ session[h].live
ActsFor(h, o) == Acts(h) /\ session[h].owner = o

Logout ==
    /\ handle # None
    /\ session' = [session EXCEPT ![handle].live = FALSE]
    /\ handle' = None
    /\ UNCHANGED <<identities, login, code, binding, callback, drafting>>

\* The session's time is over, or the identity is disabled.
EndSession(h) ==
    /\ session[h] # None /\ session[h].live
    /\ session' = [session EXCEPT ![h].live = FALSE]
    /\ UNCHANGED <<identities, login, code, binding, handle, callback, drafting>>

-----------------------------------------------------------------------------
(* The queue of drafts *)

\* readQueue() of a page whose currentUser is o.
Readable(o) == Queued(o) \ expired

First(S) == CHOOSE d \in S : \A e \in S : d <= e
Unused == {d \in Drafts : author[d] = None}

\* boot(): the page asks who its user is.
OpenPage(t) ==
    /\ tab[t] = None /\ post[t] = None
    /\ Acts(handle)
    /\ tab' = [tab EXCEPT ![t] =
          [owner |-> session[handle].owner, step |-> "loading", rows |-> {}]]
    /\ UNCHANGED <<signing, post, late, author, queue, expired, record>>

\* initOffline(), when the other lists have come: the queue is written back as
\* it was read.
Load(t) ==
    /\ tab[t] # None /\ tab[t].step = "loading"
    /\ tab' = [tab EXCEPT ![t].step = "idle"]
    /\ queue' = Readable(tab[t].owner)
    /\ UNCHANGED <<signing, post, late, author, expired, record>>

\* Mutant: off by one.
HasRoomAtLimit(o) == Cardinality(Readable(o)) <= QueueLimit

HasRoom(o) == Cardinality(Readable(o)) < QueueLimit

\* A draft is queued; what the page may not read is left out.  The form is set
\* up just before initOffline().
QueueDraft(t) ==
    /\ tab[t] # None /\ tab[t].step # "loading"
    /\ Unused # {}
    /\ HasRoom(tab[t].owner)
    /\ LET d == First(Unused) IN
          /\ author' = [author EXCEPT ![d] = tab[t].owner]
          /\ queue' = Readable(tab[t].owner) \cup {d}
    /\ UNCHANGED <<signing, tab, post, late, expired, record>>

\* The user clears the queue.
Clear(t) ==
    /\ tab[t] # None /\ tab[t].step # "loading"
    /\ queue' = {}
    /\ UNCHANGED <<signing, tab, post, late, author, expired, record>>

\* A draft in the queue becomes older than a week.
Expire(d) ==
    /\ d \in queue
    /\ expired' = expired \cup {d}
    /\ UNCHANGED <<signing, tab, post, late, author, queue, record>>

\* The button, disabled while it works: /me says that the user is still the
\* same.  Another answer, or none, ends the synchronisation.
AskUser(t) ==
    /\ tab[t] # None /\ tab[t].step = "idle" /\ tab[t].rows = {}
    /\ ActsFor(handle, tab[t].owner)
    /\ tab' = [tab EXCEPT ![t].step = "asking"]
    /\ UNCHANGED <<signing, post, late, author, queue, expired, record>>

\* The answer has come, and the queue is read.
StartSync(t) ==
    /\ tab[t] # None /\ tab[t].step = "asking"
    /\ tab' = [tab EXCEPT ![t].step = "idle", ![t].rows = Readable(tab[t].owner)]
    /\ UNCHANGED <<signing, post, late, author, queue, expired, record>>

\* The next row goes to POST /records, with the cookie as it is now.
Send(t) ==
    /\ tab[t] # None /\ tab[t].rows # {}
    /\ post[t] = None
    /\ post' = [post EXCEPT ![t] =
          [draft |-> First(tab[t].rows), handle |-> handle, state |-> "sent"]]
    /\ UNCHANGED <<signing, tab, late, author, queue, expired, record>>

\* The draft's id is the idempotency key, and the ledger is the cookie's user's.
KeyOf(request) == <<request.draft, session[request.handle].owner>>

Made(k) == record[k] # "none"

\* create_record(): the draft is stored once; a repetition finds its record.
Stored(request) ==
    IF Acts(request.handle) /\ ~Made(KeyOf(request))
    THEN [record EXCEPT ![KeyOf(request)] = "made"] ELSE record

\* A request without a session, or whose record was deleted since, is refused.
Outcome(request) ==
    IF Acts(request.handle) /\ record[KeyOf(request)] # "deleted" THEN "done" ELSE "failed"

RequestOf(t) == [draft |-> post[t].draft, handle |-> post[t].handle]
Waits(t) == post[t] # None /\ post[t].state = "sent"

Serve(t) ==
    /\ Waits(t)
    /\ record' = Stored(RequestOf(t))
    /\ post' = [post EXCEPT ![t].state = Outcome(RequestOf(t))]
    /\ UNCHANGED <<signing, tab, late, author, queue, expired>>

\* What is given up before the ledger has served it may be on its way.
GivenUp(t) == IF Waits(t) THEN {RequestOf(t)} ELSE {}

\* The request, or its answer, is lost.
LoseRequest(t) ==
    /\ post[t] # None /\ post[t].state # "failed"
    /\ late' \in {late, late \cup GivenUp(t)}
    /\ post' = [post EXCEPT ![t].state = "failed"]
    /\ UNCHANGED <<signing, tab, author, queue, expired, record>>

ServeLate(request) ==
    /\ record' = Stored(request)
    /\ late' = late \ {request}
    /\ UNCHANGED <<signing, tab, post, author, queue, expired>>

CloseTab(t) ==
    /\ tab[t] # None
    /\ late' \in {late, late \cup GivenUp(t)}
    /\ tab' = [tab EXCEPT ![t] = None]
    /\ post' = [post EXCEPT ![t] = None]
    /\ UNCHANGED <<signing, author, queue, expired, record>>

\* Mutant: the rows read before the requests are written back.
KeptOfListed(t) == tab[t].rows \ {post[t].draft}

Kept(t) == Readable(tab[t].owner) \ {post[t].draft}

\* The answer has come: the draft is taken out of the queue as it is now.
Synced(t) ==
    /\ tab[t] # None
    /\ post[t] # None /\ post[t].state = "done"
    /\ queue' = Kept(t)
    /\ tab' = [tab EXCEPT ![t].rows = @ \ {post[t].draft}]
    /\ post' = [post EXCEPT ![t] = None]
    /\ UNCHANGED <<signing, late, author, expired, record>>

\* A refused or lost request ends the synchronisation.
SyncFails(t) ==
    /\ tab[t] # None
    /\ \/ post[t] # None /\ post[t].state = "failed"
       \/ tab[t].step = "asking"
    /\ tab' = [tab EXCEPT ![t].step = "idle", ![t].rows = {}]
    /\ post' = [post EXCEPT ![t] = None]
    /\ UNCHANGED <<signing, late, author, queue, expired, record>>

\* The user deletes the record of a draft.
DeleteRecord(k) ==
    /\ record[k] = "made"
    /\ record' = [record EXCEPT ![k] = "deleted"]
    /\ UNCHANGED <<signing, tab, post, late, author, queue, expired>>

-----------------------------------------------------------------------------
(* Next *)

SignIn ==
    \/ \E x \in Logins : StartLogin(x) \/ ExpireLogin(x)
    \/ \E c \in Codes, x \in Logins, o \in Owners : Authorize(c, x, o)
    \/ \E q \in Callbacks :
          \/ \E c \in Codes : SendCallback(q, c)
          \/ \E h \in Handles : Finish(q, h)
          \/ CheckLogin(q) \/ Exchange(q) \/ ExchangeFails(q) \/ CallbackFails(q)
          \/ Answer(q) \/ LoseAnswer(q)
    \/ Logout \/ \E h \in Handles : EndSession(h)

Draft(t) ==
    \/ OpenPage(t) \/ Load(t) \/ CloseTab(t) \/ QueueDraft(t) \/ Clear(t)
    \/ AskUser(t) \/ StartSync(t) \/ Send(t) \/ Serve(t) \/ LoseRequest(t)
    \/ Synced(t) \/ SyncFails(t)

Next ==
    \/ SignIn
    \/ \E t \in Tabs : Draft(t)
    \/ \E request \in late : ServeLate(request)
    \/ \E d \in Drafts : Expire(d)
    \/ \E k \in Keys : DeleteRecord(k)

Spec == Init /\ [][Next]_vars

-----------------------------------------------------------------------------
(* Properties *)

\* A login gives one session at most, although callback() forgets on some of
\* its failures that the login was used, the answers of the identity service
\* and of the ledger can be lost, and a user can come back with another code.
OneSessionPerLogin ==
    \A g, h \in Handles :
        (session[g] # None /\ session[h] # None /\ session[g].login = session[h].login)
            => g = h

\* The page that has sent a draft of its own user takes it out of the queue: the
\* user whom the cookie named at that time has the record.
TakenOut(t, d) ==
    /\ Synced(t)
    /\ post[t].draft = d /\ author[d] = tab[t].owner
    /\ Made(KeyOf(post[t]))

\* A page writes the queue as its user may read it, without the drafts of others.
WrittenByOther(t, d) ==
    (Load(t) \/ QueueDraft(t) \/ Synced(t)) /\ author[d] # tab[t].owner

\* A queued draft leaves the browser with the step that stores it, when it is a
\* week old, when the user clears the queue, or when the page of another user
\* writes it.  No page loses what another page of the same user has queued while
\* it waited for an answer.
QueuedDraftSurvives ==
    [][\A d \in (queue \ queue') \ expired :
          \E t \in Tabs : TakenOut(t, d) \/ WrittenByOther(t, d) \/ Clear(t)]_vars

-----------------------------------------------------------------------------
(* The inductive invariant *)

\* A handle is given out with its session, which is ended but never removed.
HandlesHaveSessions ==
    /\ handle # None => session[handle] # None
    /\ \A q \in Callbacks : At(q, "answered") =>
          callback[q].handle # None /\ session[callback[q].handle] # None
    /\ \A t \in Tabs : post[t] # None /\ post[t].handle # None =>
          session[post[t].handle] # None
    /\ \A request \in late : request.handle # None => session[request.handle] # None

CallbacksHaveCodes ==
    \A q \in Callbacks : callback[q] # None => code[callback[q].code] # None

\* A callback that has locked its login has found it open, and is the only one.
InHand == {q \in Callbacks : At(q, "checked") \/ At(q, "exchanged")}
LoginsInHand ==
    \A q \in InHand :
        /\ login[LoginOf(q)] \in {"open", "expired"}
        /\ \A r \in InHand : LoginOf(r) = LoginOf(q) => r = q

\* The mark may be lost on a failure, not when a session is made.
SessionsAreConsumed ==
    \A h \in Handles : session[h] # None => login[session[h].login] = "consumed"

\* A page sends drafts of its own user.
PagesSendTheirOwn ==
    \A t \in Tabs : tab[t] # None =>
        /\ \A d \in tab[t].rows : author[d] = tab[t].owner
        /\ post[t] # None => author[post[t].draft] = tab[t].owner

\* A tab believes that a draft is in a ledger only when it is.
DoneIsMade ==
    \A t \in Tabs : post[t] # None /\ post[t].state = "done" =>
        post[t].handle # None /\ Made(KeyOf(post[t]))

IInv ==
    /\ TypeOK
    /\ IsFiniteSet(queue)
    /\ HandlesHaveSessions
    /\ CallbacksHaveCodes
    /\ LoginsInHand
    /\ SessionsAreConsumed
    /\ PagesSendTheirOwn
    /\ DoneIsMade
    /\ OneSessionPerLogin

-----------------------------------------------------------------------------
(* What does not hold *)

\* What the page says next to the queue: only the user who has queued a draft
\* can send it, so that it becomes a record of no one else.
DraftsStayWithTheirUser ==
    \A k \in Keys : Made(k) => author[k[1]] = k[2]
=============================================================================
