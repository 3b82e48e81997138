---------------------------- MODULE BrowserProofs ----------------------------
(* What holds of Browser for every value of its constants. *)
EXTENDS Browser, FiniteSetTheorems, WellFoundedInduction, TLAPS

-----------------------------------------------------------------------------
(* The initial states *)

\* Nobody has signed in, and the queue is empty.
LEMMA InitIInv == Init => IInv
<1> SUFFICES ASSUME Init PROVE IInv
  OBVIOUS
<1>1. \A o \in Owners : Cardinality(Queued(o)) <= QueueLimit
  <2>1. \A o \in Owners : Queued(o) = {}
    BY DEF Init, Queued
  <2>2. Cardinality({}) <= QueueLimit
    BY FS_EmptySet, ConstantsAssumption
  <2>. QED
    BY <2>1, <2>2
<1>2. TypeOK
  BY <1>1 DEF Init, TypeOK
<1>3. InHand = {} /\ HandlesHaveSessions /\ CallbacksHaveCodes
  BY DEF Init, InHand, At, HandlesHaveSessions, CallbacksHaveCodes
<1>4. /\ LoginsInHand /\ SessionsAreConsumed /\ OneSessionPerLogin
      /\ PagesSendTheirOwn /\ DoneIsMade
  BY <1>3 DEF Init, LoginsInHand, SessionsAreConsumed, OneSessionPerLogin, PagesSendTheirOwn,
     DoneIsMade
<1>5. IsFiniteSet(queue)
  BY FS_EmptySet DEF Init
<1>. QED
  BY <1>2, <1>3, <1>4, <1>5 DEF IInv

-----------------------------------------------------------------------------
(* What the type invariant gives *)

\* The fields of a callback, and its login.
LEMMA CallbackFacts ==
  ASSUME IInv, NEW q \in Callbacks, callback[q] # None
  PROVE  /\ callback[q] \in Callback
         /\ callback[q].code \in Codes
         /\ code[callback[q].code] \in Code
         /\ LoginOf(q) \in Logins
         /\ LoginOf(q) = code[callback[q].code].login
<1>1. callback[q] \in Callback /\ callback[q].code \in Codes
  BY DEF IInv, TypeOK, Callback
<1>2. code[callback[q].code] \in Code
  BY <1>1 DEF IInv, TypeOK, CallbacksHaveCodes
<1>. QED
  BY <1>1, <1>2 DEF Code, LoginOf

\* The session of a request that names one, and its key.
LEMMA RequestFacts ==
  ASSUME IInv, NEW request, request.draft \in Drafts, request.handle \in Handles \cup {None},
         request.handle # None => session[request.handle] # None
  PROVE  request.handle # None =>
            /\ request.handle \in Handles /\ session[request.handle] \in Session
            /\ session[request.handle].owner \in Owners /\ KeyOf(request) \in Keys
<1> SUFFICES ASSUME request.handle # None
             PROVE  /\ request.handle \in Handles /\ session[request.handle] \in Session
                    /\ session[request.handle].owner \in Owners /\ KeyOf(request) \in Keys
  OBVIOUS
<1>1. request.handle \in Handles /\ session[request.handle] \in Session
  BY DEF IInv, TypeOK
<1>2. session[request.handle].owner \in Owners
  BY <1>1 DEF Session
<1>. QED
  BY <1>1, <1>2 DEF KeyOf, Keys

\* What tabs do does not depend on who signs in, as long as a session stays that
\* of its user.
LEMMA DraftingStays ==
  ASSUME IInv, UNCHANGED drafting,
         \A h \in Handles : session[h] # None => session'[h].owner = session[h].owner
  PROVE  /\ tab' \in [Tabs -> Tab \cup {None}]
         /\ post' \in [Tabs -> Post \cup {None}]
         /\ late' \subseteq Request
         /\ author' \in [Drafts -> Owners \cup {None}]
         /\ queue' \subseteq Drafts /\ expired' \subseteq Drafts
         /\ \A o \in Owners : Cardinality(Queued(o)') <= QueueLimit
         /\ record' \in [Keys -> {"none", "made", "deleted"}]
         /\ IsFiniteSet(queue)' /\ PagesSendTheirOwn' /\ DoneIsMade'
<1>1. UNCHANGED <<tab, post, late, author, queue, expired, record>>
  BY DEF drafting
<1>2. \A o \in Owners : Queued(o)' = Queued(o)
  BY <1>1 DEF Queued
<1>3. PagesSendTheirOwn'
  BY <1>1 DEF IInv, PagesSendTheirOwn
<1>4. DoneIsMade'
  <2> SUFFICES ASSUME NEW t \in Tabs, post[t] # None, post[t].state = "done"
               PROVE  post[t].handle # None /\ record[KeyOf(post[t])'] # "none"
    BY <1>1 DEF DoneIsMade, Made, KeyOf
  <2>1. post[t].handle # None /\ record[KeyOf(post[t])] # "none"
    BY DEF IInv, DoneIsMade, Made
  <2>2. post[t].handle \in Handles /\ session[post[t].handle] # None
    BY <2>1 DEF IInv, TypeOK, Post, HandlesHaveSessions
  <2>3. KeyOf(post[t])' = KeyOf(post[t])
    BY <1>1, <2>2 DEF KeyOf
  <2>. QED
    BY <2>1, <2>3
<1>. QED
  BY <1>1, <1>2, <1>3, <1>4 DEF IInv, TypeOK

\* Nor does signing in depend on them, but for the handle of a request.
LEMMA SigningStays ==
  ASSUME IInv, UNCHANGED signing,
         \A t \in Tabs : post'[t] # None /\ post'[t].handle # None =>
             session[post'[t].handle] # None,
         \A request \in late' : request.handle # None => session[request.handle] # None
  PROVE  /\ identities' \subseteq Owners
         /\ login' \in [Logins -> Login \cup {None}]
         /\ code' \in [Codes -> Code \cup {None}]
         /\ session' \in [Handles -> Session \cup {None}]
         /\ binding' \in Logins \cup {None}
         /\ handle' \in Handles \cup {None}
         /\ callback' \in [Callbacks -> Callback \cup {None}]
         /\ HandlesHaveSessions' /\ CallbacksHaveCodes' /\ LoginsInHand'
         /\ SessionsAreConsumed' /\ OneSessionPerLogin'
<1>1. UNCHANGED <<identities, login, code, session, binding, handle, callback>>
  BY DEF signing
<1>2. InHand' = InHand /\ \A q \in Callbacks : LoginOf(q)' = LoginOf(q)
  BY <1>1 DEF InHand, At, LoginOf
<1>3. LoginsInHand'
  <2>1. InHand \subseteq Callbacks
    BY DEF InHand
  <2>. QED
    BY <1>1, <1>2, <2>1 DEF IInv, LoginsInHand
<1>4. HandlesHaveSessions' /\ CallbacksHaveCodes'
  BY <1>1 DEF IInv, HandlesHaveSessions, CallbacksHaveCodes, At
<1>5. SessionsAreConsumed' /\ OneSessionPerLogin'
  BY <1>1 DEF IInv, SessionsAreConsumed, OneSessionPerLogin
<1>. QED
  BY <1>1, <1>3, <1>4, <1>5 DEF IInv, TypeOK

\* Sessions are never removed, nor given to another login; new ones only come
\* with Finish.
LEMMA SessionsStay ==
  ASSUME IInv, UNCHANGED <<post, late>>,
         \A x \in Logins : login[x] = "consumed" => login'[x] = "consumed",
         handle' # None => handle' \in Handles /\ session[handle'] # None,
         \A h \in Handles : \/ session'[h] = session[h]
                            \/ /\ session[h] # None /\ session'[h] # None
                               /\ session'[h].login = session[h].login,
         \A q \in Callbacks : At(q, "answered")' => callback'[q] = callback[q]
  PROVE  HandlesHaveSessions' /\ SessionsAreConsumed' /\ OneSessionPerLogin'
<1>1. HandlesHaveSessions'
  <2>1. \A h : h # None /\ h \in Handles /\ session[h] # None => session'[h] # None
    OBVIOUS
  <2>2. handle' # None => session'[handle'] # None
    BY <2>1
  <2>3. ASSUME NEW q \in Callbacks, At(q, "answered")'
        PROVE  callback'[q].handle # None /\ session'[callback'[q].handle] # None
    <3>1. At(q, "answered") /\ callback'[q] = callback[q] /\ callback[q].handle \in Handles \cup {None}
      BY <2>3 DEF At, IInv, TypeOK, Callback
    <3>. QED
      BY <2>1, <3>1 DEF IInv, HandlesHaveSessions
  <2>4. ASSUME NEW t \in Tabs, post'[t] # None, post'[t].handle # None
        PROVE  session'[post'[t].handle] # None
    <3>1. post[t].handle \in Handles /\ session[post[t].handle] # None
      BY <2>4 DEF IInv, TypeOK, Post, HandlesHaveSessions
    <3>. QED
      BY <2>1, <2>4, <3>1
  <2>5. ASSUME NEW request \in late', request.handle # None
        PROVE  session'[request.handle] # None
    <3>1. request.handle \in Handles /\ session[request.handle] # None
      BY <2>5 DEF IInv, TypeOK, Request, HandlesHaveSessions
    <3>. QED
      BY <2>1, <2>5, <3>1
  <2>. QED
    BY <2>2, <2>3, <2>4, <2>5 DEF HandlesHaveSessions
<1>2. \A h \in Handles : session[h] # None => session[h].login \in Logins
  BY DEF IInv, TypeOK, Session
<1>3. SessionsAreConsumed' /\ OneSessionPerLogin'
  BY <1>2 DEF IInv, SessionsAreConsumed, OneSessionPerLogin
<1>. QED
  BY <1>1, <1>3

-----------------------------------------------------------------------------
(* Signing in *)

\* A callback of a login that is in no other hand, or that ends.
LEMMA CallbackIInv ==
  ASSUME IInv, UNCHANGED <<identities, login, session, drafting>>,
         code' \in [Codes -> Code \cup {None}],
         \A c \in Codes : code[c] # None => code'[c] # None /\ code'[c].login = code[c].login,
         NEW q \in Callbacks, NEW new \in Callback \cup {None},
         callback' = [callback EXCEPT ![q] = new],
         new # None => code[new.code] # None,
         new # None /\ new.step = "answered" => FALSE,
         new # None /\ new.step \in {"checked", "exchanged"} =>
             /\ login[code[new.code].login] \in {"open", "expired"}
             /\ \A r \in InHand \ {q} : LoginOf(r) # code[new.code].login,
         binding' \in Logins \cup {None},
         handle' # None => handle' \in Handles /\ session[handle'] # None
  PROVE  IInv'
<1>1. /\ callback' \in [Callbacks -> Callback \cup {None}]
      /\ callback'[q] = new
      /\ \A r \in Callbacks \ {q} : callback'[r] = callback[r]
  BY DEF IInv, TypeOK
<1>2. UNCHANGED <<identities, login, session, post, late>>
  BY DEF drafting
<1>3. TypeOK'
  BY <1>1, DraftingStays DEF IInv, TypeOK
<1>4. CallbacksHaveCodes'
  <2>1. \A r \in Callbacks : callback'[r] # None => code[callback'[r].code] # None
    BY <1>1 DEF IInv, CallbacksHaveCodes
  <2>2. \A r \in Callbacks : callback'[r] # None => callback'[r].code \in Codes
    BY <1>1 DEF Callback
  <2>. QED
    BY <2>1, <2>2 DEF CallbacksHaveCodes
<1>5. /\ \A r \in InHand \ {q} : LoginOf(r)' = LoginOf(r)
      /\ InHand' \ {q} = InHand \ {q}
      /\ q \in InHand' => /\ new # None /\ new.step \in {"checked", "exchanged"}
                         /\ LoginOf(q)' = code[new.code].login
  <2>1. \A r \in InHand \ {q} : LoginOf(r)' = LoginOf(r)
    <3> SUFFICES ASSUME NEW r \in InHand \ {q} PROVE LoginOf(r)' = LoginOf(r)
      OBVIOUS
    <3>1. r \in Callbacks /\ callback[r] # None
      BY DEF InHand, At
    <3>2. callback[r].code \in Codes /\ code[callback[r].code] # None
      BY <3>1, CallbackFacts DEF IInv, CallbacksHaveCodes
    <3>. QED
      BY <1>1, <3>1, <3>2 DEF LoginOf
  <2>2. InHand' \ {q} = InHand \ {q}
    BY <1>1 DEF InHand, At
  <2>3. q \in InHand' => new # None /\ new.step \in {"checked", "exchanged"}
    BY <1>1 DEF InHand, At
  <2>4. new # None => LoginOf(q)' = code[new.code].login
    <3>1. new # None => new.code \in Codes
      BY DEF Callback
    <3>. QED
      BY <1>1, <3>1 DEF LoginOf
  <2>. QED
    BY <2>1, <2>2, <2>3, <2>4
<1>6. LoginsInHand'
  <2>1. \A r \in InHand \ {q} : login[LoginOf(r)] \in {"open", "expired"}
    BY DEF IInv, LoginsInHand
  <2>. QED
    BY <1>2, <1>5, <2>1 DEF IInv, LoginsInHand
<1>7. HandlesHaveSessions' /\ SessionsAreConsumed' /\ OneSessionPerLogin'
  BY <1>1, <1>2, SessionsStay DEF At
<1>. QED
  BY <1>3, <1>4, <1>6, <1>7, DraftingStays DEF IInv

\* The steps of a callback, but for those that mark its login.
LEMMA CallbackStepsIInv ==
  ASSUME IInv, NEW q \in Callbacks,
         \/ \E c \in Codes : SendCallback(q, c)
         \/ CheckLogin(q) \/ Exchange(q) \/ CallbackFails(q) \/ Answer(q) \/ LoseAnswer(q)
  PROVE  IInv'
<1>1. /\ handle # None => handle \in Handles /\ session[handle] # None
      /\ binding \in Logins \cup {None}
      /\ code \in [Codes -> Code \cup {None}]
      /\ callback \in [Callbacks -> Callback \cup {None}]
  BY DEF IInv, TypeOK, HandlesHaveSessions
<1>2. ASSUME NEW c \in Codes, SendCallback(q, c) PROVE IInv'
  <2> DEFINE new == [step |-> "sent", code |-> c, binding |-> binding, handle |-> None]
  <2>1. new \in Callback
    BY <1>1 DEF Callback
  <2>2. /\ UNCHANGED <<identities, login, code, session, binding, handle, drafting>>
        /\ callback' = [callback EXCEPT ![q] = new] /\ code[new.code] # None /\ new.step = "sent"
    BY <1>2 DEF SendCallback
  <2> HIDE DEF new
  <2>. QED
    BY <1>1, <2>1, <2>2, CallbackIInv
<1>3. CASE CheckLogin(q)
  <2> DEFINE old == callback[q]
             new == [old EXCEPT !.step = "checked"]
             good == Presentable(LoginOf(q)) /\ old.binding = LoginOf(q)
  <2>1. /\ UNCHANGED <<identities, login, code, session, binding, handle, drafting>>
        /\ callback' = [callback EXCEPT ![q] = IF good THEN new ELSE None]
        /\ old # None /\ LoginFree(LoginOf(q))
    BY <1>1, <1>3 DEF CheckLogin, At
  <2>2. new \in Callback /\ new.code = old.code /\ new.step = "checked"
    BY <1>1, <2>1 DEF Callback
  <2>3. code[old.code] # None
    BY <2>1 DEF IInv, CallbacksHaveCodes
  <2>4. good => login[code[old.code].login] = "open"
    BY DEF Presentable, LoginOf
  <2>5. \A r \in InHand : LoginOf(r) # code[old.code].login
    BY <2>1 DEF LoginFree, InHand, LoginOf
  <2> DEFINE next == IF good THEN new ELSE None
  <2> HIDE DEF good, new, old
  <2>6. /\ next \in Callback \cup {None}
        /\ next # None => good /\ next.code = old.code /\ next.step = "checked"
    BY <2>2
  <2> HIDE DEF next
  <2>. QED
    BY <1>1, <2>1, <2>3, <2>4, <2>5, <2>6, CallbackIInv DEF next
<1>4. CASE Exchange(q)
  <2> DEFINE old == callback[q]
             new == [old EXCEPT !.step = "exchanged"]
  <2>1. /\ UNCHANGED <<identities, login, session, binding, handle, drafting>>
        /\ callback' = [callback EXCEPT ![q] = new]
        /\ code' = [code EXCEPT ![old.code].spent = TRUE]
        /\ old # None /\ q \in InHand
    BY <1>1, <1>4 DEF Exchange, At, InHand
  <2>2. new \in Callback /\ new.code = old.code /\ new.step = "exchanged" /\ old.code \in Codes
    BY <1>1, <2>1 DEF Callback
  <2>3. code[old.code] # None /\ code[old.code] \in Code
    BY <2>1, CallbackFacts DEF IInv, CallbacksHaveCodes
  <2>4. /\ code' \in [Codes -> Code \cup {None}]
        /\ \A c \in Codes : code[c] # None => code'[c] # None /\ code'[c].login = code[c].login
    <3> DEFINE next == [code[old.code] EXCEPT !.spent = TRUE]
    <3>1. next \in Code /\ next.login = code[old.code].login /\ next # None
      BY <2>3, NoneAssumption DEF Code
    <3>2. code' = [code EXCEPT ![old.code] = next]
      BY <2>1, <2>3 DEF Code
    <3> HIDE DEF next, old
    <3>. QED
      BY <1>1, <2>2, <3>1, <3>2
  <2>5. /\ login[code[old.code].login] \in {"open", "expired"}
        /\ \A r \in InHand \ {q} : LoginOf(r) # code[old.code].login
    BY <2>1 DEF IInv, LoginsInHand, LoginOf
  <2> HIDE DEF new, old
  <2>. QED
    BY <1>1, <2>1, <2>2, <2>3, <2>4, <2>5, CallbackIInv
<1>5. CASE CallbackFails(q) \/ Answer(q) \/ LoseAnswer(q)
  <2>1. /\ UNCHANGED <<identities, login, code, session, drafting>>
        /\ callback' = [callback EXCEPT ![q] = None]
        /\ binding' \in Logins \cup {None}
    BY <1>1, <1>5 DEF CallbackFails, Answer, LoseAnswer, Close
  <2>2. handle' # None => handle' \in Handles /\ session[handle'] # None
    <3>1. CASE Answer(q)
      <4>1. callback[q].handle # None /\ session[callback[q].handle] # None
            /\ handle' = callback[q].handle /\ callback[q] \in Callback
        BY <1>1, <3>1 DEF Answer, At, IInv, HandlesHaveSessions
      <4>. QED
        BY <4>1 DEF Callback
    <3>2. CASE CallbackFails(q) \/ LoseAnswer(q)
      BY <1>1, <3>2 DEF CallbackFails, LoseAnswer
    <3>. QED
      BY <1>5, <3>1, <3>2
  <2>. QED
    BY <1>1, <2>1, <2>2, CallbackIInv
<1>. QED
  BY <1>2, <1>3, <1>4, <1>5

\* Callbacks only end, logins that are in hand stay as they are, and what is
\* consumed is so for ever.
LEMMA QuietIInv ==
  ASSUME IInv, UNCHANGED <<identities, drafting>>,
         code' \in [Codes -> Code \cup {None}],
         \A c \in Codes : code[c] # None => code'[c] # None /\ code'[c].login = code[c].login,
         callback' \in [Callbacks -> Callback \cup {None}],
         \A r \in Callbacks : callback'[r] \in {callback[r], None},
         login' \in [Logins -> Login \cup {None}],
         \A x \in Logins : login[x] = "consumed" => login'[x] = "consumed",
         \A r \in InHand : callback'[r] # None => login'[LoginOf(r)] \in {"open", "expired"},
         session' \in [Handles -> Session \cup {None}],
         \A h \in Handles : \/ session'[h] = session[h]
                            \/ /\ session[h] # None /\ session'[h] # None
                               /\ session'[h].login = session[h].login
                               /\ session'[h].owner = session[h].owner,
         binding' \in Logins \cup {None},
         handle' # None => handle' \in Handles /\ session[handle'] # None
  PROVE  IInv'
<1>1. TypeOK'
  BY DraftingStays DEF IInv, TypeOK
<1>2. CallbacksHaveCodes'
  <2>1. \A r \in Callbacks : callback'[r] # None =>
           /\ callback'[r] = callback[r] /\ callback[r] # None
           /\ callback[r].code \in Codes /\ code[callback[r].code] # None
    BY CallbackFacts DEF IInv, CallbacksHaveCodes
  <2>. QED
    BY <2>1 DEF CallbacksHaveCodes
<1>3. \A r \in InHand' : /\ r \in InHand /\ callback'[r] # None
                        /\ LoginOf(r)' = LoginOf(r)
  <2> SUFFICES ASSUME NEW r \in InHand'
               PROVE  r \in InHand /\ callback'[r] # None /\ LoginOf(r)' = LoginOf(r)
    OBVIOUS
  <2>1. r \in Callbacks /\ callback'[r] # None /\ callback'[r] = callback[r] /\ r \in InHand
    BY DEF InHand, At
  <2>2. callback[r].code \in Codes /\ code[callback[r].code] # None
    BY <2>1, CallbackFacts DEF IInv, CallbacksHaveCodes
  <2>. QED
    BY <2>1, <2>2 DEF LoginOf
<1>4. LoginsInHand'
  BY <1>3 DEF IInv, LoginsInHand
<1>5. UNCHANGED <<post, late>>
  BY DEF drafting
<1>6. HandlesHaveSessions' /\ SessionsAreConsumed' /\ OneSessionPerLogin'
  <2>1. \A r \in Callbacks : At(r, "answered")' => callback'[r] = callback[r]
    BY DEF At
  <2>. QED
    BY <1>5, <2>1, SessionsStay
<1>. QED
  BY <1>1, <1>2, <1>4, <1>6, DraftingStays DEF IInv

\* Logins that come and expire, and codes.
LEMMA LoginIInv ==
  ASSUME IInv,
         \/ \E x \in Logins : StartLogin(x) \/ ExpireLogin(x)
         \/ \E c \in Codes, x \in Logins, o \in Owners : Authorize(c, x, o)
  PROVE  IInv'
<1>1. /\ handle # None => handle \in Handles /\ session[handle] # None
      /\ binding \in Logins \cup {None}
      /\ login \in [Logins -> Login \cup {None}]
      /\ code \in [Codes -> Code \cup {None}]
      /\ callback \in [Callbacks -> Callback \cup {None}]
      /\ session \in [Handles -> Session \cup {None}]
  BY DEF IInv, TypeOK, HandlesHaveSessions
<1>2. ASSUME NEW x \in Logins, StartLogin(x) \/ ExpireLogin(x) PROVE IInv'
  <2>1. /\ UNCHANGED <<identities, code, session, handle, callback, drafting>>
        /\ \E v \in {"open", "expired"} : login' = [login EXCEPT ![x] = v]
        /\ binding' \in Logins \cup {None}
        /\ login[x] # "consumed"
    BY <1>1, <1>2, NoneAssumption DEF StartLogin, ExpireLogin, Login
  <2>2. \A r \in InHand : LoginOf(r) \in Logins /\ login[LoginOf(r)] \in {"open", "expired"}
    BY CallbackFacts DEF InHand, At, IInv, LoginsInHand
  <2>3. /\ login' \in [Logins -> Login \cup {None}]
        /\ \A y \in Logins : y # x => login'[y] = login[y]
    BY <1>1, <2>1 DEF Login
  <2>4. \A r \in InHand : login'[LoginOf(r)] \in {"open", "expired"}
    BY <1>1, <2>1, <2>2, <2>3
  <2>. QED
    BY <1>1, <2>1, <2>3, <2>4, QuietIInv
<1>3. ASSUME NEW c \in Codes, NEW x \in Logins, NEW o \in Owners, Authorize(c, x, o) PROVE IInv'
  <2>1. /\ UNCHANGED <<identities, login, session, binding, handle, callback, drafting>>
        /\ code[c] = None
        /\ code' = [code EXCEPT ![c] = [login |-> x, owner |-> o, spent |-> FALSE]]
    BY <1>3 DEF Authorize
  <2>2. /\ code' \in [Codes -> Code \cup {None}]
        /\ \A d \in Codes : code[d] # None => code'[d] # None /\ code'[d].login = code[d].login
    BY <1>1, <2>1 DEF Code
  <2>3. \A r \in InHand : login[LoginOf(r)] \in {"open", "expired"}
    BY DEF IInv, LoginsInHand
  <2>. QED
    BY <1>1, <2>1, <2>2, <2>3, QuietIInv
<1>. QED
  BY <1>2, <1>3

\* The mark on a login whose code is spent or whose answer is lost.
LEMMA ExchangeFailsIInv ==
  ASSUME IInv, NEW q \in Callbacks, ExchangeFails(q)
  PROVE  IInv'
<1> DEFINE x == LoginOf(q)
<1>1. /\ handle # None => handle \in Handles /\ session[handle] # None
      /\ binding \in Logins \cup {None}
      /\ login \in [Logins -> Login \cup {None}]
      /\ code \in [Codes -> Code \cup {None}]
      /\ callback \in [Callbacks -> Callback \cup {None}]
      /\ session \in [Handles -> Session \cup {None}]
  BY DEF IInv, TypeOK, HandlesHaveSessions
<1>2. /\ UNCHANGED <<identities, session, binding, handle, drafting>>
      /\ login' = [login EXCEPT ![x] = "consumed"]
      /\ callback' = [callback EXCEPT ![q] = None]
      /\ q \in InHand /\ callback[q] # None
  BY DEF ExchangeFails, ConsumedBy, Close, At, InHand
<1>3. x \in Logins /\ callback[q].code \in Codes /\ code[callback[q].code] \in Code
  BY <1>2, CallbackFacts
<1>4. /\ code' \in [Codes -> Code \cup {None}]
      /\ \A c \in Codes : code[c] # None => code'[c] # None /\ code'[c].login = code[c].login
  <2>1. CASE UNCHANGED code
    BY <1>1, <2>1
  <2>2. CASE code' = [code EXCEPT ![callback[q].code].spent = TRUE]
    BY <1>1, <1>3, <2>2, NoneAssumption DEF Code
  <2>. QED
    BY <2>1, <2>2 DEF ExchangeFails
<1>5. \A r \in InHand \ {q} : LoginOf(r) # x
  BY <1>2 DEF IInv, LoginsInHand
<1>6. \A r \in InHand : callback'[r] # None => login'[LoginOf(r)] \in {"open", "expired"}
  <2>1. \A r \in InHand : /\ LoginOf(r) \in Logins /\ r \in Callbacks
                          /\ login[LoginOf(r)] \in {"open", "expired"}
    BY CallbackFacts DEF InHand, At, IInv, LoginsInHand
  <2>. QED
    BY <1>1, <1>2, <1>5, <2>1
<1> HIDE DEF x
<1>7. /\ login' \in [Logins -> Login \cup {None}]
      /\ \A y \in Logins : login[y] = "consumed" => login'[y] = "consumed"
      /\ callback' \in [Callbacks -> Callback \cup {None}]
      /\ \A r \in Callbacks : callback'[r] \in {callback[r], None}
  BY <1>1, <1>2, <1>3 DEF Login
<1>. QED
  BY <1>1, <1>2, <1>4, <1>6, <1>7, QuietIInv

\* The end of a session.
LEMMA EndSessionIInv ==
  ASSUME IInv, Logout \/ \E h \in Handles : EndSession(h)
  PROVE  IInv'
<1>1. /\ handle # None => handle \in Handles /\ session[handle] # None
      /\ binding \in Logins \cup {None}
      /\ login \in [Logins -> Login \cup {None}]
      /\ code \in [Codes -> Code \cup {None}]
      /\ callback \in [Callbacks -> Callback \cup {None}]
      /\ session \in [Handles -> Session \cup {None}]
  BY DEF IInv, TypeOK, HandlesHaveSessions
<1>2. PICK h \in Handles : /\ session[h] # None
                           /\ session' = [session EXCEPT ![h].live = FALSE]
                           /\ handle' \in {handle, None}
                           /\ UNCHANGED <<identities, login, code, binding, callback, drafting>>
  <2>1. CASE Logout
    BY <1>1, <2>1 DEF Logout
  <2>2. CASE \E h \in Handles : EndSession(h)
    BY <2>2 DEF EndSession
  <2>. QED
    BY <2>1, <2>2
<1>3. session[h] \in Session
  BY <1>1, <1>2
<1>4. /\ session' \in [Handles -> Session \cup {None}]
      /\ session'[h] # None /\ session'[h].login = session[h].login
      /\ session'[h].owner = session[h].owner
      /\ \A g \in Handles \ {h} : session'[g] = session[g]
  <2> DEFINE next == [session[h] EXCEPT !.live = FALSE]
  <2>1. /\ next \in Session /\ next # None
        /\ next.login = session[h].login /\ next.owner = session[h].owner
    BY <1>3, NoneAssumption DEF Session
  <2>2. session' = [session EXCEPT ![h] = next]
    BY <1>2, <1>3 DEF Session
  <2> HIDE DEF next
  <2>. QED
    BY <1>1, <2>1, <2>2
<1>5. \A r \in Callbacks : callback'[r] \in {callback[r], None}
  BY <1>2
<1>6. \A r \in InHand : login[LoginOf(r)] \in {"open", "expired"}
  BY DEF IInv, LoginsInHand
<1>. QED
  BY <1>1, <1>2, <1>4, <1>5, <1>6, QuietIInv

\* A session for a login that was open, and so has none.
LEMMA FinishIInv ==
  ASSUME IInv, NEW q \in Callbacks, NEW h \in Handles, Finish(q, h)
  PROVE  IInv'
<1> DEFINE x == LoginOf(q)
           c == code[callback[q].code]
           new == [owner |-> c.owner, login |-> c.login, live |-> TRUE]
           next == [callback[q] EXCEPT !.step = "answered", !.handle = h]
<1>1. /\ login \in [Logins -> Login \cup {None}]
      /\ callback \in [Callbacks -> Callback \cup {None}]
      /\ session \in [Handles -> Session \cup {None}]
  BY DEF IInv, TypeOK
<1>2. /\ UNCHANGED <<code, binding, handle, drafting>>
      /\ identities' = identities \cup {c.owner}
      /\ session[h] = None
      /\ session' = [session EXCEPT ![h] = new]
      /\ login' = [login EXCEPT ![x] = "consumed"]
      /\ callback[q] # None /\ q \in InHand
  BY DEF Finish, ConsumedBy, At, InHand
<1>3. x \in Logins /\ c \in Code /\ c.login = x /\ callback[q] \in Callback
  BY <1>2, CallbackFacts
<1>4. new \in Session /\ new.login = x /\ new # None /\ c.owner \in Owners
  <2> HIDE DEF c, x
  <2>1. c.owner \in Owners /\ c.login \in Logins
    BY <1>3 DEF Code
  <2>2. new \in Session
    BY <2>1 DEF Session
  <2>. QED
    BY <1>3, <2>1, <2>2, NoneAssumption
<1>5. next \in Callback /\ next.step = "answered" /\ next.handle = h /\ next.code = callback[q].code
  BY <1>3 DEF Callback
<1>6. callback' = [callback EXCEPT ![q] = next]
  <2>1. \A r : [callback EXCEPT ![r].step = "answered", ![r].handle = h]
                = [callback EXCEPT ![r] = [callback[r] EXCEPT !.step = "answered", !.handle = h]]
    BY <1>1, <1>3 DEF Callback
  <2>. QED
    BY <2>1 DEF Finish
<1>7. /\ login[x] \in {"open", "expired"}
      /\ \A r \in InHand \ {q} : LoginOf(r) # x
  BY <1>2 DEF IInv, LoginsInHand
<1>8. \A g \in Handles : session[g] # None =>
          session[g].login \in Logins /\ session[g].login # x /\ g # h
  BY <1>1, <1>2, <1>7 DEF IInv, SessionsAreConsumed, Session
<1>9. h # None
  BY ConstantsAssumption
<1> HIDE DEF x, c, new, next
<1>10. /\ session' \in [Handles -> Session \cup {None}]
       /\ session'[h] = new
       /\ \A g \in Handles \ {h} : session'[g] = session[g]
  BY <1>1, <1>2, <1>4
<1>11. /\ callback' \in [Callbacks -> Callback \cup {None}]
       /\ callback'[q] = next
       /\ \A r \in Callbacks \ {q} : callback'[r] = callback[r]
  BY <1>1, <1>5, <1>6
<1>12. /\ login' \in [Logins -> Login \cup {None}]
       /\ login'[x] = "consumed"
       /\ \A y \in Logins \ {x} : login'[y] = login[y]
  BY <1>1, <1>2, <1>3 DEF Login
<1>13. \A g \in Handles : session[g] # None => session'[g].owner = session[g].owner
  BY <1>2, <1>10
<1>14. TypeOK'
  BY <1>2, <1>4, <1>10, <1>11, <1>12, <1>13, DraftingStays DEF IInv, TypeOK
<1>15. HandlesHaveSessions'
  <2>1. \A g \in Handles : session[g] # None => session'[g] # None
    BY <1>4, <1>10
  <2>2. handle' # None => session'[handle'] # None
    BY <1>2, <2>1 DEF IInv, TypeOK, HandlesHaveSessions
  <2>3. ASSUME NEW r \in Callbacks, At(r, "answered")'
        PROVE  callback'[r].handle # None /\ session'[callback'[r].handle] # None
    <3>1. CASE r = q
      BY <1>4, <1>5, <1>9, <1>10, <1>11, <3>1
    <3>2. CASE r # q
      <4>1. At(r, "answered") /\ callback'[r] = callback[r] /\ callback[r] \in Callback
        BY <1>1, <1>11, <2>3, <3>2 DEF At
      <4>2. callback[r].handle \in Handles /\ session[callback[r].handle] # None
        BY <4>1 DEF IInv, HandlesHaveSessions, Callback
      <4>. QED
        BY <2>1, <4>1, <4>2, ConstantsAssumption
    <3>. QED
      BY <3>1, <3>2
  <2>4. ASSUME NEW t \in Tabs, post'[t] # None, post'[t].handle # None
        PROVE  session'[post'[t].handle] # None
    <3>1. post'[t] = post[t] /\ post[t] \in Post
      BY <1>2, <2>4 DEF drafting, IInv, TypeOK
    <3>. QED
      BY <2>1, <2>4, <3>1 DEF IInv, HandlesHaveSessions, Post
  <2>5. ASSUME NEW request \in late', request.handle # None
        PROVE  session'[request.handle] # None
    <3>1. request \in late /\ request \in Request
      BY <1>2 DEF drafting, IInv, TypeOK
    <3>. QED
      BY <2>1, <2>5, <3>1 DEF IInv, HandlesHaveSessions, Request
  <2>. QED
    BY <2>2, <2>3, <2>4, <2>5 DEF HandlesHaveSessions
<1>16. CallbacksHaveCodes'
  BY <1>2, <1>3, <1>5, <1>11, NoneAssumption DEF IInv, CallbacksHaveCodes, c
<1>17. \A r \in InHand' : r \in InHand \ {q} /\ LoginOf(r)' = LoginOf(r)
  BY <1>2, <1>5, <1>11 DEF InHand, At, LoginOf
<1>18. LoginsInHand'
  <2>1. \A r \in InHand : login[LoginOf(r)] \in {"open", "expired"} /\ LoginOf(r) \in Logins
    BY CallbackFacts DEF IInv, LoginsInHand, InHand, At
  <2>. QED
    BY <1>7, <1>12, <1>17, <2>1 DEF IInv, LoginsInHand
<1>19. SessionsAreConsumed' /\ OneSessionPerLogin'
  BY <1>4, <1>8, <1>10, <1>12 DEF IInv, SessionsAreConsumed, OneSessionPerLogin
<1>. QED
  BY <1>2, <1>13, <1>14, <1>15, <1>16, <1>18, <1>19, DraftingStays DEF IInv

-----------------------------------------------------------------------------
(* Drafts *)

\* The first of some drafts is one of them.
LEMMA FirstIsOne ==
  ASSUME NEW S, S \subseteq Drafts, S # {}
  PROVE  First(S) \in S
<1> DEFINE Before == {ss \in Nat \X Nat : ss[1] < ss[2]}
<1>1. S \subseteq Nat
  BY ConstantsAssumption
<1>2. IsWellFoundedOn(Before, Nat)
  BY NatLessThanWellFounded DEF OpToRel
<1> HIDE DEF Before
<1>3. PICK d \in S : \A e \in S : <<e, d>> \notin Before
  BY <1>1, <1>2, WFMin
<1>4. ASSUME NEW e \in S PROVE d <= e
  <2>1. d \in Nat /\ e \in Nat /\ <<e, d>> \in Nat \X Nat
    BY <1>1
  <2>2. ~(<<e, d>>[1] < <<e, d>>[2])
    BY <1>3, <2>1 DEF Before
  <2>. QED
    BY <2>1, <2>2
<1>. QED
  BY <1>4 DEF First

\* A queue that loses drafts keeps within its limit.
LEMMA QueueShrinks ==
  ASSUME IInv, queue' \subseteq queue, UNCHANGED author
  PROVE  /\ queue' \subseteq Drafts
         /\ IsFiniteSet(queue)'
         /\ \A o \in Owners : Cardinality(Queued(o)') <= QueueLimit
<1>1. queue \subseteq Drafts /\ IsFiniteSet(queue)
  BY DEF IInv, TypeOK
<1>2. IsFiniteSet(queue')
  BY <1>1, FS_Subset
<1>3. ASSUME NEW o \in Owners PROVE Cardinality(Queued(o)') <= QueueLimit
  <2>1. Queued(o) \subseteq queue /\ Queued(o)' \subseteq Queued(o)
    BY DEF Queued
  <2>2. IsFiniteSet(Queued(o))
    BY <1>1, <2>1, FS_Subset
  <2>3. Cardinality(Queued(o)') <= Cardinality(Queued(o))
    BY <2>1, <2>2, FS_Subset
  <2>4. Cardinality(Queued(o)) \in Nat /\ Cardinality(Queued(o)') \in Nat
    BY <2>1, <2>2, FS_Subset, FS_CardinalityType
  <2>5. Cardinality(Queued(o)) <= QueueLimit
    BY DEF IInv, TypeOK
  <2>. QED
    BY <2>3, <2>4, <2>5, ConstantsAssumption
<1>. QED
  BY <1>1, <1>2, <1>3

\* A draft is added where there is room, and what is of others is left out.
LEMMA QueueGrows ==
  ASSUME IInv, NEW o \in Owners, NEW d \in Drafts, author[d] = None, HasRoom(o),
         author' = [author EXCEPT ![d] = o], queue' = Readable(o) \cup {d}
  PROVE  /\ queue' \subseteq Drafts
         /\ IsFiniteSet(queue)'
         /\ \A p \in Owners : Cardinality(Queued(p)') <= QueueLimit
<1>1. /\ queue \subseteq Drafts /\ IsFiniteSet(queue)
      /\ author \in [Drafts -> Owners \cup {None}]
  BY DEF IInv, TypeOK
<1>2. Readable(o) \subseteq queue
  BY DEF Readable, Queued
<1>3. IsFiniteSet(Readable(o)) /\ Cardinality(Readable(o)) \in Nat
  BY <1>1, <1>2, FS_Subset, FS_CardinalityType
<1>4. /\ IsFiniteSet(queue')
      /\ Cardinality(queue') = IF d \in Readable(o) THEN Cardinality(Readable(o))
                              ELSE Cardinality(Readable(o)) + 1
  BY <1>3, FS_AddElement
<1>5. Cardinality(queue') <= QueueLimit
  BY <1>3, <1>4, ConstantsAssumption DEF HasRoom
<1>6. ASSUME NEW p \in Owners PROVE Cardinality(Queued(p)') <= QueueLimit
  <2>1. CASE p = o
    <3>1. Queued(p)' \subseteq queue'
      BY DEF Queued
    <3>2. /\ Cardinality(Queued(p)') <= Cardinality(queue')
          /\ Cardinality(Queued(p)') \in Nat /\ Cardinality(queue') \in Nat
      BY <1>4, <3>1, FS_Subset, FS_CardinalityType
    <3>. QED
      BY <1>5, <3>2, ConstantsAssumption
  <2>2. CASE p # o
    <3>1. \A e \in queue' : author'[e] = o
      BY <1>1 DEF Readable, Queued
    <3>2. Queued(p)' = {}
      BY <2>2, <3>1 DEF Queued
    <3>. QED
      BY <3>2, FS_EmptySet, ConstantsAssumption
  <2>. QED
    BY <2>1, <2>2
<1>. QED
  BY <1>1, <1>2, <1>4, <1>6

\* A page and its request, after the step: they are of one user, the request's
\* session is there, and what it believes done is in the ledger.
PageFits(page, p) ==
    /\ page # None => /\ \A d \in page.rows : author[d] = page.owner
                      /\ p # None => author[p.draft] = page.owner
    /\ p # None => /\ p.handle # None => session[p.handle] # None
                   /\ p.state = "done" => p.handle # None /\ record'[KeyOf(p)] # "none"

\* What a tab does to its page, its request and the queue, and what the ledger
\* does.
LEMMA DraftIInv ==
  ASSUME IInv, UNCHANGED signing,
         tab' \in [Tabs -> Tab \cup {None}],
         post' \in [Tabs -> Post \cup {None}],
         late' \subseteq Request,
         \A request \in late' : request.handle # None => session[request.handle] # None,
         author' \in [Drafts -> Owners \cup {None}],
         \A d \in Drafts : author[d] # None => author'[d] = author[d],
         queue' \subseteq Drafts, expired' \subseteq Drafts,
         IsFiniteSet(queue)',
         \A o \in Owners : Cardinality(Queued(o)') <= QueueLimit,
         record' \in [Keys -> {"none", "made", "deleted"}],
         \A t \in Tabs : PageFits(tab'[t], post'[t])
  PROVE  IInv'
<1>1. /\ \A t \in Tabs : post'[t] # None /\ post'[t].handle # None =>
             session[post'[t].handle] # None
  BY DEF PageFits
<1>2. TypeOK'
  BY <1>1, SigningStays DEF IInv, TypeOK
<1>3. PagesSendTheirOwn'
  <2> SUFFICES ASSUME NEW t \in Tabs, tab'[t] # None
               PROVE  /\ \A d \in tab'[t].rows : author'[d] = tab'[t].owner
                      /\ post'[t] # None => author'[post'[t].draft] = tab'[t].owner
    BY DEF PagesSendTheirOwn
  <2>1. tab'[t].owner # None /\ tab'[t].rows \subseteq Drafts
    BY ConstantsAssumption DEF Tab
  <2>2. post'[t] # None => post'[t].draft \in Drafts
    BY DEF Post
  <2>. QED
    BY <2>1, <2>2 DEF PageFits
<1>4. DoneIsMade'
  <2>1. \A p : KeyOf(p)' = <<p.draft, session[p.handle].owner>>
    BY DEF KeyOf, signing
  <2>. QED
    BY <2>1 DEF PageFits, DoneIsMade, Made, KeyOf
<1>. QED
  BY <1>1, <1>2, <1>3, <1>4, SigningStays DEF IInv

\* What is known of a tab, its request and its session.
LEMMA TabFacts ==
  ASSUME IInv, NEW t \in Tabs
  PROVE  /\ tab[t] # None => tab[t] \in Tab /\ tab[t].owner \in Owners /\ tab[t].rows \subseteq Drafts
         /\ post[t] # None =>
               /\ post[t] \in Post /\ RequestOf(t) \in Request /\ post[t].draft \in Drafts
               /\ post[t].handle \in Handles \cup {None}
               /\ post[t].handle # None => session[post[t].handle] # None
         /\ Acts(handle) => handle \in Handles /\ session[handle].owner \in Owners
         /\ \A o : Readable(o) \subseteq queue
<1>1. tab[t] # None => tab[t] \in Tab /\ tab[t].owner \in Owners /\ tab[t].rows \subseteq Drafts
  BY DEF IInv, TypeOK, Tab
<1>2. post[t] # None =>
         /\ post[t] \in Post /\ RequestOf(t) \in Request /\ post[t].draft \in Drafts
         /\ post[t].handle \in Handles \cup {None}
         /\ post[t].handle # None => session[post[t].handle] # None
  BY DEF IInv, TypeOK, Post, Request, RequestOf, HandlesHaveSessions
<1>3. \A h \in Handles : session[h] # None => session[h].owner \in Owners
  BY DEF IInv, TypeOK, Session
<1>4. Acts(handle) => handle \in Handles /\ session[handle].owner \in Owners
  BY <1>3 DEF Acts, IInv, TypeOK, HandlesHaveSessions
<1>5. \A o : Readable(o) \subseteq queue
  BY DEF Readable, Queued
<1>. QED
  BY <1>1, <1>2, <1>4, <1>5

\* The pages fit before a step, and while the ledger forgets no record.
LEMMA PagesFit ==
  ASSUME IInv, \A k \in Keys : Made(k) => record'[k] # "none", NEW t \in Tabs
  PROVE  PageFits(tab[t], post[t])
<1>1. tab[t] # None => /\ \A d \in tab[t].rows : author[d] = tab[t].owner
                       /\ post[t] # None => author[post[t].draft] = tab[t].owner
  BY DEF IInv, PagesSendTheirOwn
<1>2. post[t] # None /\ post[t].state = "done" =>
         post[t].handle # None /\ record'[KeyOf(post[t])] # "none"
  BY TabFacts, RequestFacts DEF IInv, DoneIsMade
<1>. QED
  BY <1>1, <1>2, TabFacts DEF PageFits

\* One tab goes on; what it gives up is late.
LEMMA OneTabIInv ==
  ASSUME IInv, UNCHANGED <<signing, expired, record>>,
         NEW t \in Tabs, NEW page \in Tab \cup {None}, NEW p \in Post \cup {None},
         tab' = [tab EXCEPT ![t] = page], post' = [post EXCEPT ![t] = p],
         late' \in {late, late \cup GivenUp(t)},
         author' \in [Drafts -> Owners \cup {None}],
         \A d \in Drafts : author[d] # None => author'[d] = author[d],
         queue' \subseteq Drafts, IsFiniteSet(queue)',
         \A o \in Owners : Cardinality(Queued(o)') <= QueueLimit,
         PageFits(page, p)
  PROVE  IInv'
<1>1. /\ tab' \in [Tabs -> Tab \cup {None}]
      /\ post' \in [Tabs -> Post \cup {None}]
      /\ \A u \in Tabs : \/ tab'[u] = page /\ post'[u] = p
                         \/ tab'[u] = tab[u] /\ post'[u] = post[u]
  BY DEF IInv, TypeOK
<1>2. \A u \in Tabs : PageFits(tab'[u], post'[u])
  BY <1>1, PagesFit DEF Made
<1>3. \A request \in GivenUp(t) :
         /\ request \in Request
         /\ request.handle # None => session[request.handle] # None
  BY TabFacts DEF GivenUp, Waits, RequestOf
<1>4. /\ late' \subseteq Request
      /\ \A request \in late' : request.handle # None => session[request.handle] # None
  BY <1>3 DEF IInv, TypeOK, HandlesHaveSessions
<1>. QED
  BY <1>1, <1>2, <1>4, DraftIInv DEF IInv, TypeOK

\* The steps of a tab, but for the answer of the ledger.
LEMMA TabStepsIInv ==
  ASSUME IInv, NEW t \in Tabs,
         \/ OpenPage(t) \/ Load(t) \/ CloseTab(t) \/ QueueDraft(t) \/ Clear(t) \/ AskUser(t)
         \/ StartSync(t) \/ Send(t) \/ LoseRequest(t) \/ Synced(t) \/ SyncFails(t)
  PROVE  IInv'
<1>1. /\ tab \in [Tabs -> Tab \cup {None}]
      /\ post \in [Tabs -> Post \cup {None}]
      /\ author \in [Drafts -> Owners \cup {None}]
      /\ \A d \in Drafts : author[d] # None => author[d] \in Owners
      /\ handle \in Handles \cup {None}
      /\ handle # None => session[handle] # None
      /\ tab[t] \in Tab \cup {None} /\ post[t] \in Post \cup {None}
      /\ tab = [tab EXCEPT ![t] = tab[t]] /\ post = [post EXCEPT ![t] = post[t]]
  BY DEF IInv, TypeOK, HandlesHaveSessions
<1>2. queue' \subseteq queue /\ UNCHANGED author =>
         /\ queue' \subseteq Drafts /\ IsFiniteSet(queue)'
         /\ \A o \in Owners : Cardinality(Queued(o)') <= QueueLimit
  BY QueueShrinks
<1>3. UNCHANGED record => PageFits(tab[t], post[t])
  BY PagesFit DEF Made
<1>4. CASE OpenPage(t)
  <2> DEFINE page == [owner |-> session[handle].owner, step |-> "loading", rows |-> {}]
  <2>1. page \in Tab
    BY <1>4, TabFacts DEF OpenPage, Tab
  <2>2. PageFits(page, None)
    BY DEF PageFits
  <2>3. tab' = [tab EXCEPT ![t] = page] /\ post[t] = None
    BY <1>4 DEF OpenPage
  <2> HIDE DEF page
  <2>. QED
    BY <1>1, <1>2, <1>4, <2>1, <2>2, <2>3, OneTabIInv DEF OpenPage
<1>5. CASE Load(t)
  <2> DEFINE page == [tab[t] EXCEPT !.step = "idle"]
  <2>1. tab[t] # None /\ tab[t] \in Tab /\ queue' \subseteq queue
    BY <1>5, TabFacts DEF Load
  <2>2. page \in Tab /\ page.owner = tab[t].owner /\ page.rows = tab[t].rows /\ page # None
    BY <2>1, NoneAssumption DEF Tab
  <2>3. tab' = [tab EXCEPT ![t] = page]
    BY <1>1, <1>5, <2>1 DEF Load, Tab
  <2> HIDE DEF page
  <2>4. PageFits(page, post[t])
    BY <1>3, <1>5, <2>1, <2>2 DEF Load, PageFits
  <2>. QED
    BY <1>1, <1>2, <1>5, <2>1, <2>2, <2>3, <2>4, OneTabIInv DEF Load
<1>6. CASE CloseTab(t)
  <2>1. PageFits(None, None)
    BY DEF PageFits
  <2>. QED
    BY <1>1, <1>2, <1>6, <2>1, OneTabIInv DEF CloseTab
<1>7. CASE QueueDraft(t)
  <2> DEFINE d == First(Unused)
  <2>1. Unused \subseteq Drafts /\ Unused # {}
    BY <1>7 DEF QueueDraft, Unused
  <2>2. d \in Unused
    BY <2>1, FirstIsOne
  <2>3. d \in Drafts /\ author[d] = None
    BY <2>2 DEF Unused
  <2> HIDE DEF d
  <2>4. /\ tab[t].owner \in Owners /\ HasRoom(tab[t].owner)
        /\ author' = [author EXCEPT ![d] = tab[t].owner]
        /\ queue' = Readable(tab[t].owner) \cup {d}
        /\ UNCHANGED <<signing, tab, post, late, expired, record>>
    BY <1>7, TabFacts DEF QueueDraft, d
  <2>5. /\ queue' \subseteq Drafts /\ IsFiniteSet(queue)'
        /\ \A o \in Owners : Cardinality(Queued(o)') <= QueueLimit
    BY <2>3, <2>4, QueueGrows
  <2>6. /\ author' \in [Drafts -> Owners \cup {None}]
        /\ \A e \in Drafts : author[e] # None => author'[e] = author[e]
    BY <1>1, <2>3, <2>4
  <2>. QED
    BY <1>1, <1>3, <2>4, <2>5, <2>6, OneTabIInv
<1>8. CASE Clear(t)
  <2>1. queue' \subseteq queue /\ UNCHANGED <<signing, tab, post, late, author, expired, record>>
    BY <1>8 DEF Clear
  <2>. QED
    BY <1>1, <1>2, <1>3, <2>1, OneTabIInv
<1>9. CASE AskUser(t)
  <2> DEFINE page == [tab[t] EXCEPT !.step = "asking"]
  <2>1. tab[t] # None /\ tab[t] \in Tab
    BY <1>9, TabFacts DEF AskUser
  <2>2. page \in Tab /\ page.owner = tab[t].owner /\ page.rows = tab[t].rows /\ page # None
    BY <2>1, NoneAssumption DEF Tab
  <2>3. tab' = [tab EXCEPT ![t] = page]
    BY <1>1, <1>9, <2>1 DEF AskUser, Tab
  <2> HIDE DEF page
  <2>4. PageFits(page, post[t])
    BY <1>3, <1>9, <2>1, <2>2 DEF AskUser, PageFits
  <2>. QED
    BY <1>1, <1>2, <1>9, <2>2, <2>3, <2>4, OneTabIInv DEF AskUser
<1>10. CASE StartSync(t)
  <2> DEFINE rows == Readable(tab[t].owner)
             page == [tab[t] EXCEPT !.step = "idle", !.rows = rows]
  <2>1. tab[t] # None /\ tab[t] \in Tab
    BY <1>10, TabFacts DEF StartSync
  <2>2. rows \subseteq Drafts /\ \A d \in rows : author[d] = tab[t].owner
    BY DEF Readable, Queued, IInv, TypeOK
  <2>3. tab' = [tab EXCEPT ![t].step = "idle", ![t].rows = rows]
    BY <1>10 DEF StartSync
  <2> HIDE DEF rows
  <2>4. page \in Tab /\ page.owner = tab[t].owner /\ page.rows = rows
    BY <2>1, <2>2 DEF Tab
  <2>5. tab' = [tab EXCEPT ![t] = page]
    BY <1>1, <2>1, <2>3 DEF Tab
  <2> HIDE DEF page
  <2>6. PageFits(page, post[t])
    BY <1>3, <1>10, <2>1, <2>2, <2>4 DEF StartSync, PageFits
  <2>. QED
    BY <1>1, <1>2, <1>10, <2>4, <2>5, <2>6, OneTabIInv DEF StartSync
<1>11. CASE Send(t)
  <2> DEFINE new == [draft |-> First(tab[t].rows), handle |-> handle, state |-> "sent"]
  <2>1. /\ tab[t] # None /\ First(tab[t].rows) \in tab[t].rows
        /\ tab[t].rows \subseteq Drafts
    BY <1>11, FirstIsOne, TabFacts DEF Send
  <2>2. new \in Post /\ new.draft \in tab[t].rows /\ new.handle = handle /\ new.state = "sent"
    BY <1>1, <2>1 DEF Post
  <2>3. /\ post' = [post EXCEPT ![t] = new]
        /\ UNCHANGED <<signing, tab, late, author, queue, expired, record>>
    BY <1>11 DEF Send
  <2> HIDE DEF new
  <2>4. PageFits(tab[t], new)
    BY <1>1, <1>3, <2>1, <2>2, <2>3 DEF PageFits
  <2>. QED
    BY <1>1, <1>2, <2>2, <2>3, <2>4, OneTabIInv
<1>12. CASE LoseRequest(t)
  <2> DEFINE new == [post[t] EXCEPT !.state = "failed"]
  <2>1. post[t] # None /\ post[t] \in Post
    BY <1>1, <1>12 DEF LoseRequest
  <2>2. /\ new \in Post /\ new.draft = post[t].draft /\ new.handle = post[t].handle
        /\ new.state = "failed"
    BY <2>1 DEF Post
  <2>3. /\ post' = [post EXCEPT ![t] = new]
        /\ UNCHANGED <<signing, tab, author, queue, expired, record>>
        /\ late' \in {late, late \cup GivenUp(t)}
    BY <1>1, <1>12, <2>1 DEF LoseRequest, Post
  <2> HIDE DEF new
  <2>4. PageFits(tab[t], new)
    BY <1>3, <2>1, <2>2, <2>3 DEF PageFits
  <2>. QED
    BY <1>1, <1>2, <2>2, <2>3, <2>4, OneTabIInv
<1>13. CASE Synced(t)
  <2> DEFINE rows == tab[t].rows \ {post[t].draft}
             page == [tab[t] EXCEPT !.rows = rows]
  <2>1. tab[t] # None /\ tab[t] \in Tab /\ queue' \subseteq queue
    BY <1>13, TabFacts DEF Synced, Kept
  <2>2. rows \subseteq Drafts /\ rows \subseteq tab[t].rows
    BY <2>1 DEF Tab
  <2>3. page \in Tab /\ page.owner = tab[t].owner /\ page.rows = rows
    <3> HIDE DEF rows
    <3>. QED
      BY <2>1, <2>2 DEF Tab
  <2>4. tab' = [tab EXCEPT ![t] = page]
    BY <1>1, <1>13, <2>1 DEF Synced, Tab
  <2> HIDE DEF page, rows
  <2>5. PageFits(page, None)
    BY <1>3, <1>13, <2>1, <2>2, <2>3 DEF Synced, PageFits
  <2>. QED
    BY <1>1, <1>2, <1>13, <2>1, <2>3, <2>4, <2>5, OneTabIInv DEF Synced
<1>14. CASE SyncFails(t)
  <2> DEFINE page == [tab[t] EXCEPT !.step = "idle", !.rows = {}]
  <2>1. tab[t] # None /\ tab[t] \in Tab
    BY <1>14, TabFacts DEF SyncFails
  <2>2. page \in Tab /\ page.rows = {}
    BY <2>1 DEF Tab
  <2>3. tab' = [tab EXCEPT ![t] = page]
    BY <1>1, <1>14, <2>1 DEF SyncFails, Tab
  <2> HIDE DEF page
  <2>4. PageFits(page, None)
    BY <2>2 DEF PageFits
  <2>. QED
    BY <1>1, <1>2, <1>14, <2>2, <2>3, <2>4, OneTabIInv DEF SyncFails
<1>. QED
  BY <1>4, <1>5, <1>6, <1>7, <1>8, <1>9, <1>10, <1>11, <1>12, <1>13, <1>14

\* What the ledger does with a request: a record that is there stays, and the
\* answer "done" is true.
LEMMA LedgerFacts ==
  ASSUME IInv, NEW request, request.draft \in Drafts, request.handle \in Handles \cup {None},
         request.handle # None => session[request.handle] # None,
         record' = Stored(request)
  PROVE  /\ record' \in [Keys -> {"none", "made", "deleted"}]
         /\ \A k \in Keys : Made(k) => record'[k] # "none"
         /\ Outcome(request) \in {"done", "failed"}
         /\ Outcome(request) = "done" =>
               request.handle # None /\ record'[KeyOf(request)] # "none"
<1>1. Acts(request.handle) => request.handle # None /\ KeyOf(request) \in Keys
  BY RequestFacts DEF Acts
<1>2. record \in [Keys -> {"none", "made", "deleted"}]
  BY DEF IInv, TypeOK
<1>. QED
  BY <1>1, <1>2 DEF Stored, Outcome, Made

\* The ledger serves a request, in time or late.
LEMMA ServeIInv ==
  ASSUME IInv,
         (\E t \in Tabs : Serve(t)) \/ (\E request \in late : ServeLate(request))
  PROVE  IInv'
<1>1. /\ tab \in [Tabs -> Tab \cup {None}]
      /\ post \in [Tabs -> Post \cup {None}]
      /\ queue' \subseteq queue /\ UNCHANGED author =>
            /\ queue' \subseteq Drafts /\ IsFiniteSet(queue)'
            /\ \A o \in Owners : Cardinality(Queued(o)') <= QueueLimit
  BY QueueShrinks DEF IInv, TypeOK
<1>2. \A request \in late :
         /\ request.draft \in Drafts /\ request.handle \in Handles \cup {None}
         /\ request.handle # None => session[request.handle] # None
  BY DEF IInv, TypeOK, Request, HandlesHaveSessions
<1>3. ASSUME NEW t \in Tabs, Serve(t) PROVE IInv'
  <2> DEFINE request == RequestOf(t)
             new == [post[t] EXCEPT !.state = Outcome(request)]
  <2>1. /\ post[t] # None /\ post[t] \in Post
        /\ request.draft = post[t].draft /\ request.handle = post[t].handle
        /\ request.draft \in Drafts /\ request.handle \in Handles \cup {None}
        /\ request.handle # None => session[request.handle] # None
    BY <1>3, TabFacts DEF Serve, Waits, RequestOf
  <2>2. /\ record' = Stored(request)
        /\ UNCHANGED <<signing, tab, late, author, queue, expired>>
        /\ post' = [post EXCEPT ![t].state = Outcome(request)]
    BY <1>3 DEF Serve
  <2>3. KeyOf(post[t]) = KeyOf(request)
    BY <2>1 DEF KeyOf
  <2> HIDE DEF request
  <2>4. /\ record' \in [Keys -> {"none", "made", "deleted"}]
        /\ \A k \in Keys : Made(k) => record'[k] # "none"
        /\ Outcome(request) \in {"done", "failed"}
        /\ Outcome(request) = "done" =>
              request.handle # None /\ record'[KeyOf(request)] # "none"
    BY <2>1, <2>2, LedgerFacts
  <2>5. /\ new \in Post /\ new.draft = post[t].draft /\ new.handle = post[t].handle
        /\ new.state = Outcome(request)
    BY <2>1, <2>4 DEF Post
  <2>6. post' = [post EXCEPT ![t] = new]
    BY <1>1, <2>1, <2>2 DEF Post
  <2>7. KeyOf(new) = KeyOf(request)
    BY <2>3, <2>5 DEF KeyOf
  <2> HIDE DEF new
  <2>8. /\ post' \in [Tabs -> Post \cup {None}]
        /\ \A u \in Tabs : post'[u] = IF u = t THEN new ELSE post[u]
    BY <1>1, <2>5, <2>6
  <2>9. PageFits(tab[t], new)
    <3>1. PageFits(tab[t], post[t])
      BY <2>4, PagesFit
    <3>. QED
      BY <2>1, <2>4, <2>5, <2>7, <3>1 DEF PageFits
  <2>10. \A u \in Tabs : PageFits(tab'[u], post'[u])
    BY <2>2, <2>4, <2>8, <2>9, PagesFit
  <2>. QED
    BY <1>1, <1>2, <2>2, <2>4, <2>8, <2>10, DraftIInv DEF IInv, TypeOK
<1>4. ASSUME NEW request \in late, ServeLate(request) PROVE IInv'
  <2>1. /\ record' = Stored(request) /\ late' \subseteq late
        /\ UNCHANGED <<signing, tab, post, author, queue, expired>>
    BY <1>4 DEF ServeLate
  <2>2. /\ record' \in [Keys -> {"none", "made", "deleted"}]
        /\ \A k \in Keys : Made(k) => record'[k] # "none"
    BY <1>2, <2>1, LedgerFacts
  <2>3. \A u \in Tabs : PageFits(tab'[u], post'[u])
    BY <2>1, <2>2, PagesFit
  <2>. QED
    BY <1>1, <1>2, <2>1, <2>2, <2>3, DraftIInv DEF IInv, TypeOK
<1>. QED
  BY <1>3, <1>4

\* A draft grows old, or its record is deleted, which leaves the mark of its
\* request.
LEMMA OthersIInv ==
  ASSUME IInv, (\E d \in Drafts : Expire(d)) \/ (\E k \in Keys : DeleteRecord(k))
  PROVE  IInv'
<1>1. /\ UNCHANGED <<signing, tab, post, late, author, queue>>
      /\ expired' \subseteq Drafts
      /\ record' \in [Keys -> {"none", "made", "deleted"}]
      /\ \A k \in Keys : Made(k) => record'[k] # "none"
  BY DEF Expire, DeleteRecord, Made, IInv, TypeOK
<1>2. /\ queue' \subseteq Drafts /\ IsFiniteSet(queue)'
      /\ \A o \in Owners : Cardinality(Queued(o)') <= QueueLimit
  BY <1>1, QueueShrinks
<1>3. \A t \in Tabs : PageFits(tab'[t], post'[t])
  BY <1>1, PagesFit
<1>. QED
  BY <1>1, <1>2, <1>3, DraftIInv DEF IInv, TypeOK, HandlesHaveSessions

-----------------------------------------------------------------------------
(* The theorems *)

LEMMA NextIInv == IInv /\ [Next]_vars => IInv'
<1> SUFFICES ASSUME IInv, [Next]_vars PROVE IInv'
  OBVIOUS
<1>1. CASE Logout \/ \E h \in Handles : EndSession(h)
  BY <1>1, EndSessionIInv
<1>2. CASE \/ \E x \in Logins : StartLogin(x) \/ ExpireLogin(x)
           \/ \E c \in Codes, x \in Logins, o \in Owners : Authorize(c, x, o)
  BY <1>2, LoginIInv
<1>3. ASSUME NEW q \in Callbacks,
             \/ \E c \in Codes : SendCallback(q, c)
             \/ CheckLogin(q) \/ Exchange(q) \/ CallbackFails(q) \/ Answer(q) \/ LoseAnswer(q)
      PROVE  IInv'
  BY <1>3, CallbackStepsIInv
<1>4. ASSUME NEW q \in Callbacks, ExchangeFails(q) PROVE IInv'
  BY <1>4, ExchangeFailsIInv
<1>5. ASSUME NEW q \in Callbacks, NEW h \in Handles, Finish(q, h) PROVE IInv'
  BY <1>5, FinishIInv
<1>6. CASE SignIn
  BY <1>1, <1>2, <1>3, <1>4, <1>5, <1>6 DEF SignIn
<1>7. ASSUME NEW t \in Tabs, Draft(t) PROVE IInv'
  BY <1>7, TabStepsIInv, ServeIInv DEF Draft
<1>8. CASE \E request \in late : ServeLate(request)
  BY <1>8, ServeIInv
<1>9. CASE (\E d \in Drafts : Expire(d)) \/ (\E k \in Keys : DeleteRecord(k))
  BY <1>9, OthersIInv
<1>10. CASE UNCHANGED vars
  <2>1. UNCHANGED <<signing, drafting>>
    BY <1>10 DEF vars
  <2>2. /\ \A t \in Tabs : post'[t] # None /\ post'[t].handle # None =>
              session[post'[t].handle] # None
        /\ \A request \in late' : request.handle # None => session[request.handle] # None
    BY <2>1 DEF drafting, IInv, HandlesHaveSessions
  <2>3. \A h \in Handles : session'[h] = session[h]
    BY <2>1 DEF signing
  <2>. QED
    BY <2>1, <2>2, <2>3, DraftingStays, SigningStays DEF IInv, TypeOK
<1>. QED
  BY <1>6, <1>7, <1>8, <1>9, <1>10 DEF Next

THEOREM Invariance == Spec => []IInv
  BY InitIInv, NextIInv, PTL DEF Spec

\* The rows of the sign-in and of the ledger, the cookies, the pages and the
\* queue are of their types, and no owner has more than fifty drafts queued.
THEOREM TypeCorrect == Spec => []TypeOK
<1>1. IInv => TypeOK
  BY DEF IInv
<1>. QED
  BY <1>1, Invariance, PTL

\* A login gives one session at most, whatever callbacks run beside each other
\* and fail.
THEOREM LoginsGiveOneSession == Spec => []OneSessionPerLogin
<1>1. IInv => OneSessionPerLogin
  BY DEF IInv
<1>. QED
  BY <1>1, Invariance, PTL

\* The steps that write the queue.
LEMMA QueueWriters ==
  ASSUME [Next]_vars, queue' # queue
  PROVE  \E t \in Tabs : Load(t) \/ QueueDraft(t) \/ Clear(t) \/ Synced(t)
<1>1. ~UNCHANGED drafting /\ ~UNCHANGED vars
  BY DEF drafting, vars
<1>2. ~SignIn
  BY <1>1 DEF SignIn, Logout, StartLogin, ExpireLogin, Authorize, SendCallback, CheckLogin,
     Exchange, ExchangeFails, CallbackFails, Answer, LoseAnswer, Finish, EndSession
<1>3. \A d \in Drafts : ~Expire(d)
  BY DEF Expire
<1>4. \A k \in Keys : ~DeleteRecord(k)
  BY DEF DeleteRecord
<1>5. \A request \in late : ~ServeLate(request)
  BY DEF ServeLate
<1>6. PICK t \in Tabs : Draft(t)
  BY <1>1, <1>2, <1>3, <1>4, <1>5 DEF Next
<1>. QED
  BY <1>6 DEF Draft, OpenPage, CloseTab, AskUser, StartSync, Send, Serve, LoseRequest, SyncFails

\* A queued draft leaves the queue when a page of its user has stored it in the
\* ledger of the cookie's user, with age, when a user clears the queue, or when
\* the page of another user writes the queue.  A page of the same user loses none.
THEOREM DraftsAreNotLost == Spec => QueuedDraftSurvives
<1> DEFINE A == \A d \in (queue \ queue') \ expired :
                   \E t \in Tabs : TakenOut(t, d) \/ WrittenByOther(t, d) \/ Clear(t)
<1>1. IInv /\ [Next]_vars => [A]_vars
  <2> SUFFICES ASSUME IInv, [Next]_vars, NEW d \in (queue \ queue') \ expired
               PROVE  \E t \in Tabs : TakenOut(t, d) \/ WrittenByOther(t, d) \/ Clear(t)
    OBVIOUS
  <2>1. PICK t \in Tabs : Load(t) \/ QueueDraft(t) \/ Clear(t) \/ Synced(t)
    BY QueueWriters
  <2>2. CASE author[d] # tab[t].owner /\ ~Clear(t)
    BY <2>1, <2>2 DEF WrittenByOther
  <2>3. CASE author[d] = tab[t].owner /\ Synced(t)
    <3>1. d \in Readable(tab[t].owner)
      BY <2>3 DEF Readable, Queued
    <3>2. d = post[t].draft
      BY <2>3, <3>1 DEF Synced, Kept
    <3>3. post[t].handle # None /\ Made(KeyOf(post[t]))
      BY <2>3 DEF Synced, IInv, DoneIsMade
    <3>. QED
      BY <2>3, <3>2, <3>3 DEF TakenOut
  <2>4. CASE author[d] = tab[t].owner /\ (Load(t) \/ QueueDraft(t))
    BY <2>4 DEF Load, QueueDraft, Readable, Queued
  <2>. QED
    BY <2>1, <2>2, <2>3, <2>4
<1>. QED
  BY <1>1, Invariance, PTL DEF Spec, QueuedDraftSurvives
=============================================================================
