------------------------------ MODULE MCBrowser ------------------------------
(* A small instance of Browser. *)
EXTENDS Browser, TLC

\* Two themes.  Signing in: how one gets a session, before any tab is open.
\* Drafting: what tabs do with drafts.  There the users sign in one after the
\* other, without a failure and between two requests of the tabs; a session
\* ends by a logout or by the next login.  The last draft shows only the limit of
\* the queue.
SigningIn == \A t \in Tabs : tab[t] = None /\ post[t] = None

Drafting ==
    /\ \A x \in Logins : login[x] # "expired" /\ (login[x] = "consumed" =>
          \E h \in Handles : session[h] # None /\ session[h].login = x)
    /\ \A c, d \in Codes : code[c] # None /\ code[d] # None /\ c # d =>
          code[c].owner # code[d].owner /\ code[c].login # code[d].login
    /\ \A q \in Callbacks : callback[q] # None => callback[q].binding = LoginOf(q)
    /\ Cardinality({q \in Callbacks : callback[q] # None}) <= 1
    /\ \A h \in Handles : session[h] # None /\ ~session[h].live => handle # h
    /\ \A t \in Tabs : post[t] = None \/ \A x \in Logins : login[x] # "open"
    /\ \A t \in Tabs : post[t] = None \/ \A q \in Callbacks : callback[q] = None
    /\ Cardinality(expired) + Cardinality({k \in Keys : record[k] = "deleted"})
           + Cardinality(late) <= 1
    /\ Unused = {} => /\ handle # None
                      /\ expired = {}
                      /\ \A t \in Tabs : post[t] = None /\ (tab[t] = None \/ tab[t].rows = {})
                      /\ \A k \in Keys : record[k] = "none"

Bounds == SigningIn \/ Drafting

Symmetry == Permutations(Owners) \cup Permutations(Logins) \cup Permutations(Codes)
                \cup Permutations(Handles) \cup Permutations(Callbacks) \cup Permutations(Tabs)
=============================================================================
