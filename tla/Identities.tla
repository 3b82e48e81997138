----------------------------- MODULE Identities -----------------------------
(***************************************************************************)
(* The identities behind raw names: services/identities.py with its routes *)
(* in api.py and routers/workbench.py, and the merchant rules that         *)
(* services/review.py learns and services/import_review.py applies.        *)
(*                                                                         *)
(* Merchants and items are merged by the same code: an identity of the     *)
(* model is a row of either table.  Requests lock one row after the other  *)
(* (READ COMMITTED); what they read without a lock may be stale when they  *)
(* commit.  Requests with one lock and no other read are one action.       *)
(* A repeated idempotency key is answered from the first result and is a   *)
(* stuttering step.  Rules are followed for one raw merchant name.         *)
(***************************************************************************)
EXTENDS Naturals, FiniteSets

CONSTANTS
    Ids,          \* rows of merchants (or item_identities), in id order
    Names,        \* normalised canonical names with the given specifications
    Holders,      \* rows that refer to an identity: consumptions, lines, items
    Rules,        \* rows that merchant_normalization_rules may come to hold
    Items,        \* review items with this raw merchant name
    Sessions,
    None,
    MaxEvidence   \* bound on the evidence_count of a rule

ASSUME ConstantsAssumption ==
    /\ Ids \subseteq Nat
    /\ IsFiniteSet(Ids)
    /\ None \notin Ids \cup Rules \cup Names
    /\ MaxEvidence \in Nat \ {0}

VARIABLES
    name,         \* canonical_name; None for a row that is not there yet
    active,
    redirect,     \* canonical_merchant_id, canonical_item_id
    suggestion,   \* identity_suggestions by (source, target)
    uses,         \* the identity that a holder refers to
    rule,         \* merchant_normalization_rules
    item,         \* import_review_items
    session

identities == <<name, active, redirect>>
reviews == <<rule, item>>
vars == <<identities, suggestion, uses, reviews, session>>

Pairs == {p \in Ids \X Ids : p[1] # p[2]}
Reasons == {"merchant", "amount"}

Rule == [merchant : Ids, evidence : 1..MaxEvidence, active : BOOLEAN]
Item == [state : {"pending", "resolved"}, reasons : SUBSET Reasons,
         merchant : Ids \cup {None}, rule : Rules \cup {None}]

Session ==
    [kind : {"merge"}, pair : Pairs, accepts : BOOLEAN, held : SUBSET Ids]
        \cup [kind : {"propose"}, found : SUBSET Pairs]
        \cup [kind : {"assign"}, holder : Holders, id : Ids]
        \cup [kind : {"review"}, item : Items, id : Ids, learn : BOOLEAN,
              rule : Rules \cup {None}, settled : SUBSET {"amount"}]

ASSUME NoneAssumption == None \notin Rule \cup Item \cup Session

TypeOK ==
    /\ name \in [Ids -> Names \cup {None}]
    /\ active \in [Ids -> BOOLEAN]
    /\ redirect \in [Ids -> Ids \cup {None}]
    /\ suggestion \in [Pairs -> {"none", "pending", "accepted", "rejected"}]
    /\ uses \in [Holders -> Ids \cup {None}]
    /\ rule \in [Rules -> Rule \cup {None}]
    /\ item \in [Items -> Item \cup {None}]
    /\ session \in [Sessions -> Session \cup {None}]

Init ==
    /\ name = [i \in Ids |-> None]
    /\ active = [i \in Ids |-> FALSE]
    /\ redirect = [i \in Ids |-> None]
    /\ suggestion = [p \in Pairs |-> "none"]
    /\ uses = [h \in Holders |-> None]
    /\ rule = [r \in Rules |-> None]
    /\ item = [x \in Items |-> None]
    /\ session = [t \in Sessions |-> None]

-----------------------------------------------------------------------------
(* Locks *)

Running(kind) == {t \in Sessions : session[t] # None /\ session[t].kind = kind}
Free(i) == \A t \in Running("merge") : i \notin session[t].held

\* Mutant: a suggestion is decided without its row lock.
SuggestionUnlocked(p) == TRUE

SuggestionFree(p) ==
    \A t \in Running("merge") : ~(session[t].accepts /\ session[t].pair = p)
HolderFree(h) == \A t \in Running("assign") : session[t].holder # h
ItemFree(x) == \A t \in Running("review") : session[t].item # x
RuleFree(r) == \A t \in Running("review") : session[t].rule # r

Begin(t, s) == session[t] = None /\ session' = [session EXCEPT ![t] = s]
End(t) == session' = [session EXCEPT ![t] = None]
Is(t, kind) == session[t] # None /\ session[t].kind = kind

\* A refusal, a lost connection or a killed process.
Rollback(t) ==
    /\ session[t] # None
    /\ End(t)
    /\ UNCHANGED <<identities, suggestion, uses, reviews>>

-----------------------------------------------------------------------------
(* Creating, editing and merging *)

Exists(i) == name[i] # None

\* items_create() and merchants_create(): any number of rows may have one name.
Create(i, n) ==
    /\ ~Exists(i)
    /\ name' = [name EXCEPT ![i] = n]
    /\ active' = [active EXCEPT ![i] = TRUE]
    /\ UNCHANGED <<redirect, suggestion, uses, reviews, session>>

\* edit_identity(): the canonical name of an active row.
EditIdentity(i, n) ==
    /\ Free(i)
    /\ active[i]
    /\ name' = [name EXCEPT ![i] = n]
    /\ UNCHANGED <<active, redirect, suggestion, uses, reviews, session>>

OpenMerge(t, p) ==
    /\ Begin(t, [kind |-> "merge", pair |-> p, accepts |-> FALSE, held |-> {}])
    /\ UNCHANGED <<identities, suggestion, uses, reviews>>

\* decide_suggestion() locks the suggestion and merges without a commit.
Accept(t, p) ==
    /\ SuggestionFree(p)
    /\ suggestion[p] = "pending"
    /\ Begin(t, [kind |-> "merge", pair |-> p, accepts |-> TRUE, held |-> {}])
    /\ UNCHANGED <<identities, suggestion, uses, reviews>>

Reject(p) ==
    /\ SuggestionFree(p)
    /\ suggestion[p] = "pending"
    /\ suggestion' = [suggestion EXCEPT ![p] = "rejected"]
    /\ UNCHANGED <<identities, uses, reviews, session>>

\* Mutant: the source is locked before the target.
NextLockSourceFirst(p, held) == IF p[1] \in held THEN p[2] ELSE p[1]

\* Both endpoints are locked in id order.
NextLock(p, held) ==
    CHOOSE i \in {p[1], p[2]} \ held : \A j \in {p[1], p[2]} \ held : i <= j

Lock(t) ==
    /\ Is(t, "merge")
    /\ LET p == session[t].pair
           held == session[t].held
       IN /\ {p[1], p[2]} \ held # {}
          /\ Free(NextLock(p, held))
          /\ session' = [session EXCEPT ![t].held = @ \cup {NextLock(p, held)}]
    /\ UNCHANGED <<identities, suggestion, uses, reviews>>

\* Mutant: the target may have been merged away.
MergeableSource(p) == active[p[1]] /\ redirect[p[1]] = None

\* Mutant: a row that was merged can be given another target.
MergeableAgain(p) == active[p[2]] /\ redirect[p[2]] = None

Mergeable(p) == \A i \in {p[1], p[2]} : active[i] /\ redirect[i] = None

Accepted(p) == [suggestion EXCEPT ![p] = "accepted"]

Merge(t) ==
    /\ Is(t, "merge")
    /\ LET p == session[t].pair IN
          /\ session[t].held = {p[1], p[2]}
          /\ Mergeable(p)
          /\ redirect' = [redirect EXCEPT ![p[1]] = p[2]]
          /\ active' = [active EXCEPT ![p[1]] = FALSE]
          /\ suggestion' = IF session[t].accepts THEN Accepted(p) ELSE suggestion
    /\ End(t)
    /\ UNCHANGED <<name, uses, reviews>>

RefuseMerge(t) ==
    /\ Is(t, "merge")
    /\ session[t].held = {session[t].pair[1], session[t].pair[2]}
    /\ ~Mergeable(session[t].pair)
    /\ End(t)
    /\ UNCHANGED <<identities, suggestion, uses, reviews>>

Suggestable(p) == suggestion[p] = "none"

\* propose_identities() scans under an advisory lock.  Of the active rows with
\* one signature the first is the target of all others.
Propose(t) ==
    LET alike(i) == {j \in Ids : active[j] /\ name[j] = name[i]}
        first(i) == CHOOSE j \in alike(i) : \A k \in alike(i) : j <= k
        found == {p \in Pairs : /\ active[p[1]]
                                /\ p[2] = first(p[1])
                                /\ Suggestable(p)}
    IN /\ Running("propose") = {}
       /\ Begin(t, [kind |-> "propose", found |-> found])
       /\ UNCHANGED <<identities, suggestion, uses, reviews>>

AddSuggestions(t) ==
    /\ Is(t, "propose")
    /\ suggestion' = [p \in Pairs |-> IF p \in session[t].found
                                      THEN "pending" ELSE suggestion[p]]
    /\ End(t)
    /\ UNCHANGED <<identities, uses, reviews>>

-----------------------------------------------------------------------------
(* References to identities *)

\* A new record, line or item may name any identity of the owner; the foreign
\* key waits for a merge that holds the row.
Refer(h, i) ==
    /\ uses[h] = None
    /\ Exists(i)
    /\ Free(i)
    /\ uses' = [uses EXCEPT ![h] = i]
    /\ UNCHANGED <<identities, suggestion, reviews, session>>

\* assign_identities() and edit_identity() of an item read without a lock
\* whether the identity is active.
OpenAssign(t, h, i) ==
    /\ uses[h] # None
    /\ HolderFree(h)
    /\ active[i]
    /\ Begin(t, [kind |-> "assign", holder |-> h, id |-> i])
    /\ UNCHANGED <<identities, suggestion, uses, reviews>>

Assign(t) ==
    /\ Is(t, "assign")
    /\ Free(session[t].id)
    /\ uses' = [uses EXCEPT ![session[t].holder] = session[t].id]
    /\ End(t)
    /\ UNCHANGED <<identities, suggestion, reviews>>

-----------------------------------------------------------------------------
(* Merchant rules *)

ActiveRules == {r \in Rules : rule[r] # None /\ rule[r].active}

\* apply_normalization_rule(): a delivered row gets the merchant of the active
\* rule, and a review item when a reason is left.
DeliverItem(x, amount) ==
    /\ item[x] = None
    /\ \E r \in IF ActiveRules = {} THEN {None} ELSE ActiveRules :
          LET merchant == IF r = None THEN None ELSE rule[r].merchant
              reasons == (IF r = None THEN {"merchant"} ELSE {})
                             \cup (IF amount THEN {"amount"} ELSE {})
          IN item' = [item EXCEPT ![x] =
                [state |-> IF reasons = {} THEN "resolved" ELSE "pending",
                 reasons |-> reasons, merchant |-> merchant, rule |-> r]]
    /\ UNCHANGED <<identities, suggestion, uses, rule, session>>

\* resolve_review() with a merchant: the record and the item are locked, the
\* merchant is read; to learn, the active rule is locked and must agree.
OpenReview(t, x, i, learn, settled) ==
    /\ ItemFree(x)
    /\ item[x] # None /\ item[x].state = "pending"
    /\ settled \subseteq item[x].reasons \cap {"amount"}
    /\ active[i]
    /\ \E r \in IF learn /\ ActiveRules # {} THEN ActiveRules ELSE {None} :
          /\ r # None => /\ RuleFree(r)
                         /\ rule[r].merchant = i
                         /\ rule[r].evidence < MaxEvidence
          /\ Begin(t, [kind |-> "review", item |-> x, id |-> i, learn |-> learn,
                       rule |-> r, settled |-> settled])
    /\ UNCHANGED <<identities, suggestion, uses, reviews>>

NewRule(i) == [merchant |-> i, evidence |-> 1, active |-> TRUE]

\* Mutant: the rules table has no unique index.
RuleInsertableTwice == TRUE

\* The unique index on the active rules of a name.
RuleInsertable == ActiveRules = {}

Learned(t) ==
    LET s == session[t] IN
    IF ~s.learn THEN {<<item[s.item].rule, rule>>}
    ELSE IF s.rule # None
         THEN {<<s.rule, [rule EXCEPT ![s.rule].evidence = @ + 1]>>}
         ELSE {<<r, [rule EXCEPT ![r] = NewRule(s.id)]>> :
                  r \in {r \in Rules : rule[r] = None /\ RuleInsertable}}

Review(t) ==
    /\ Is(t, "review")
    /\ Free(session[t].id)
    /\ \E l \in Learned(t) :
          LET x == session[t].item
              reasons == item[x].reasons \ ({"merchant"} \cup session[t].settled)
          IN /\ rule' = l[2]
             /\ item' = [item EXCEPT ![x] =
                   [state |-> IF reasons = {} THEN "resolved" ELSE "pending",
                    reasons |-> reasons, merchant |-> session[t].id, rule |-> l[1]]]
    /\ End(t)
    /\ UNCHANGED <<identities, suggestion, uses>>

\* Another review has made a rule meanwhile.
RefuseReview(t) ==
    /\ Is(t, "review")
    /\ session[t].learn /\ session[t].rule = None
    /\ ~RuleInsertable
    /\ End(t)
    /\ UNCHANGED <<identities, suggestion, uses, reviews>>

\* merchant_rule_revoke()
RevokeRule(r) ==
    /\ RuleFree(r)
    /\ r \in ActiveRules
    /\ rule' = [rule EXCEPT ![r].active = FALSE]
    /\ UNCHANGED <<identities, suggestion, uses, item, session>>

-----------------------------------------------------------------------------
Step(t) == Lock(t) \/ Merge(t) \/ RefuseMerge(t) \/ AddSuggestions(t) \/ Assign(t)
              \/ Review(t) \/ RefuseReview(t)

Next ==
    \/ \E t \in Sessions : Step(t) \/ Rollback(t) \/ Propose(t)
    \/ \E t \in Sessions, p \in Pairs : OpenMerge(t, p) \/ Accept(t, p)
    \/ \E t \in Sessions, h \in Holders, i \in Ids : OpenAssign(t, h, i)
    \/ \E t \in Sessions, x \in Items, i \in Ids, learn \in BOOLEAN,
          settled \in SUBSET {"amount"} : OpenReview(t, x, i, learn, settled)
    \/ \E i \in Ids, n \in Names : Create(i, n) \/ EditIdentity(i, n)
    \/ \E p \in Pairs : Reject(p)
    \/ \E h \in Holders, i \in Ids : Refer(h, i)
    \/ \E x \in Items, amount \in BOOLEAN : DeliverItem(x, amount)
    \/ \E r \in Rules : RevokeRule(r)

Spec == Init /\ [][Next]_vars

-----------------------------------------------------------------------------
(* Properties *)

\* The identity that a chain of redirects leads to, as family_ids() follows it.
Follow[n \in 0..Cardinality(Ids)] ==
    [i \in Ids |-> IF n = 0 \/ redirect[i] = None THEN i ELSE Follow[n - 1][redirect[i]]]
Root(i) == Follow[Cardinality(Ids)][i]

\* Whatever is merged concurrently, and in whatever order, the redirects make
\* no circle, and every identity leads to one that can still be edited; and a
\* suggestion is only shown as accepted when its own merge was made.
FamilyHasActiveRoot ==
    /\ \A i \in Ids : Exists(i) => redirect[Root(i)] = None /\ active[Root(i)]
    /\ \A p \in Pairs : suggestion[p] = "accepted" => redirect[p[1]] = p[2]

\* Purchases that are counted together stay together: no request splits a
\* family, also when it commits after its members were merged away.
FamiliesOnlyGrow ==
    [][\A i, j \in Ids : Root(i) = Root(j) => Root(i)' = Root(j)']_redirect

\* A suggestion is decided once.  What was accepted or rejected stays so, and no
\* scan proposes it again; one is accepted in the step that makes its own merge,
\* and an acceptance that ends without its merge, because another request has
\* merged one of the two or the process was killed, leaves it open.
SuggestionsAreDecidedOnce ==
    [][/\ \A p \in Pairs : suggestion'[p] # suggestion[p] =>
              \/ suggestion[p] = "none" /\ suggestion'[p] = "pending"
              \/ suggestion[p] = "pending" /\ suggestion'[p] = "rejected"
              \/ suggestion[p] = "pending" /\ suggestion'[p] = "accepted"
                    /\ redirect[p[1]] = None /\ redirect'[p[1]] = p[2]
       /\ \A t \in Running("merge") : session[t].accepts /\ session'[t] # session[t] =>
              \/ session'[t] # None
              \/ suggestion'[session[t].pair] = "accepted"
              \/ suggestion'[session[t].pair] = "pending" /\ redirect' = redirect]_vars

\* At most one rule speaks for a raw name, although two reviews may both have
\* found none.
OneRulePerName == Cardinality(ActiveRules) <= 1

\* Merges that wait for each other's rows never wait in a circle: one of them
\* can take its next lock or has both.
Locked(t) == session[t].held = {session[t].pair[1], session[t].pair[2]}
MergesGoOn ==
    Running("merge") # {} =>
        \E t \in Running("merge") :
            Locked(t) \/ Free(NextLock(session[t].pair, session[t].held))

-----------------------------------------------------------------------------
(* The inductive invariant *)

\* A row is active until it is merged, and is only merged into one that exists.
Merged == {i \in Ids : redirect[i] # None}
MergedIsRetired ==
    \A i \in Ids :
        /\ active[i] <=> Exists(i) /\ i \notin Merged
        /\ i \in Merged => Exists(i) /\ Exists(redirect[i])

\* Redirects lead downwards in some order, with one step less than rows that
\* have been merged.
RedirectsDescend ==
    \E depth \in [Ids -> 0..Cardinality(Merged)] :
        \A i \in Merged : depth[redirect[i]] < depth[i]

AcceptedIsMerged ==
    \A p \in Pairs : suggestion[p] = "accepted" => redirect[p[1]] = p[2]

\* A suggestion waits for the one request that accepts it.
AcceptanceIsHeld ==
    \A t \in Running("merge") : session[t].accepts =>
        /\ suggestion[session[t].pair] = "pending"
        /\ \A u \in Running("merge") :
              session[u].accepts /\ session[u].pair = session[t].pair => u = t

\* The advisory lock of a proposal keeps other proposals away from what it found.
ProposalIsNew ==
    \A t \in Running("propose") :
        /\ Running("propose") = {t}
        /\ \A p \in session[t].found : suggestion[p] = "none"

\* The locks of a merge are its own, and were taken from its lower end.
RowsAreHeldInOrder ==
    \A t \in Running("merge") :
        LET p == session[t].pair IN
        /\ session[t].held \subseteq {p[1], p[2]}
        /\ \A i \in {p[1], p[2]} \ session[t].held, j \in session[t].held : j < i
        /\ \A u \in Running("merge") \ {t} : session[u].held \cap session[t].held = {}

\* A review has an item, and the rule it is going to count has room.
ReviewsAreCurrent ==
    \A t \in Running("review") :
        LET r == session[t].rule IN
        /\ item[session[t].item] # None
        /\ r # None => /\ rule[r] # None /\ rule[r].evidence < MaxEvidence
                       /\ \A u \in Running("review") : session[u].rule = r => u = t

RuleIsAlone == \A r, q \in ActiveRules : r = q

IInv ==
    /\ TypeOK
    /\ MergedIsRetired
    /\ RedirectsDescend
    /\ AcceptedIsMerged
    /\ AcceptanceIsHeld
    /\ ProposalIsNew
    /\ RowsAreHeldInOrder
    /\ ReviewsAreCurrent
    /\ RuleIsAlone

-----------------------------------------------------------------------------
(* What does not hold *)

\* What the explanation of a rule says: its evidence_count is the number of
\* review items in which the owner has confirmed it.
EvidenceIsDistinct ==
    \A r \in Rules : rule[r] # None =>
        rule[r].evidence <= Cardinality({x \in Items : item[x] # None /\ item[x].rule = r})
=============================================================================
